CONSTANTS
  la = la
  ln = ln
  stop = stop
  a = a
  na = na
  nn = nn
  kuten = kuten
  ka = ka
  blank = blank
  hill = hill
  river = river
  Scalar <- MCScalar
  Keys <- MCKeys
  SentenceEnds <- MCSentenceEnds
  RomajiTable <- MCRomajiTable
  Symbols <- MCSymbols
  Geminating <- MCGeminating
  ContinuesN <- MCContinuesN
  Katakana <- MCKatakana
  Halfwidth <- None
  Periods <- None
  Brackets <- None
  Middot <- None
  n = ln
  sokuon = nn
  hatsuon = nn
  space = blank
  Analyse <- MCAnalyse
  Situations <- MCSituations
SPECIFICATION Spec
INVARIANTS
  ShowsWhatWasTyped
  HighlightIsPreview
PROPERTIES
  EndDeliversPreedit
  SelectDeliversShown
  ReadingSurvives
  TaughtWhatWasCommitted
