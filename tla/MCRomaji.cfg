\* Every run of up to four keys, from every buffer a shifted letter or a
\* backspace can leave, under both methods of entry.
CONSTANTS
  la = la
  lk = lk
  ly = ly
  ln = ln
  comma = comma
  ka = ka
  kya = kya
  ya = ya
  a = a
  na = na
  tsu = tsu
  nn = nn
  touten = touten
  KKA = KKA
  KA = KA
  KNA = KNA
  ga = ga
  ha = ha
  ba = ba
  pa = pa
  voiced = voiced
  semi = semi
  lslash = lslash
  fslash = fslash
  middot = middot
  corner = corner
  square = square
  fcomma = fcomma
  htouten = htouten
  hcomma = hcomma
  hslash = hslash
  hcorner = hcorner
  hka = hka
  hha = hha
  hvoiced = hvoiced
  hsemi = hsemi
  Scalar <- MCScalar
  TypedKeys <- MCTypedKeys
  RomajiTable <- MCRomajiTable
  Symbols <- MCSymbols
  Geminating <- MCGeminating
  ContinuesN <- MCContinuesN
  Katakana <- MCKatakana
  Halfwidth <- MCHalfwidth
  Periods <- MCPeriods
  Brackets <- MCBrackets
  Middot <- MCMiddot
  Fullwidth <- MCFullwidth
  KanaKeys <- MCKanaKeys
  Marks <- MCMarks
  Marked <- MCMarked
  n = ln
  sokuon = tsu
  hatsuon = nn
  MaxTyped = 4
SPECIFICATION TypingSpec
INVARIANTS
  ResolvesLikeWhole
  KanaFollowsKeys
PROPERTIES
  EraseTakesLastShown
