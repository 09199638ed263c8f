\* Pinyin under both schemes and bopomofo; the client edits and reports its document.
CONSTANTS
  ln = ln
  li = li
  one = one
  blank = blank
  quote = quote
  dquote = dquote
  dot = dot
  niSimp = niSimp
  niTrad = niTrad
  en = en
  dn = dn
  di = di
  zn = zn
  zi = zi
  gap = gap
  bar = bar
  wideOne = wideOne
  wideBlank = wideBlank
  wideLetter = wideLetter
  o1 = o1
  c1 = c1
  o2 = o2
  c2 = c2
  kuten = kuten
  Scalar <- MCScalar
  Emittable <- MCEmittable
  Latin <- MCLatin
  Digits = {one}
  FullWidth <- MCFullWidth
  Marks <- MCMarks
  single = quote
  double = dquote
  stop = dot
  openSingle = o1
  closeSingle = c1
  openDouble = o2
  closeDouble = c2
  fullStop = kuten
  Ids = {"pinyin", "bopomofo"}
  Keys <- MCKeys
  space = blank
  apostrophe = quote
  Alphabet <- MCAlphabet
  Accepts <- MCAccepts
  Spelling <- MCSpelling
  Conversions <- MCConversions
  Separators = {gap}
  mark = bar
  Capacity = 2
  Settings <- MCSettings
  Documents <- MCDocuments
  Sounds <- MCSounds
SPECIFICATION Spec
INVARIANTS
  ListIsCurrent
PROPERTIES
  KeepsKeystrokes
  EndDeliversPreedit
  RemembersDeliveries
