\* A Chinese table and a Latin one under five settings; another context learns too.
CONSTANTS
  Scalar <- MCScalar
  Emittable <- MCEmittable
  Latin <- MCLatin
  Digits = {22}
  FullWidth <- MCFullWidth
  Marks <- MCMarks
  single = 20
  double = 21
  stop = 3
  openSingle = 24
  closeSingle = 25
  openDouble = 26
  closeDouble = 27
  fullStop = 14
  percent = 28
  underscore = 29
  Escapes <- MCEscapes
  Variants <- MCVariants
  CandidateCap = 3
  Tables = {"t", "u"}
  none = ""
  Database <- MCDatabase
  Keys <- MCKeys
  space = 4
  Settings <- MCSettings
  Documents <- MCDocuments
  MaxRun = 4
  MaxLearned = 2
SPECIFICATION Spec
INVARIANTS
  ListAnswersRun
PROPERTIES
  KeepsKeys
  HighlightIsDelivered
  LearnsTheChosen
