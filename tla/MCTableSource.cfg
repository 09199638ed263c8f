\* Sources of a few lines through the compiler, which may be killed, and back.
CONSTANTS
  Scalar <- MCScalar
  percent = 2
  underscore = 21
  Escapes <- MCEscapes
  Variants <- MCVariants
  CandidateCap = 3
  Lines <- MCLines
  MaxFields = 3
  MaxRows = 2
  MaxNotes = 1
  LatinLetters = {1, 4}
  PunctuationKeys = {2, 3, 21}
  Covered = {1, 2, 3, 4, 10}
  quote = 25
  apostrophe = 3
  separator = 26
  Commands <- MCCommands
  Former <- MCFormer
SPECIFICATION CompilerSpec
CHECK_DEADLOCK FALSE
INVARIANTS
  OpensWhole
  ReopensAsPrepared
PROPERTIES
  CodesStayTypable
