\* The preedit option goes from "none" to "syllable" in the middle of a syllable.
CONSTANTS
  jamo = jamo
  filler = filler
  Scalar <- MCScalar
  Preedits <- MCPreedits
  Finished <- MCFinished
  MaxText = 3
  SwitchMidway <- MCNoneToSyllable
  CaretByPreedit = FALSE
SPECIFICATION Spec
PROPERTY CommitDeliversPreedit
