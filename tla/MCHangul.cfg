\* The three preedit modes, changed between compositions, and from "syllable" to
\* "word" in the middle of one, against a client that ends a composition before it
\* moves the caret.
CONSTANTS
  jamo = jamo
  filler = filler
  Scalar <- MCScalar
  Preedits <- MCPreedits
  Finished <- MCFinished
  MaxText = 3
  SwitchMidway <- MCSyllableToWord
  CaretByPreedit = FALSE
SPECIFICATION Spec
INVARIANTS
  TypeOK
  IdleHoldsNothing
  SyllableAccountedFor
  ClientUpToDate
PROPERTIES
  DeletesOnlyItsSyllable
  EndsAsShown
  KeepsTheLine
