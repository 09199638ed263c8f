\* One context over an arbitrary adapter; caps that truncate every list.
CONSTANTS
  a = a
  b = b
  Scalar <- MCScalar
  Spans <- MCSpans
  Lists <- MCLists
  Caps = {1, 2, 3}
  MaxText = 1
SPECIFICATION Spec
INVARIANTS
  CursorOnList
  ClientUpToDate
