\* A loop of more than eight instructions; the list may move when it grows.
SPECIFICATION Spec
CONSTANTS
  a = a
  b = b
  Names = {a, b}
  Literals = {1}
  NULL = NULL
  Trees <- LongLoop
  Growth = 8
  Moves = {TRUE, FALSE}
INVARIANT JumpsResolved
