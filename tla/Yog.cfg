\* Programs of one to four statements, in three bits.
SPECIFICATION Spec
CONSTANTS
  a = a
  b = b
  Names = {a, b}
  Literals = {1}
  NULL = NULL
  Trees <- RunTrees
  Growth = 8
  Moves = {FALSE}
  MaxInt = 3
  DivTraps = TRUE
  Garbage <- Least
  Inputs <- Answers
INVARIANTS TypeOK CodeTrusted
PROPERTIES ImplementsMeaning NeverStuck
CHECK_DEADLOCK FALSE
