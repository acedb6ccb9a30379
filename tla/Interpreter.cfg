\* Three bits; the user enters a number, one that is too large, or none.
SPECIFICATION Spec
CONSTANTS
  x = x
  Names = {x}
  Literals <- MinusOne
  NULL = NULL
  Programs <- SmallPrograms
  MaxInt = 3
  DivTraps = TRUE
  Garbage <- Least
  Inputs = {0, 9}
INVARIANTS TypeOK TemporariesComputed
CHECK_DEADLOCK FALSE
