\* Short programs, well declared or not, repaired or not, and nested control
\* structures; the list of instructions may move whenever it grows.
SPECIFICATION Spec
CONSTANTS
  a = a
  b = b
  Names = {a, b}
  Literals = {1}
  NULL = NULL
  Trees <- AllTrees
  Growth = 8
  Moves = {TRUE, FALSE}
INVARIANTS TypeOK AcceptedIsDeclared ErrorsJustified OperandsReady
           LabelsResolved TemporariesStraight CodeConnected
