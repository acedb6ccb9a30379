\* Tokens after the end of the program.
SPECIFICATION GrammarSpec
CONSTANTS
  a = a
  Names = {a}
  Literals = {1}
  NULL = NULL
  Alphabet <- ClassTokens
  LexicalErrors = {0}
  MaxTokens = 6
  MaxMixed = 6
  MaxErrors = 0
INVARIANTS
  AcceptedSourceIsProgram
