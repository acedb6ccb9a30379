\* Programs without an error, and those with one error: any token in short
\* ones, nested control structures in longer ones.
SPECIFICATION MixedSpec
CONSTANTS
  a = a
  Names = {a}
  Literals = {1}
  NULL = NULL
  Alphabet <- ClassTokens
  LexicalErrors = {0, 1}
  MaxTokens = 14
  MaxMixed = 8
  MaxErrors = 0
INVARIANTS
  ParsesTheGrammar
  ExactUnlessReported
