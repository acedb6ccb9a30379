\* Any token in any place, lexical errors included.
SPECIFICATION FairSpec
CONSTANTS
  a = a
  Names = {a}
  Literals = {1}
  NULL = NULL
  Alphabet <- AllTokens
  LexicalErrors = {0, 1}
  MaxTokens = 5
  MaxErrors = 12
INVARIANTS
  TypeOK
  TreeReadable
  TreeLinked
  TreeFreedOnce
  NullSymbolOnlyInRead
  ErrorsInSourceOrder
PROPERTIES
  Terminates
