\* Sources of up to four characters, one or two of each class.
SPECIFICATION FairSpec
CONSTANTS
  Chars = {" ", "NL", "1", "i", "-", "*", "<", ">", ":", "=", ";", "(", "#", "?", "NUL"}
  TextSize = 3
  IntMax = 127
  LongMax = 127
  Sizes = 3
  MaxChars = 4
  MaxEofs = 2
INVARIANTS TypeOK TextsInPlace FindsTheLexemes LocationsExact
PROPERTIES LexReturns ImplementsTokenStream
