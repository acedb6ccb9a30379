\* Literals of two digits and an int of five bits; a long has eight.
SPECIFICATION Spec
CONSTANTS
  Chars = {"1", "9", "-"}
  TextSize = 5
  IntMax = 15
  LongMax = 127
  Sizes = 32
  MaxChars = 3
  MaxEofs = 1
INVARIANTS LiteralsExact
