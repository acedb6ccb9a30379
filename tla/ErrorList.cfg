\* Up to three errors, of two kinds, with every set of expected tokens.
SPECIFICATION FairSpec
CONSTANTS
  Types = {"INVALID_TOKEN", "UNEXPECTED_TOKEN"}
  Infos = {1}
  TypeMax = 2
  MaxErrors = 3
INVARIANTS TypeOK ShowsAll FreedOnce
PROPERTIES CallsReturn ImplementsLog
