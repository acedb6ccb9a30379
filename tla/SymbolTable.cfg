\* Four identifiers, every hash function into three values that collide in
\* two, four or eight buckets: the table grows twice and then no more.
SPECIFICATION FairSpec
CONSTANTS
  Names = {n1, n2, n3, n4}
  HashValues = {0, 2, 7}
  BucketsMin = 2
  BucketsMax = 8
INVARIANTS TypeOK EachSymbolInItsChain LoadBounded FreedOnce
PROPERTIES CallsReturn ImplementsInterner
