SPECIFICATION FairSpec
CONSTANTS
  Threads = {t1, t2}
  Names = {a, b}
  NPools = 2
  MaxConns = 2
  Watched = 1
INVARIANTS NoneLeaked
PROPERTIES PoolIsCache GetReturns
