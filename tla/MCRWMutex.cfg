\* Three threads, up to two nested read locks, two lock calls each.  No symmetry:
\* a temporal property is checked.
CONSTANTS
  t1 = t1
  t2 = t2
  t3 = t3
  None = None
  Thread <- Threads
  MaxNesting = 2
  MaxCalls = 2
SPECIFICATION FairSpec
INVARIANTS Exclusion ReadersCounted
PROPERTIES LockSpec AllReturn
\* Every thread stops once its calls are spent.
CHECK_DEADLOCK FALSE
