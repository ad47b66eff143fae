\* Three queries of one character by one thread; a second character, under
\* which a worker may be started when the id is read from freed memory.
CONSTANTS
  c1 = c1
  c2 = c2
  p1 = p1
  p2 = p2
  q1 = q1
  q2 = q2
  q3 = q3
  NoQuery = NoQuery
  Ids = {c1, c2}
  Producers = {p1}
  Queries <- Three
  QueryID <- OfOne
  Submitter <- ByOne
SPECIFICATION FairSpec
INVARIANTS PendingIsActive ActiveIsHeldOnce
  OneWorkerPerConnection TakenInOrder SoleIsServed
PROPERTIES  SoleIsRun
CHECK_DEADLOCK FALSE
