CONSTANTS
  q1 = q1
  q2 = q2
  q3 = q3
  q4 = q4
  q5 = q5
  r1 = r1
  r2 = r2
  None = None
  Length = 3
  Size = 2
  Processors = {q1, q2, q3, q4, q5}
  Calls = {r1, r2}
  Setters = {"setData", "setDataAt"}
  ChecksDisposed = TRUE
  Fails = {2}
SPECIFICATION FairSpec
INVARIANTS TypeOK NeighboursAreHeld OneCallEach QueueIsOfCurrent
PROPERTIES RowsOnlyGrow HeldIsLoaded
