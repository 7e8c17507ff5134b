CONSTANTS
  p1 = p1
  p2 = p2
  p3 = p3
  l1 = l1
  l2 = l2
  k1 = k1
  k2 = k2
  f1 = f1
  f2 = f2
  None = None
  Pictures = {p1, p2, p3}
  Viewed = {p1}
  Loaders = {l1, l2}
  Faults = {"request", "write", "content", "crash"}
  Queues = {k1, k2}
  Fetches = {f1, f2}
  Lists <- MCLists
  Pages = {}
  Malformed = {p3}
SPECIFICATION Spec
INVARIANTS PreloadTypeOK OneInFlight  FetchesAreServed
PROPERTY StoppedIsQuiet
SYMMETRY Symmetry
