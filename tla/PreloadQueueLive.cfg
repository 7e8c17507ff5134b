CONSTANTS
  p1 = p1
  p2 = p2
  p3 = p3
  l1 = l1
  l2 = l2
  k1 = k1
  f1 = f1
  f2 = f2
  None = None
  Pictures = {p1, p2}
  Viewed = {p1}
  Loaders = {l1, l2}
  Faults = {"request"}
  Queues = {k1}
  Fetches = {f1, f2}
  Lists <- MCWholeLists
  Pages = {1}
  Malformed = {}
SPECIFICATION FairSpec
PROPERTIES AllPreloaded SpinnerEnds
