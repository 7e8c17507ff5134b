CONSTANTS
  p1 = p1
  l1 = l1
  l2 = l2
  None = None
  Pictures = {p1}
  Viewed = {p1}
  Loaders = {l1, l2}
  Faults = {"request", "content", "crash"}
SPECIFICATION ReloadSpec
PROPERTY ReloadRecovers
