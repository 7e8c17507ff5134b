CONSTANTS
  t1 = t1
  t2 = t2
  t3 = t3
  k1 = k1
  v1 = v1
  None = None
  Empty = Empty
  Threads = {t1, t2, t3}
  Keys = {k1}
  Values = {Empty, v1}
SPECIFICATION Spec
INVARIANTS RowsOfRacers
PROPERTIES KeepsPromise
SYMMETRY Symmetry
