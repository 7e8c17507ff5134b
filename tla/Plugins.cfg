CONSTANTS
  k1 = k1
  k2 = k2
  v1 = v1
  v2 = v2
  r1 = r1
  r2 = r2
  None = None
  Keys = {k1, k2}
  Own = k2
  Log <- MCLog
  PageSize = 2
  FirstPage = 1
  Views = {v1, v2}
  Reloads = {r1, r2}
  Overlap = FALSE
  MaxEdits = 2
SPECIFICATION Spec
INVARIANTS TypeOK OnlyAnnounced PrevIsListed
PROPERTIES LastReloadIsComplete RemovedStaysAway
SYMMETRY Symmetry
