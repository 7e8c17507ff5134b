CONSTANTS
  c1 = c1
  c2 = c2
  i1 = i1
  i2 = i2
  d1 = d1
  d2 = d2
  l1 = l1
  l2 = l2
  None = None
  Chapters = {c1}
  N = 2
  Items = {i1}
  KeyOf <- OneChapterKey
  Legacy = {}
  Pictures <- ChapterPictures
  Viewed = {}
  Workers = {d1, d2}
  Loaders = {l1, l2}
  Patient = FALSE
  Faults = {"request", "list"}
SPECIFICATION FairSpec
PROPERTIES WorkersEnd KeepsPromiseFairly
