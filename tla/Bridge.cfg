CONSTANTS
  a1 = a1
  a2 = a2
  o1 = o1
  o2 = o2
  i1 = i1
  i2 = i2
  i3 = i3
  w1 = w1
  w2 = w2
  w3 = w3
  None = None
  Arrays = {a1, a2}
  Leaves = {o1, o2}
  Instances = {i1, i2, i3}
  Wrappers = {w1, w2, w3}
  MaxRetain = 2
SPECIFICATION Spec
INVARIANTS CountIsHolders HandlesAgree FreedOnce
SYMMETRY Symmetry
CHECK_DEADLOCK FALSE
