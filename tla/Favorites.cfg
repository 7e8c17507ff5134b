CONSTANTS
  b1 = b1
  b2 = b2
  None = None
  Books = {b1, b2}
  Chapters = 2
  MaxItems = 3
  MaxEdits = 1
  Legacy <- TwoLegacy
  Edits = {"add", "remove", "clearNew", "clear", "move", "import"}
  Faults = {"request", "fetch", "alarm", "restart"}
SPECIFICATION Spec
INVARIANTS SavedByWriter
CHECK_DEADLOCK FALSE
