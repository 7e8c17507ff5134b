CONSTANTS
  b1 = b1
  b2 = b2
  None = None
  Books = {b1, b2}
  Chapters = 2
  MaxItems = 3
  MaxEdits = 2
  Legacy <- OneLegacy
  Edits = {"add", "remove", "clearNew", "clear", "move", "import"}
  Faults = {"request", "restart"}
SPECIFICATION FairSpec
PROPERTIES NewsArrive
CHECK_DEADLOCK FALSE
