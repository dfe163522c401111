SPECIFICATION Spec
CONSTANTS
  Slots = 3
  Entries <- MCEntries
  Home <- MCHome
  Empty = Empty
  NoFile = NoFile
  Modes = {"trap", "concurrent"}
  ReadsFail = TRUE
  MaxStarts = 2
PROPERTY NoRegress
CHECK_DEADLOCK FALSE
