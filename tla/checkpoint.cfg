SPECIFICATION FairSpec
CONSTANTS
  Slots = 3
  Entries <- MCEntries
  Home <- MCHome
  Empty = Empty
  NoFile = NoFile
  Modes = {"trap", "concurrent"}
  ReadsFail = FALSE
  MaxStarts = 2
INVARIANTS TypeOK FileComplete
PROPERTIES ImplementsDurableSet TrapExact Ends
CHECK_DEADLOCK FALSE
