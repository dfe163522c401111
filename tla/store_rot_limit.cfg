SPECIFICATION Spec
CONSTANTS
  Threads = {w1}
  NoThread = NoThread
  Points <- RotPoints
  Zero = Zero
  Hash <- MCHash
  XSig <- MCXSig
  AllWild = TRUE
  NoRotation = FALSE
  TableSize = 4
  SlotsPerShard = 2
  NumShards = 2
  MaxProbe = 2
  RotProbe = 1
  WWSize = 0
  WWProbe = 2
  FileOpen = TRUE
INVARIANTS
  NoMissedEntry
CHECK_DEADLOCK FALSE
