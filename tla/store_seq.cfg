SPECIFICATION Spec
CONSTANTS
  Threads = {w1}
  NoThread = NoThread
  Points <- SeqPoints
  Zero = Zero
  Hash <- MCHash
  XSig <- MCXSig
  AllWild = FALSE
  NoRotation = TRUE
  TableSize = 4
  SlotsPerShard = 2
  NumShards = 2
  MaxProbe = 2
  RotProbe = 2
  WWSize = 2
  WWProbe = 2
  FileOpen = FALSE
INVARIANTS
  CountExact
PROPERTIES
  ImplementsDpStore
CHECK_DEADLOCK FALSE
