SPECIFICATION Spec
CONSTANTS
  Threads = {w1, w2, w3}
  NoThread = NoThread
  Points <- WildPoints
  Zero = Zero
  Hash <- MCHash
  XSig <- MCXSig
  AllWild = TRUE
  NoRotation = TRUE
  TableSize = 4
  SlotsPerShard = 2
  NumShards = 2
  MaxProbe = 3
  RotProbe = 2
  WWSize = 0
  WWProbe = 2
  FileOpen = FALSE
SYMMETRY ThreadSymmetry
INVARIANTS
  NoHoles
  NoMissedEntry
  CountBound
  NoTwins
CHECK_DEADLOCK FALSE
