SPECIFICATION FairSpec
CONSTANTS
  Threads = {w1, w2}
  NoThread = NoThread
  Points <- TamePoints
  Zero = Zero
  Hash <- MCHash
  XSig <- MCXSig
  AllWild = FALSE
  NoRotation = FALSE
  TableSize = 4
  SlotsPerShard = 2
  NumShards = 2
  MaxProbe = 2
  RotProbe = 1
  WWSize = 2
  WWProbe = 2
  FileOpen = TRUE
INVARIANTS
  TypeOK
  FullChainBehindFreeze
  MixedOnlyAcrossShards
  NoMissedWW
PROPERTIES
  Termination
CHECK_DEADLOCK FALSE
