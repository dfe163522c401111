SPECIFICATION FairSpec
CONSTANTS
  Workers = {w1, w2}
  BsgsThreads = {b1}
  Collisions <- MixedCollisions
  NoCollision = NoCollision
  QueueMax = 1
  PrivKey = 5
  BabySteps = 3
  MaxGiants = 2
  HalfRange = 20
  gStart = 7
  TruncSize = 6
  KeptSize = 24
  DistSize = 96
INVARIANTS TypeOK FlagExact ResolvedOnce KeyBehindSolved CandidatesKept
PROPERTIES FlagReset MailboxDrained RealSolves
CHECK_DEADLOCK FALSE
