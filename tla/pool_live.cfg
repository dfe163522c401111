SPECIFICATION FairSpec
CONSTANTS
  Workers = {w1, w2}
  Gpus = {g1, g2}
  Mode = "concurrent"
  ListCap = 5
  WorkerMin = 0
  MinChunk = 1
  BatchSizes = {1}
  MaxDps = 2
PROPERTIES Handled Shutdown
CHECK_DEADLOCK FALSE
