SPECIFICATION Spec
CONSTANTS
  Workers = {w1, w2}
  Gpus = {g1}
  Mode = "trap"
  ListCap = 4
  WorkerMin = 2
  MinChunk = 1
  BatchSizes = {2, 3}
  MaxDps = 5
SYMMETRY WorkersSym
INVARIANTS TypeOK Conservation WildNeverFiled
PROPERTIES BufferReuse ImplementsDpQueue
CHECK_DEADLOCK FALSE
