SPECIFICATION FairSpec
CONSTANTS
  a = a
  b = b
  p = p
  w1 = w1
  w2 = w2
  NoWorker = NoWorker
  Workers = {w1, w2}
  Package = a
  Bundled = {}
  Tail = {p}
  Nodes <- SoloNodes
  Deps <- SoloDeps
  Convergence = {}
  Round <- NoRounds
  MaxRounds = 0
  Integrating = {p}
  ActionNodes = {}
  MaxAttempts = 1
  SettleQueued = TRUE
  Budgets = {4}
  LeaseTerm = 2
  Commands = {"crash", "cancel_node"}
  MaxGen = 3
  MaxReserve = 0
INVARIANTS
  AttemptsBounded
PROPERTIES
  ExpiredLeasesRecovered
CHECK_DEADLOCK FALSE
