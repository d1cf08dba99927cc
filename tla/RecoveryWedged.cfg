SPECIFICATION FairSpec
CONSTANTS
  a = a
  b = b
  p = p
  w1 = w1
  w2 = w2
  NoWorker = NoWorker
  Workers = {w1, w2}
  Package = p
  Bundled = {1}
  Tail = {p}
  Nodes <- ChainNodes
  Deps <- ChainDeps
  Convergence = {}
  Round <- NoRounds
  MaxRounds = 0
  Integrating = {a, p}
  ActionNodes = {a}
  MaxAttempts = 1
  SettleQueued = TRUE
  Budgets = {2}
  LeaseTerm = 1
  Commands = {"crash"}
  MaxGen = 1
  MaxReserve = 0
PROPERTIES
  ExpiredLeasesRecovered
CHECK_DEADLOCK FALSE
