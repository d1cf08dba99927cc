SPECIFICATION Spec
CONSTANTS
  a = a
  b = b
  p = p
  w1 = w1
  w2 = w2
  NoWorker = NoWorker
  Workers = {w1, w2}
  Package = p
  Bundled = {1}
  Tail = {p}
  Nodes <- ForkNodes
  Deps <- RoundDeps
  Convergence = {a, b}
  Round <- TwoRounds
  MaxRounds = 2
  Integrating = {p}
  ActionNodes = {}
  MaxAttempts = 1
  SettleQueued = FALSE
  Budgets = {3}
  LeaseTerm = 1
  Commands = {"crash", "fail"}
  MaxGen = 2
  MaxReserve = 0
SYMMETRY WorkerSymmetry
INVARIANTS
  CompletedIsPackaged
  NeverStuck
CHECK_DEADLOCK FALSE
