SPECIFICATION Spec
CONSTANTS
  a = a
  b = b
  p = p
  w1 = w1
  w2 = w2
  NoWorker = NoWorker
  Workers = {w1, w2}
  Package = p
  Bundled = {1}
  Tail = {p}
  Nodes <- ForkNodes
  Deps <- ForkDeps
  Convergence = {}
  Round <- NoRounds
  MaxRounds = 0
  Integrating = {b, p}
  ActionNodes = {}
  MaxAttempts = 1
  SettleQueued = TRUE
  Budgets = {3}
  LeaseTerm = 1
  Commands = {"retry", "pause", "cancel"}
  MaxGen = 2
  MaxReserve = 0
SYMMETRY WorkerSymmetry
INVARIANTS
  TypeOK
  LeasesFenced
  IntegrationPointOfNoReturn
  IntegratedNeverDropped
  DependencyOrder
  NeverStuck
  ReleaseMatchesPackage
CHECK_DEADLOCK FALSE
