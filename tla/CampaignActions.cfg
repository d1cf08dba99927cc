SPECIFICATION Spec
CONSTANTS
  a = a
  b = b
  p = p
  w1 = w1
  w2 = w2
  NoWorker = NoWorker
  Workers = {w1, w2}
  Package = p
  Bundled = {1, 2}
  Tail = {p}
  Nodes <- ChainNodes
  Deps <- ChainDeps
  Convergence = {}
  Round <- NoRounds
  MaxRounds = 0
  Integrating = {a, p}
  ActionNodes = {a}
  MaxAttempts = 1
  SettleQueued = TRUE
  Budgets = {2, 3}
  LeaseTerm = 1
  Commands = {"pause", "cancel_node", "retry"}
  MaxGen = 2
  MaxReserve = 1
SYMMETRY WorkerSymmetry
INVARIANTS
  UsageConserved
  BudgetRespected
  RefundedNeverActed
PROPERTIES
  SettledIsFinal
  UncertainNotRequeued
CHECK_DEADLOCK FALSE
