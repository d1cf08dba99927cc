SPECIFICATION FairSpec
CONSTANTS
  d1 = d1
  d2 = d2
  p1 = p1
  p2 = p2
  Dbs = {d1, d2}
  Procs = {p1, p2}
  NoProc = NoProc
  MaxAttempts = 2
  MaxFaults = 2
INVARIANTS
  TypeOK
  AbortedNeverCommitted
  PermitOnlyWhenCommitted
  ChainsAgree
PROPERTIES
  ImplementsLog
  ReservationsResolved
