SPECIFICATION FairSpec
CONSTANTS
  r1 = r1
  r2 = r2
  r3 = r3
  o1 = o1
  o2 = o2
  Requests = {r1, r2, r3}
  Owners = {o1, o2}
  OwnerOf <- Processes
  Keys = {"agent", "memoryMiB"}
  Limit <- Limits
  Size <- Sizes
  LeaseTerm = 2
  WaiterTerm = 2
  MaxDelay = 1
  Stalling = {o2}
  Failing = {r2}
INVARIANTS
  TypeOK
  HolderKeepsRow
  NoOvercommit
PROPERTIES
  FirstComeFirstServed
  SmallestServed
CHECK_DEADLOCK FALSE
