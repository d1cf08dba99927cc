SPECIFICATION FairSpec
CONSTANTS
  p1 = p1
  p2 = p2
  Processes = {p1, p2}
  Kinds = {"replace", "create", "remove"}
  Interrupted <- Everywhere
  MaxCrashes = 2
  MaxFaults = 1
  MaxWrites = 2
  MaxInode = 7
INVARIANTS
  TypeOK
  PreimageKept
PROPERTIES
  ImplementsAtomicFile
  FinishedOrFailedClosed
CHECK_DEADLOCK FALSE
