SPECIFICATION FairSpec
CONSTANTS
  c1 = c1
  c2 = c2
  Callers <- Pair
  Validity <- Longer
  NoCaller = NoCaller
  OwnMutations = 2
  MaxTroubles = 1
INVARIANTS
  TypeOK
  PermitCovered
PROPERTIES
  EpochRestored
