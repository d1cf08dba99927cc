SPECIFICATION Spec
CONSTANTS
  c1 = c1
  c2 = c2
  Callers <- One
  Validity <- Short
  NoCaller = NoCaller
  OwnMutations = 2
  MaxTroubles = 0
INVARIANT
  RequirementSticks
