CONSTANTS
  MaxAttempts = 3
SPECIFICATION FairSpec
INVARIANTS
  EffectsBounded
  OrderedOnce
PROPERTIES
  KeepsContract
  CallEnds
