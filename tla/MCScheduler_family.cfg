SPECIFICATION FairSpec
CONSTANTS
  e1 = e1
  e2 = e2
  w1 = w1
  w2 = w2
  Experts <- MCExperts
  Workers <- MCWorkers
  Parent <- MCParent
  Writes <- MCWrites
  Authorized <- All
  Dims <- MCDims
  Ceiling <- MCCeiling
  Usages <- MCUsages
  Priorities <- NormalOnly
  MaxExperts = 2
  MaxWriters = 2
INVARIANTS
  WritersApart
  SlotsAreKept
PROPERTIES
  DisposedStartsNothing
  EveryCallAnswered
CHECK_DEADLOCK FALSE
