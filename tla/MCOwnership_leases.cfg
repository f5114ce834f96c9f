SPECIFICATION Spec
CONSTANTS
  p1 = p1
  p2 = p2
  t1 = t1
  t2 = t2
  t3 = t3
  Procs <- MCProcs
  Tasks <- MCTasks
  PathSets <- NestedPaths
  Nonces <- ThreeNonces
  AdvisoryLock = FALSE
  Delegation = TRUE
SYMMETRY Interchangeable
INVARIANTS
  WriterExclusion
CHECK_DEADLOCK FALSE
