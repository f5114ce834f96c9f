SPECIFICATION TeamSpec
CONSTANTS
  Parts = {"dispatch", "delegation"}
  e1 = e1
  e2 = e2
  e3 = e3
  w1 = w1
  t1 = t1
  t2 = t2
  u1 = u1
  Experts <- ThreeExperts
  Workers <- OneWorker
  TaskOf <- FamilyTasks
  Caller <- OfFirst
  Clashes <- WorkerClashes
  MaxOthers = 1
  Faults = TRUE
  Crashes = TRUE
  Leads = {e1, e2}
  Helpers = {w1}
  Roles = {"developer", "tester"}
  Requests = {{"write", "business", "run", "delegate"}}
  Scopes = {{"code", "test"}, {"test"}}
  Versions = {v1, v2}
  MaxChildren = 2
  MaxProposals = 1
  MaxChanges = 1
SYMMETRY Interchangeable
INVARIANTS
  PassedRunHasHandoff
  RunnersDoNotClash
  AcceptedTreeIsWhole
CHECK_DEADLOCK FALSE
