SPECIFICATION RuntimeSpec
CONSTANTS
  Parts = {"installation", "database", "migration", "tasks"}
  Procs = {p1, p2}
  Tokens = {t1, t2}
  NoFile = NoFile
  NoToken = NoToken
  NoAction = NoAction
  Pids = {1, 2}
  MaxDesigns = 3
  Schemas = {1, 2}
  MaxRequests = 2
  MaxRevision = 2
  MaxSessions = 2
  MaxCrashes = 1
  Sessions = {1, 2}
  MaxTasks = 2
  MaxBoots = 2
  MaxEvents = 2
SYMMETRY Symmetry
INVARIANTS
  RunIsApproved
  SessionsEndClean
  EvidenceIsWhole
  OneOwnGui
  AppliedIsApproved
  CallerOwnsTask
PROPERTY
  TaskStartsAlone
CHECK_DEADLOCK FALSE
