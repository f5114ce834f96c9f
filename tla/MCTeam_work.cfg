SPECIFICATION TeamSpec
CONSTANTS
  Parts = {"sessions", "tools", "development"}
  Hosts = {h1, h2}
  HostTasks = {t1, t2}
  NoHost = NoHost
  Keys = {"k"}
  SafeLimit = 4
  RetainRecent = 1
  TaskMax = 2
  WindowMax = 1
  CompactionMax = 1
  MaxLog = 3
  MaxOpened = 3
  MaxStops = 1
  Agents = {a1, a2}
  NoAgent = NoAgent
  MaxCalls = 2
  MaxEdits = 2
  MaxInodes = 2
  MaxTasks = 2
  Slices = {1, 2}
  Needs <- MCNeeds
  TasksOf <- MCTasksOf
  MaxRetries = 1
  Callers = {"change", "pause", "dispose"}
  MaxRuns = 2
  MaxAsked = 1
  MaxPlans = 2
  MaxEvents = 1
INVARIANTS
  CompactionsAreWhole
  OwnedFileIsAccepted
  WorkKeepsItsPlan
PROPERTIES
  CompletedRunsOnce
  WritesGoToTheFileSeen
CHECK_DEADLOCK FALSE
