SPECIFICATION TeamSpec
CONSTANTS
  Parts = {"tools"}
  Hosts = {h1, h2}
  HostTasks = {t1, t2}
  NoHost = NoHost
  Keys = {"k"}
  SafeLimit = 6
  RetainRecent = 2
  TaskMax = 1
  WindowMax = 1
  CompactionMax = 1
  MaxLog = 4
  MaxOpened = 3
  MaxStops = 1
  Agents = {a1, a2}
  NoAgent = NoAgent
  MaxCalls = 2
  MaxEdits = 2
  MaxInodes = 3
  MaxTasks = 2
  Slices = {1, 2}
  Needs <- MCNeeds
  TasksOf <- MCTasksOf
  MaxRetries = 1
  Callers = {"change", "pause", "dispose"}
  MaxRuns = 2
  MaxAsked = 1
  MaxPlans = 2
  MaxEvents = 1
PROPERTY
  RollbackTakesBackOwnEdit
CHECK_DEADLOCK FALSE
