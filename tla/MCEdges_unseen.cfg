SPECIFICATION EdgesSpec
CONSTANTS
  Parts = {"panel"}
  p1 = p1
  p2 = p2
  parent1 = parent1
  c1 = c1
  c2 = c2
  c3 = c3
  Procs = {p1, p2}
  Parents <- MCParents
  Children <- MCChildren
  Ids <- MCIds
  Dims <- MCDims
  Budgets <- MCBudgets
  Usages <- MCUsages
  MaxConsumed = 4
  MaxIds = 4
  Hashes = {h1, h2}
  NoHash = NoHash
  MaxRevision = 1
  MaxRequests = 2
  MaxClients = 2
  MaxCalls = 2
  NoTree = NoTree
  NoReceipt = NoReceipt
  NoPlan = NoPlan
  MaxTokens = 1
  MaxEdited = 1
  MaxFaults = 2

CHECK_DEADLOCK FALSE
INVARIANT NoUnseenApproval
