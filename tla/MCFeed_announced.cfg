SPECIFICATION FairSpec
CONSTANTS
  h1 = h1
  h2 = h2
  c1 = c1
  c2 = c2
  a1 = a1
  Hosts <- TwoHosts
  Shown <- FirstHost
  Calls <- TwoCalls
  Agents <- OneAgent
  HostOf <- AgentApart
  Changes <- TwoChanges
INVARIANTS
  NothingIsSkipped
PROPERTIES
  EmissionsEnd
CHECK_DEADLOCK FALSE
