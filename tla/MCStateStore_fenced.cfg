SPECIFICATION HostSpec
CONSTANTS
  Procs = {p1, p2, p3}
  MaxRevision = 3
  Parts = {"state", "stream"}
  MaxWire = 2
INVARIANTS
  AckedIsDurable
  OutcomeIsTold
PROPERTIES
  ImplementsRegister
  StreamsEnd
CHECK_DEADLOCK FALSE
