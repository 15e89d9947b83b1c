SPECIFICATION Spec
CONSTANTS
  None = None
  Char = {"d", "e", "f", "x", "1", "2", ".", ":", "*", "/", "-"}
  Digit = {"1", "2"}
  Name <- Names
  Port <- Ports
  Input <- Inputs
CHECK_DEADLOCK FALSE
INVARIANTS
  TypeOK
  HostsMatchByLabel
  PathsMatchBySegment
  VerdictExact
