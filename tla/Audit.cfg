SPECIFICATION FairSpec
CONSTANTS
  idle = idle
  navigation = navigation
  downloads = downloads
  bogus = bogus
  example = example
  update = update
  UNATTRIBUTED = UNATTRIBUTED
  BETWEEN = BETWEEN
  None = None
  Scenario = {idle, navigation, downloads}
  Playwright = {downloads}
  Destination = {example, update}
  Allowed <- Allowlist
  NameList <- Lists
  Earlier <- Dumps
  MaxRequests = 2
  FaultSet <- AnyFault
CHECK_DEADLOCK FALSE
INVARIANTS
  TypeOK
  VerdictTrue
  SentIsExplained
  PassIsComplete
  EvidenceKept
  NothingLeftBehind
PROPERTY AuditEnds
