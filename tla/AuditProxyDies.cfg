SPECIFICATION Spec
CONSTANTS
  idle = idle
  navigation = navigation
  downloads = downloads
  bogus = bogus
  example = example
  update = update
  UNATTRIBUTED = UNATTRIBUTED
  BETWEEN = BETWEEN
  None = None
  Scenario = {idle, navigation, downloads}
  Playwright = {downloads}
  Destination = {example, update}
  Allowed <- Allowlist
  NameList <- Short
  Earlier = {{}}
  MaxRequests = 2
  FaultSet = {{"proxy"}}
CHECK_DEADLOCK FALSE
INVARIANT VerdictSound
