SPECIFICATION Spec
CONSTANTS
  idle = idle
  navigation = navigation
  downloads = downloads
  bogus = bogus
  example = example
  update = update
  UNATTRIBUTED = UNATTRIBUTED
  BETWEEN = BETWEEN
  None = None
  Scenario = {idle, navigation, downloads}
  Playwright = {downloads}
  Destination = {example, update}
  Allowed <- Allowlist
  NameList <- Pages
  Earlier = {{}}
  MaxRequests = 2
  FaultSet = {{"raise"}}
CHECK_DEADLOCK FALSE
INVARIANT OneMeansUnexplained
