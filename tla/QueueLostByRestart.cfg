SPECIFICATION FairSpec
CONSTANTS
  NoJob = NoJob
  Jobs = {j1}
  Procs = {p1}
  Recoverers = {p1}
  Tickets = {1, 2}
  Concurrency = 1
  Cap = 1
  StaleAge = 1
  MaxTime = 2
  MaxCrashes = 1
  MaxErrors = 0
  MaxRetries = 0
PROPERTY RestartLosesNothing
CHECK_DEADLOCK FALSE
