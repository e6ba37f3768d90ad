SPECIFICATION UpkeepSpec
CONSTANTS
  NoJob = NoJob
  Jobs = {j1, j2}
  Procs = {p1, p2}
  Recoverers = {p1}
  Tickets = {1, 2}
  Concurrency = 1
  Cap = 2
  StaleAge = 0
  MaxTime = 1
  MaxCrashes = 1
  MaxErrors = 2
  MaxRetries = 1
  Rows = {1, 2}
  Logins = {1, 2}
  Requests = {q1, q2}
  MaxRequests = 3
  MaxRefusals = 1
  Things <- MCThings
  Sort <- MCSort
  Operators = {q1, q2}
  MaxChanges = 3
INVARIANTS RunsApart FilesWhole ConsoleHolds
PROPERTY RecoveredEnds
CHECK_DEADLOCK FALSE
