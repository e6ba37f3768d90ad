SPECIFICATION DeskSpec
CONSTANTS
  Nothing = Nothing
  NoLimit = NoLimit
  NoDate = NoDate
  Requests = {r1, r2, t1}
  Rivals = {r2}
  Tests = {t1}
  Editors = {e1}
  Limits = {1}
  Dates = {0, NoDate}
  MaxTime = 1
  MaxEdits = 2
  MaxFailures = 0
  StageIds = {s1, s2, s3, s4, s5}
  Responses = {a1}
  Handlers = {q1, q2}
  Categories = {fresh, completed}
  First = fresh
  Kinds = {"list", "create", "recategorise", "delete", "own", "workspace", "submit", "move", "status"}
  MaxHandled = 3
  MaxCrashes = 1
SYMMETRY Alike
INVARIANTS    AcceptedOnlyIfOpen ResponsesInPlace
PROPERTIES DefaultStays
CHECK_DEADLOCK FALSE
