SPECIFICATION KeepingSpec
CONSTANTS
  Nil = Nil
  Personal = Personal
  Users = {u1, u2}
  Workspaces = {w1, w2}
  Hands = {h1, h2}
  OneMover = TRUE
  MaxRequests = 3
  MaxCuts = 1
  People = {p1, p2}
  Owner = p1
  Limit = 2
  MaxLooks = 6
  Forms = {f1, f2, f3}
  First = f1
  Templates = {t1}
  MaxField = 4
  MaxSteps = 5
  Questions = {q1, q2, q3}
  Labels <- TwoLabels
  MaxEdits = 4
  MaxRules = 2
SYMMETRY Interchangeable
INVARIANTS  LooksHold CopiesHold
PROPERTIES StoredHolds
CHECK_DEADLOCK FALSE
