SPECIFICATION WorkspaceSpec
CONSTANTS
  ann = ann
  bob = bob
  guest = guest
  None = None
  Users = {ann, bob, guest}
  Creator = bob
  Guest = guest
  a1 = a1
  a2 = a2
  i1 = i1
  i2 = i2
  Invites = {i1, i2}
  Actors = {a1, a2}
  MaxRequests = 4
  MaxFaults = 1
  OneManager = TRUE
  a = a b = b o = o s1 = s1 s2 = s2 w1 = w1 w2 = w2 qa = qa qb = qb
  Responses = {1, 2, 3}
  Options = {a, b}
  Sample <- SampleOf
  Late = {3}
  WeekOf <- Weeks
  Stages = {s1, s2}
  Definitions <- Menu
  Asks = {a1, a2}
  DayLimit = 2
  TopGroups = 5
  TimeGroups = 2
  MaxSegments = 2
  MaxRunning = 1
  MaxCached = 1
  Ttl = 1
  MaxTime = 1
  MaxWrites = 1
  MaxAsks = 3
  MaxErrors = 1
  Members = {ann, bob}
  Admins = {ann}
  Screens = {w1, w2}
  ChartIds = {1, 2, 3}
  Questions = {qa, qb}
  Designs <- Drawn
  Limit = 1
  Hands = {a1, a2}
  MaxLooks = 3
  MaxChanges = 1
SYMMETRY Alike
INVARIANTS RolesHold AccessHolds ChartsHold KeptHolds
PROPERTIES InvitesOnlyAdd
CHECK_DEADLOCK FALSE
