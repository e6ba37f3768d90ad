SPECIFICATION IdentitySpec
CONSTANTS
  h1 = h1 h2 = h2 r1 = r1 r2 = r2 l1 = l1 l2 = l2 l3 = l3 e1 = e1 e2 = e2 ann = ann bob = bob
  c1 = c1 c2 = c2 c3 = c3 t1 = t1 t2 = t2 s1 = s1 s2 = s2
  None = None
  Replies = {r1, r2}
  Links = {l1, l2, l3}
  Addresses = {e1, e2}
  Holder <- HolderOf
  Hands = {h1, h2}
  MaxRequests = 4
  MaxCuts = 1
  Requested = {c1}
  Codes = {c1, c2, c3}
  Tickets = {t1, t2}
  MaxAttempts = 2
  MaxProofRequests = 5
  Sessions = {s1, s2}
  MaxGuesses = 2
  HourlyMax = 1
  MaxTicks = 1
  MaxAccountRequests = 5
SYMMETRY Alike
INVARIANTS WithinBounds OnlyTheProven LinksServe
PROPERTIES GoneStay
CHECK_DEADLOCK FALSE
