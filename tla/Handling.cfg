SPECIFICATION HandlingSpec
CONSTANTS
  None = None
  Responses = {r1, r2}
  Tests = {r2}
  People = {p1, p2}
  Mentionable = {ann, bob, m1}
  Author = ann
  MaxCuts = 1
  Tags = {t1, t2}
  Slots = {k1, k2}
  MaxRequests = 3
  MaxFaults = 1
  Cards = {1, 2, 3}
  Columns = {s1, s2}
  Spacing = 4
  MinGap = 2
  Hands = {k1, k2}
  Criteria = {c1, c2}
  Reviewers = {m1, m2}
  Editors = {k1, k2}
SYMMETRY Alike
INVARIANTS NothingDangles MentionsTold
PROPERTIES PlacedRight DeletesKeep
CHECK_DEADLOCK FALSE
