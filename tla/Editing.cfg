SPECIFICATION Spec
CONSTANTS
  None = None
  Clients = {ann, bob}
  Saves = {s1, s2}
  Fields = {f1}
  Slots = {k1, k2}
  MaxTries = 3
  MaxLinks = 2
  MaxOthers = 2
  OnePublisher = TRUE
SYMMETRY Alike
INVARIANTS SavesHold
PROPERTIES EditsStay
CHECK_DEADLOCK FALSE
