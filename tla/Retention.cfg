SPECIFICATION Spec
CONSTANTS
  f1 = f1
  r1 = r1
  timer = timer
  member = member
  Forms = {f1}
  Responses = {r1}
  Of <- MCOf
  Actors = {timer, member}
  Timers = {timer}
  Batch = 1
  MaxFaults = 1
INVARIANTS
  PurgesHold
PROPERTIES
  SweepKeepsRecent
  ExpiredPurged
\* Everything may be gone.
CHECK_DEADLOCK FALSE
