SPECIFICATION StorageSpec
CONSTANTS
  Accounts = {a, b} Rooms = {wa, wb} Papers = {f1} Numbers = {1, 2, 3}
  Hands = {q1, q2} Meters = {t1, t2} Bytes = {1, 2} Least = 1
  Nobody = Nobody
  Scenes <- ThreeScenes
 
PROPERTY DriftRepaired
CHECK_DEADLOCK FALSE
