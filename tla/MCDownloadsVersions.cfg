SPECIFICATION Spec
CONSTANTS
  g1 = g1
  v1 = v1
  v2 = v2
  v3 = v3
  Games = {g1}
  Versions = {v1, v2}
  GameOf <- OneGame
  Archives = {}
  Requests = {r1, r2}
  MaxRestarts = 0
INVARIANT ServesRequested
CHECK_DEADLOCK FALSE
