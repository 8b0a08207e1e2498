SPECIFICATION FairSpec
CONSTANTS
  g1 = g1
  v1 = v1
  v2 = v2
  v3 = v3
  Games = {g1}
  Versions = {v1, v2}
  GameOf <- OneGame
  Archives = {v2}
  Requests = {r1, r2, r3}
  MaxRestarts = 1
INVARIANT TypeOK
INVARIANT OtpSingleUse
INVARIANT NeverOvercounts
INVARIANT TarHasOwner
PROPERTY TarReclaimed
PROPERTY KeepsPromise
CHECK_DEADLOCK FALSE
