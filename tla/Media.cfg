SPECIFICATION MediaSpec
CONSTANTS
  Pictures = {p1, p2}
  Accounts = {u1, u2}
  Players = {u2}
  Covers = {c1}
  Collections = {g1, g2}
  Lookups = {l1}
  MaxFilesLost = 0
  MaxMediaRestarts = 0
INVARIANT AccountsSurvive
CHECK_DEADLOCK FALSE
