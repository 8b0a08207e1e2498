SPECIFICATION RestoreSpec
CONSTANTS
  Restores = {r1}
  Backups = {b1}
  MaxFaults = 2
INVARIANT ManualRestoreIsPossible
CHECK_DEADLOCK FALSE
