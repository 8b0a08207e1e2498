SPECIFICATION SavefilesSpec
CONSTANTS
  u1 = u1
  u2 = u2
  u3 = u3
  Uploads = {u1, u2, u3}
  Deletions = {}
  InstallationOf <- OwnInstallations
  MaxSaves = 2
  AuthenticationDisabled = FALSE
  MaxClock = 2
  MaxSaveCrashes = 0
PROPERTY CleansUpBeyondMaximum
CHECK_DEADLOCK FALSE
