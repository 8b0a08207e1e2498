SPECIFICATION Spec
CONSTANTS
  p1 = p1
  u1 = u1
  u2 = u2
  u3 = u3
  s1 = s1
  s2 = s2
  s3 = s3
  n1 = n1
  n2 = n2
  v1 = v1
  Uploads = {u1, u3}
  Deletions = {d1}
  InstallationOf <- OwnInstallations
  MaxSaves = 1
  AuthenticationDisabled = TRUE
  MaxClock = 1
  MaxSaveCrashes = 1
  Clients = {c1, c2}
  MaxMinutes = 2
  MaxProgresses = 3
  MaxRequests = 3
  Refreshes = {r1, r2}
  Revocations = {v1}
  SessionBinding = TRUE
  Lifetime = 1
  AccessLifetime = 1
  MaxLogins = 2
  MaxNow = 5
  Names = {n1, n2}
  Folded <- LowerCase
  AdminName = n1
  ActivationDisabled = FALSE
  Registrations = {r1, r2}
  OwnUpdates = {o1}
  AdminUpdates = {q1}
  RecoverAdmin = boot
  MaxUsers = 2
  Sockets = {s1, s2, s3}
  SocketUser <- SocketUsers
  MaxMessages = 3
  Pictures = {m1, m2}
  Accounts = {u1, u2}
  Players = {u2}
  Covers = {c1}
  Collections = {g1}
  Lookups = {l1}
  MaxFilesLost = 1
  MaxMediaRestarts = 1
  Providers = {p1}
  Priority <- Priorities
  Entries = {e1}
  NoEntry = none
  NoUser = none
  Worker = worker
  Background = {b1}
  Requests = {r1}
  GameDeletions = {d1}
  Restorations = {q1}
  MaxJobs = 1
  MaxMappings = 2
  Builds = {b1, b2}
  NoBuild = none
  Forced = none
  Boot = boot
  UIRestarts = {x1, x2}
  MaxUICrashes = 2
  Restores = {r1}
  Backups = {b1}
  MaxFaults = 2
  Dialects = {"POSTGRESQL", "SQLITE"}
  Releases = {3, 20, 21, 27}
  OfferedVersions <- SampleVersions
  MaxListed = 3
  Transmissions = {t1, t2}
  FileVersions = {v1, v2}
  SizeOf <- VersionSizes
  PlaceOf <- VersionPlaces
  Largest = 3
  MaxStoreChanges = 2
  LoginRequests = 5
  MaxAttempts = 2
  Window = 2
  MaxTime = 4
INVARIANT ServicesTypeOK
INVARIANT AssembledIsOneFile
INVARIANT FailuresAreLimited
INVARIANT RetryAfterIsKept
INVARIANT NewestFirst
INVARIANT DefaultIgnoresRowOrder
INVARIANT SavesBounded
INVARIANT NoInventedMinutes
INVARIANT EndedSessionsStayShut
INVARIANT RightsAreGranted
INVARIANT NamesDifferInMoreThanCase
INVARIANT ActivityFollowsSocket
INVARIANT RowsHaveFiles
INVARIANT AccountsOutliveCollections
INVARIANT MergedFollowsSources
INVARIANT CachedBuildIsWhole
INVARIANT CopiedWhileClosed
INVARIANT RestoredOrPutBack
INVARIANT FreshInstallationsFit
INVARIANT FitsEntities
INVARIANT ReferencesExist
INVARIANT SchemaFollowsMigrations
PROPERTY CurrentRequestsAreSafe
 
INVARIANT KeepsLoggedIn
PROPERTY WorkingBuildIsKept
PROPERTY QueueDrains
CHECK_DEADLOCK FALSE
