SPECIFICATION SchemaSpec
CONSTANTS
  Dialects = {"POSTGRESQL", "SQLITE"}
  Releases = {3, 20, 21, 27}
INVARIANT UpgradeFinishes
CHECK_DEADLOCK FALSE
