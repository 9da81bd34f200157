SPECIFICATION Spec
CONSTANTS
  Processes = {p1}
  Canonical <- MCCanonical
  Names = {"a", " a", "b", " "}
  Trim <- MCTrim
  Blank = Blank
  Targets = {"t1", "t2"}
  Project <- MCProject
  Ids <- MCIds
  GameVersions = {"1.5", "1.6"}
  InstalledVersions = {"1.5"}
  Locales = {"en"}
  FallbackLocale = "en"
  InitialSettings <- MCInitialSettings
  InitialViews <- MCInitialViews
  ForeignViews <- MCForeignViews
  Absent = Absent
  Garbage = Garbage
  Partial = Partial
  None = None
  Keep = Keep
  MaxCommands = 3
  MaxFaults = 1
INVARIANTS StoresSound LocationsConsistent IndexKnowsSettings
PROPERTIES ViewsKept
CHECK_DEADLOCK FALSE
