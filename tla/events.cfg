SPECIFICATION Spec
CONSTANTS
  Locations <- MCLocations
  FileOrder <- MCFileOrder
  Dirs <- MCDirs
  Folders <- MCFolders
  BlockChoices <- MCBlockChoices
  BlockVersion <- MCVersions
  DirVersion <- MCVersions
  InitialDisks <- MCInitialDisks
  Document <- MCDocument
  GameVersion = "1.6"
  Contents = {"text1", "text2"}
  Absent = Absent
  Unreadable = Unreadable
  NoName = NoName
  MaxEdits = 2
  MaxGeneration = 1
INVARIANTS IndexedAsOnDisk NoStaleText IndexReadable
CHECK_DEADLOCK FALSE
