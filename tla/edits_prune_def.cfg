SPECIFICATION Spec
CHECK_DEADLOCK FALSE
CONSTANTS
  Space = " "
  Names <- MCNames
  Reads <- MCReads
  MaxDepth = 2
  Alphabet <- MCAlphabet
  BadNames = {"bad name"}
  Placeholders <- MCPlaceholders
  CloseTag = "</Defs>"
  Swallowed = "new def"
  Types <- MCTypes
  Objects <- MCObjects
  Shipped <- MCTypes
  Paths <- MCPaths
  Open = "Open.xml"
  Place <- MCPlace
  Buffers <- MCBuffers
  Stored <- MCStored
  Contents <- MCContents
  Edits <- MCEdits
  Batches <- MCBatches
  ListNames <- MCListNames
  Context <- MCContext
  Commands <- MCCommands
  MaxSteps = 2
INVARIANT PruneKeepsDefs
