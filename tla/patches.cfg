SPECIFICATION Spec
CONSTANTS
  Absent = Absent
  DefWorlds <- MCDefWorlds
  PatchWorlds <- MCPatchWorlds
  Targets <- MCTargets
  Orders <- MCOrders
  Disablings <- MCDisablings
  ActiveMods <- MCActiveMods
INVARIANTS
  TraceFaithful
  ControlsConfined
  OriginKept
  RewritingKeeps
  OutcomesExplained
  InheritanceSound
PROPERTIES
  EachMatchAlone
