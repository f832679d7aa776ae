SPECIFICATION LoopSpec
CONSTANTS
  h1 = h1
  h2 = h2
  Asset = {h1, h2}
  ActionId = {"a1", "a2"}
  Actor = {"op", "ap", "re", "ad", "nobody"}
  NoActor = NoActor
  NoDraft = NoDraft
  NoWindow = NoWindow
  NoTime = NoTime
  Drafts <- MCDrafts
  RoleOf <- MCRoles
  Commands <- MCCommands
  MaxSeq = 6
  MaxHeld = 2
  MaxTime = 2
INVARIANTS
  LoopTypeOK
  SeparationOfDuties
  LedgerExact
PROPERTIES
  OneEffect
  KillSwitch
  RejectedChangesNothing
  Timely
