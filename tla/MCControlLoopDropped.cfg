SPECIFICATION LoopSpec
CONSTANTS
  h1 = h1
  h2 = h2
  Asset = {h1, h2}
  ActionId = {"a1", "a2"}
  Actor = {"op", "ap", "re", "ad", "nobody"}
  NoActor = NoActor
  NoDraft = NoDraft
  NoWindow = NoWindow
  NoTime = NoTime
  Drafts <- MCDrafts
  RoleOf <- MCRoles
  Commands <- RetryCommands
  MaxSeq = 7
  MaxHeld = 1
  MaxTime = 2
PROPERTIES
  DroppedAppliedNothing
