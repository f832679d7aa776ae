SPECIFICATION ProcessSpec
CONSTANTS
  h1 = h1
  h2 = h2
  h3 = h3
  Asset = {h1, h2, h3}
  ActionId = {"a1"}
  Actor = {"op"}
  NoActor = NoActor
  NoDraft = NoDraft
  Drafts <- MCDrafts
  Launches <- MCLaunches
  Registrations <- MCRegistrations
  Providers = {"captured", "live"}
  Contents <- MCContents
  DefaultInterval <- MCInterval
  Cost <- MCCost
  Samples <- MCSamples
  None = None
  Broken = Broken
  Fail = Fail
  Nothing = Nothing
  HostId = "h1"
  NoHost = NoHost
  AllowedMethods = {"Shell", "Ansible"}
  Calls <- MCCalls
  NoPayload = NoPayload
  ExecTimeout = 2
  MaxOutput = 1
  PipeSize = 1
  MaxCalls = 2
INVARIANTS
  ApprovalRequired
  WithinThreshold
  Orderly
  NeverStarved
  Contained
PROPERTIES
  ImplementsStaged
  Refreshed
  CallReturns
CHECK_DEADLOCK FALSE
