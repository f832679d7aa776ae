SPECIFICATION CollectionSpec
CONSTANTS
  Monitor = {"procmon", "netmon", "filemon", "aiusage", "libload"}
  BusCap = 2
  MaxTracked = 1
  None = None
  Pid = {1, 2}
  Program <- MCProgram
  Destination <- MCDestination
  Opening <- MCOpening
  Time <- MCTime
  RingCap = 2
  WriteSeenMax = 1
  MaxOps <- MCMaxOps
  Object = {1, 2, 3}
  CacheCap = 1
  LineSize <- MCLineSize
  RotateBytes = 4
  MaxRolls = 3
  MaxFaults = 2
  MaxCrashes = 2
  NoFile = NoFile
  Absent = Absent
  Os = {"linux", "windows", "macos"}
  Pids = {1, 2}
  Names = {"ollama", "sshd"}
  Ports = {11434}
  RuntimeOf <- MCRuntimeOf
  PortRuntime <- MCPortRuntime
  Libs <- MCLibs
  Roots <- MCRoots
  Tree <- MCTree
  Kind <- MCKind
  MaxDepth = 1
  MaxFiles = 3
  Width = 4
  MaxHosts = 4
  Sample = 2
  Lines <- MCLines
  Weights <- MCWeights
  MaxChurn = 2
INVARIANTS
  ExecMatched
  EventsReported
  CacheSound
  FileKept
  ReadersExact
  SnapshotTrue
CHECK_DEADLOCK FALSE
