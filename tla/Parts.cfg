SPECIFICATION Spec
CONSTANTS
  NULL = NULL
  MaxActivities = 2
  MaxBinds = 3
  MaxServices = 2
  Names <- SmallNames
  CHAIN_INDEX_BUCKET_LEN = 2
  CHAIN_INDEX_INSERT_MAX = 1
  Ports <- SmallPorts
  MaxScripts = 2
  MaxScriptFailures = 1
  MaxEdits = 2
  MaxPackets = 1
  Apps = {1, 2}
  MaxScreens = 2
  MaxReads = 2
  MaxChanges = 1
  MaxReadFailures = 1
  Size <- SmallSize
  MaxInstallFailures = 2
  MaxRestarts = 1
  Scripts <- SmallScripts
  MaxPipe = 2
  MaxSelectors = 4
  MaxRestores = 2
  Digits = {0, 5, 9}
  MaxPaste = 2
  Lengths <- SmallLengths
CHECK_DEADLOCK FALSE
INVARIANTS
  TypeOK
  RegistrationsAgree
  IndexFindsChains
  ScriptsWork
  
  
  InstallCorrect
  HeldWithinLine
  SelectorsAgree
  
  DumpFits
PROPERTIES
  ListsShown
  ScriptAwaited
