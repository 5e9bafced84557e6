\* A session over a tree that editors change, with a watcher that may lose
\* events or fail to start, failing writes, a kill and lines of every kind.
SPECIFICATION FairSessionSpec
CONSTANTS
  a = a
  b = b
  default = default
  strict = strict
  NoId = NoId
  Broken = Broken
  Alien = Alien
  Absent = Absent
  Files <- MCFiles
  Toml <- MCToml
  Ids <- MCIds
  Vals <- MCVals
  Configs <- MCConfigs
  DefaultConfig = default
  InitialTrees <- MCTrees
  EditContents <- MCEditContents
  MaxEdits = 1
  MaxKills = 1
  RequestIds = {1, 2}
  NoRequest = 0
  Inputs <- MCInputs
  PipeSize = 1
INVARIANTS
  AnswersMatchRequests
  ReadsOwnWrites
PROPERTIES
  RequestsAnswered
  StaleIsRepaired
\* The server may stay down: nobody has to launch it, and it refuses to start
\* over a treesmith.toml that does not parse.
CHECK_DEADLOCK FALSE
