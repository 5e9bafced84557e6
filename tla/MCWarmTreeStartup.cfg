\* An edit in the window between the first scan and the start of the watcher.
SPECIFICATION Spec
CONSTANTS
  a = a
  b = b
  default = default
  strict = strict
  NoId = NoId
  Broken = Broken
  Alien = Alien
  Absent = Absent
  Files <- SmallFiles
  Toml <- MCToml
  Ids <- MCIds
  Vals <- MCVals
  Configs <- MCConfigs
  DefaultConfig = default
  InitialTrees <- SmallTrees
  EditContents <- MCEditContents
  MaxEdits = 1
  MaxKills = 0
INVARIANT ResultsReflectTheTree
\* The server may stay down: nobody has to launch it, and it refuses to start
\* over a treesmith.toml that does not parse.
CHECK_DEADLOCK FALSE
