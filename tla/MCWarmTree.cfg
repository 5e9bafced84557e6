\* The server against editors that change files at any moment, a watcher that
\* may lose events or fail to start, failing writes, and a kill.
SPECIFICATION FairSpec
CONSTANTS
  a = a
  b = b
  default = default
  strict = strict
  NoId = NoId
  Broken = Broken
  Alien = Alien
  Absent = Absent
  Files <- MCFiles
  Toml <- MCToml
  Ids <- MCIds
  Vals <- MCVals
  Configs <- MCConfigs
  DefaultConfig = default
  InitialTrees <- MCInitialTrees
  EditContents <- MCEditContents
  MaxEdits = 2
  MaxKills = 1
CONSTRAINT OneKillForAnEdit
INVARIANTS
  TypeOK
  StaleIsTracked
  AnswerIsCurrent
  RebuildReloadsConfig
PROPERTIES
  WritesReplaceWhatWasRead
\* The server may stay down: nobody has to launch it, and it refuses to start
\* over a treesmith.toml that does not parse.
CHECK_DEADLOCK FALSE
