\* Moves and forges over a tree with references, with failing writes and kills.
SPECIFICATION Spec
CONSTANTS
  home = home
  about = about
  team = team
  data = data
  spare = spare
  Outside = Outside
  Broken = Broken
  Alien = Alien
  Ids <- MCIds
  Names <- MCNames
  Excluded = {}
  InitialTrees <- MCInitialTrees
  MaxRequests = 2
  MaxFailures = 2
INVARIANTS
  FaultedOrWhole
  NoItemLost
  PathsFollowParents
  ReferencesFollow
  GraphMirrorsDisk
\* Once the bounds are reached a faulted tree only re-opens.
CHECK_DEADLOCK FALSE
