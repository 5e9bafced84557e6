\* A subtree with two siblings of one name is moved, or one to a name no scan
\* enters: two ways to lose an item.
SPECIFICATION Spec
CONSTANTS
  home = home
  about = about
  team = team
  data = data
  spare = spare
  Outside = Outside
  Broken = Broken
  Alien = Alien
  Ids <- MCIds
  Names <- LossyNames
  Excluded = {"bin"}
  InitialTrees <- TwinTrees
  MaxRequests = 1
  MaxFailures = 0
INVARIANT NoItemLost
CHECK_DEADLOCK FALSE
