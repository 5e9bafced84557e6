\* A directory whose name a file takes before the reports are taken up.
SPECIFICATION Spec
CONSTANTS
  good = good
  broken = broken
  Records = {good, broken}
  Alien = Alien
  Dir = Dir
  Link = Link
  Absent = Absent
  LinkTarget = good
  Names <- MCNames
  ItemNames = {"a.yml"}
  Excluded = {"bin"}
  Depth = 2
  InitialTrees <- MCInitialTrees
  MaxEdits = 3
INVARIANT DeletedEntriesAreDropped
