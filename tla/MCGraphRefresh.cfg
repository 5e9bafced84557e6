\* Files, directories and links that come, go and are renamed under a refreshed graph.
SPECIFICATION Spec
CONSTANTS
  good = good
  broken = broken
  Records = {good, broken}
  Alien = Alien
  Dir = Dir
  Link = Link
  Absent = Absent
  LinkTarget = good
  Names <- MCNames
  ItemNames = {"a.yml"}
  Excluded = {"bin"}
  Depth = 2
  InitialTrees <- MCInitialTrees
  MaxEdits = 3
INVARIANTS
  TypeOK
  RefreshKeepsUp
