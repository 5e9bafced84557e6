\* A clean verdict, and a position nobody looked at.
SPECIFICATION MCSpec
CONSTANTS
  A = A
  B = B
  C = C
  Unknown = Unknown
  f = f
  g = g
  SvA = SvA
  SvB = SvB
  Page = Page
  desktop = desktop
  print = print
  u1 = u1
  u2 = u2
  u3 = u3
  x = x
  y = y
  z = z
  None = None
  NoUid = NoUid
  Missing = Missing
  Blank = Blank
  Garbled = Garbled
  NoLayout = NoLayout
  Malformed = Malformed
  NoVersion = NoVersion
  Latest = Latest
  Guids <- MCGuids
  Fields = {f, g}
  Holders = {SvA, SvB}
  Indexes <- AllIndexes
  Devices = {desktop, print}
  Uids = {u1, u2, u3}
  Values = {x, y, z}
  Reading <- MCReading
  ItemIds = {x}
  ItemPaths = {}
  BelowPage = {x}
  Leaf <- MCLeaf
  Exposed = {x}
  Pages <- AllPages
  MaxVersion = 2
INVARIANT PositionsAreLookedAt
CHECK_DEADLOCK FALSE
