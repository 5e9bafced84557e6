\* Two requests against each document and template.
SPECIFICATION Spec
CONSTANTS
  FieldIds = {1, 2, 3, 4, 5}
  Languages = {1, 2}
  MaxVersion = 3
  Types = {"multilist", "reference", "layout", "link", "checkbox", "text"}
  TitleName = TitleName
  PictureName = PictureName
  RelatedName = RelatedName
  NavTitleName = NavTitleName
  SortorderName = SortorderName
  Nothing = Nothing
  Names = {TitleName, PictureName, RelatedName, NavTitleName, SortorderName, Nothing}
  Values <- MCValues
  Absent = Absent
  WellKnown <- MCWellKnown
  Schemas <- MCSchemas
  Documents <- MCDocuments
  Requests <- MCRequests
  English = 2
  NotGiven = NotGiven
  Serialized = {1}
  Policy = {1, 2}
  NoPolicy = NoPolicy
  Disabled = {"G1"}
  AllGates = AllGates
  MaxRequests = 2
INVARIANTS
  TypeOK
PROPERTIES
  WritesOneValue
  DefinitionsFollowWrites
  OneHunk
  SortedStaysSorted
  DefaultWritesLatest
  FirstBlobKept
  RepeatChangesNothing
  RemovalUndoesWrite
  WritesConform
CHECK_DEADLOCK FALSE
