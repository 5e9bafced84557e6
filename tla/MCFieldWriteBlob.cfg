\* A blob in a slot that is not the first with its field.
SPECIFICATION Spec
CONSTANTS
  FieldIds = {1, 2, 3, 4, 5}
  Languages = {1, 2}
  MaxVersion = 3
  Types = {"multilist", "reference", "layout", "link", "checkbox", "text"}
  TitleName = TitleName
  PictureName = PictureName
  RelatedName = RelatedName
  NavTitleName = NavTitleName
  SortorderName = SortorderName
  Nothing = Nothing
  Names = {TitleName, PictureName, RelatedName, NavTitleName, SortorderName, Nothing}
  Values <- MCValues
  Absent = Absent
  WellKnown <- MCWellKnown
  Schemas <- MCSchemas
  Documents <- MCDocuments
  Requests <- MCRequests
  English = 2
  NotGiven = NotGiven
  Serialized = {1}
  Policy = {1, 2}
  NoPolicy = NoPolicy
  Disabled = {"G1"}
  AllGates = AllGates
  MaxRequests = 2
PROPERTY
  BlobsAreNotWritten
CHECK_DEADLOCK FALSE
