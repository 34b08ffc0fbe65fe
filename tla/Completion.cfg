SPECIFICATION Spec
CONSTANTS
  Schemas <- MCSchemas
  Texts <- MCTexts
  Documents <- MCDocuments
  Depth <- MCDepth
  Subschemas <- MCSubschemas
  Usages = {3}
  MaxReasks = 2
  Parsed <- ParseJsonObject
  Admitted <- Valid
INVARIANTS
  TypeOK
  VerdictIsRight
  ReturnedUsageIsSpent
PROPERTIES
  AbortStopsTheCall
  CallEnds
CHECK_DEADLOCK FALSE
