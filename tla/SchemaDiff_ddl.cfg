SPECIFICATION Spec
CONSTANTS
  Tables = {"t", "u"}
  Columns = {"c", "d"}
  Types = {"int", "text"}
  Shapes <- MCShapes
  Configs <- MCConfigs
  Live = {"base", "new"}
  MaxDdl = 2
INVARIANTS TypeOK SchemaChangesPatchBase OtherTablesAreExact EveryTableOnce SummaryMatchesResults
CHECK_DEADLOCK FALSE
