CONSTANTS
  j1 = j1
  j2 = j2
  Tables <- MCTables
  Jobs = {j1, j2}
SPECIFICATION FairSpec
INVARIANTS TypeOK ImportIsWhole VerifyIsTrue
PROPERTIES NewerSurvives ToolsEnd
CHECK_DEADLOCK FALSE
