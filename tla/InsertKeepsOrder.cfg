SPECIFICATION ItemsSpec
CONSTANTS
  Editors = {e1, e2}
  Null = Null
  MaxId = 9
  MaxInsert = 3
PROPERTIES
  InsertKeepsOrder
CHECK_DEADLOCK FALSE
