SPECIFICATION DiffSpec
CONSTANTS
  Nothing = Nothing
  Docs <- MCDocs
INVARIANTS
  FieldsTold
  PartsTold
  NothingInvented
CHECK_DEADLOCK FALSE
