SPECIFICATION ExecSpec
CONSTANTS
  QDocs = {d1}
  Tags = {g1}
  Gone = Gone
  Missing = Missing
  MaxStatements = 1
INVARIANT
  SelectFindsWhatDeleteDeletes
CHECK_DEADLOCK FALSE
