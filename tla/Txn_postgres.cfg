SPECIFICATION Spec
CONSTANTS
  Keys = {k1, k2}
  Vals = {v1}
  NoRow = NoRow
  MaxTxDepth = 3
  Names <- MCNames
  Dialects = {"POSTGRES"}
  Faults = {"pg_step"}
PROPERTIES
  CommitKeeps
