SPECIFICATION RSpec
CONSTANTS
  Keys = {k1, k2}
  Vals = {v1}
  NoRow = NoRow
  MaxTxDepth = 3
  Names <- MCNames
  Dialects = {"SQLITE", "POSTGRES"}
  Faults = {"step", "commit", "exec", "pg_step", "pg_exec"}
INVARIANTS
  SavepointStack
PROPERTIES
  FailureKeepsDatabase
  CommitsOnlyAtDepthZero
  UnwindEnds
