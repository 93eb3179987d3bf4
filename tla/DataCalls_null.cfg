CONSTANTS
  NULL = NULL
  Unbound = Unbound
  NaN = NaN
  NoRow = NoRow
  Int32Bits = 2
  Dialects = {"SQLITE", "POSTGRES"}
  Schemas <- MCSchemas
  Inputs <- MCInputs
  Foreign <- MCForeign
  Conds <- MCConds
  IterConds <- MCIterConds
  Buffers <- MCBuffers
  Bytes <- MCBytes
  MaxRows = 2
  Faults = {"step", "memory"}
SPECIFICATION Spec
INVARIANTS NullMember
