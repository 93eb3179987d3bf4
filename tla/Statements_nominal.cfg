SPECIFICATION Spec
CONSTANTS
  q1 = q1
  q2 = q2
  q3 = q3
  q4 = q4
  Sqls <- MCSqls
  Hash <- MCHash
  Stmts = {s1, s2, s3, s4}
  Nodes = {n1, n2, n3}
  Null = Null
  NoCall = NoCall
  MinBuckets = 2
  MaxCapacity = 3
  DefaultCapacity = 3
INVARIANTS
  TypeOK
  ListAndTable
  OwnedOnce
  RightStatement
PROPERTIES
  LruUnlessResizeFails
SYMMETRY StmtSymmetry
