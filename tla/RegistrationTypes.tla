------------------------- MODULE RegistrationTypes --------------------------
(***************************************************************************)
(* Every step of SqlRDBRegisterStruct, of the calls that use a registration *)
(* and of a restart keeps the types, and the tables only grow.             *)
(***************************************************************************)
EXTENDS RegistrationSteps

\* A step of handle h keeps the types.
LEMMA TypeFrom ==
  ASSUME RegType, TablesGrow, NEW h \in Handles,
         config' \in [Handles -> Configs],
         reg' \in [Handles -> Registries],
         \A k \in Handles : Len(reg'[k].entries) <= reg'[k].capacity,
         frame' \in [Handles -> Frames \cup {Idle}],
         \A k \in Handles \ {h} : frame'[k] = frame[k],
         frame'[h] # Idle => /\ frame'[h].next \in 1..(Len(frame'[h].req.cols) + 1)
                             /\ frame'[h].pc = "alter" => frame'[h].next <= Len(frame'[h].req.cols)
                             /\ frame'[h].pc # "create" => tables'[frame'[h].req.name] # NoTable,
         answered' \in [Handles -> SUBSET Requests],
         restarts' \in [Handles -> 0..MaxRestarts]
  PROVE  RegType'
<1>1. tables' \in [Idents -> Tables' \cup {NoTable}] /\ dialect' \in Dialects
  BY Zenon, SameDialect DEF TablesGrow, RegType
<1>2. ASSUME NEW k \in Handles, frame'[k] # Idle
      PROVE  /\ frame'[k].next \in 1..(Len(frame'[k].req.cols) + 1)
             /\ frame'[k].pc = "alter" => frame'[k].next <= Len(frame'[k].req.cols)
             /\ frame'[k].pc # "create" => tables'[frame'[k].req.name] # NoTable
  <2>1. CASE k = h
    BY Zenon, <1>2, <2>1
  <2>2. CASE k # h
    <3>1. frame'[k] = frame[k] /\ frame[k] \in Frames
      BY Zenon, <1>2, <2>2 DEF RegType
    <3>2. frame[k].req.name \in Idents
      BY Zenon, <3>1, RequestType
    <3>3. /\ frame[k].next \in 1..(Len(frame[k].req.cols) + 1)
          /\ frame[k].pc = "alter" => frame[k].next <= Len(frame[k].req.cols)
          /\ frame[k].pc # "create" => tables[frame[k].req.name] # NoTable
      BY Zenon, <1>2, <3>1 DEF RegType
    <3>4. frame[k].pc # "create" => tables'[frame[k].req.name] # NoTable
      BY Zenon, <3>2, <3>3 DEF TablesGrow
    <3>5. QED
      BY Zenon, <3>1, <3>3, <3>4
  <2>3. QED
    BY Zenon, <2>1, <2>2
<1>3. QED
  BY Zenon, <1>1, <1>2 DEF RegType

\* Every step keeps the types, and the tables only grow.
LEMMA TypeStep ==
  ASSUME RegType, PendingInv, PrefixInv, SnapshotInv, Next
  PROVE  RegType' /\ TablesGrow
<1>1. PICK h \in Handles : Register(h) \/ SqlRDBWrite(h) \/ SqlRDBReadMany(h)
                             \/ SqlRDBStmtFree(h) \/ Restart(h)
  BY Zenon DEF Next
<1>2. /\ config \in [Handles -> Configs] /\ reg \in [Handles -> Registries]
      /\ \A k \in Handles : Len(reg[k].entries) <= reg[k].capacity
      /\ frame \in [Handles -> Frames \cup {Idle}]
      /\ answered \in [Handles -> SUBSET Requests]
      /\ restarts \in [Handles -> 0..MaxRestarts]
  BY Zenon DEF RegType
<1>3. ASSUME frame[h] # Idle
      PROVE  /\ frame[h].next \in 1..(Len(frame[h].req.cols) + 1)
             /\ frame[h].pc = "alter" => frame[h].next <= Len(frame[h].req.cols)
             /\ frame[h].pc # "create" => tables[frame[h].req.name] # NoTable
  BY Zenon, <1>3 DEF RegType
<1>4. CASE GivesUp(h)
  <2>1. UNCHANGED <<dialect, tables, config, restarts>>
    BY Zenon, <1>4 DEF GivesUp
  <2>2. TablesGrow
    BY Zenon, <2>1, SameTablesGrow
  <2>3. /\ reg' \in [Handles -> Registries]
        /\ \A k \in Handles : Len(reg'[k].entries) <= reg'[k].capacity
        /\ \A k \in Handles \ {h} : frame'[k] = frame[k]
        /\ frame' \in [Handles -> Frames \cup {Idle}] /\ frame'[h] = Idle
        /\ answered' = answered
    BY Zenon, <1>4, GivesUpEffect
  <2>4. QED
    BY Zenon, <1>2, <2>1, <2>2, <2>3, TypeFrom
<1>5. CASE Completes(h)
  <2>1. UNCHANGED <<dialect, tables, config, restarts>>
    BY Zenon, <1>5 DEF Completes
  <2>2. TablesGrow
    BY Zenon, <2>1, SameTablesGrow
  <2>3. /\ reg' = reg
        /\ frame' \in [Handles -> Frames \cup {Idle}] /\ frame'[h] = Idle
        /\ \A k \in Handles \ {h} : frame'[k] = frame[k]
        /\ answered' \in [Handles -> SUBSET Requests]
    BY Zenon, <1>5, CompletesEffect
  <2>4. QED
    BY Zenon, <1>2, <2>1, <2>2, <2>3, TypeFrom
<1>6. ASSUME NEW pc, NEW d, NEW n, GoesOn(h, pc, d, n), TablesGrow,
             n \in 1..(Len(frame[h].req.cols) + 1), pc = "alter" => n <= Len(frame[h].req.cols),
             pc # "create" => tables'[frame[h].req.name] # NoTable
      PROVE  RegType'
  BY Zenon, <1>2, <1>6, TypeFrom DEF GoesOn
<1>7. CASE SqlRDBRegisterStruct(h)
  <2>1. CASE Refuses(h)
    <3>1. /\ UNCHANGED <<dialect, tables, config, frame, answered, restarts>> /\ frame[h] = Idle
          /\ reg' \in [Handles -> Registries]
          /\ \A k \in Handles : Len(reg'[k].entries) <= reg'[k].capacity
        BY Zenon, <2>1 DEF Refuses
    <3>2. TablesGrow
      BY Zenon, <3>1, SameTablesGrow
    <3>3. QED
      BY Zenon, <1>2, <3>1, <3>2, TypeFrom
  <2>2. ASSUME NEW q \in Requests, Begins(h, q)
        PROVE  RegType' /\ TablesGrow
    <3>1. /\ UNCHANGED <<dialect, tables, config, answered, restarts>>
          /\ reg' \in [Handles -> Registries]
          /\ \A k \in Handles : Len(reg'[k].entries) <= reg'[k].capacity
          /\ \A k \in Handles \ {h} : frame'[k] = frame[k]
          /\ frame' \in [Handles -> Frames \cup {Idle}]
          /\ frame'[h] \in Frames /\ frame'[h].pc = "create" /\ frame'[h].next = 1
      BY Zenon, <2>2 DEF Begins
    <3>2. TablesGrow
      BY Zenon, <3>1, SameTablesGrow
    <3>3. 1 \in 1..(Len(frame'[h].req.cols) + 1)
      BY <3>1, RequestType
    <3>4. QED
      BY Zenon, <1>2, <3>1, <3>2, <3>3, TypeFrom
  <2>3. QED
    BY Zenon, <1>7, <2>1, <2>2, RegisterStructEffect
<1>8. CASE CreateTable(h) /\ ~GivesUp(h)
  <2>1. /\ GoesOn(h, "info", frame[h].db_cols, frame[h].next)
        /\ \/ UNCHANGED tables /\ tables[frame[h].req.name] # NoTable
           \/ /\ tables[frame[h].req.name] = NoTable
              /\ tables' = [tables EXCEPT ![frame[h].req.name] = NewTable(frame[h].req.cols)]
    BY Zenon, <1>8, CreateEffect
  <2>2. frame[h] \in Frames /\ frame[h] # Idle /\ UNCHANGED dialect
    BY Zenon, <2>1, IdleOrFrame DEF GoesOn
  <2>3. TablesGrow /\ tables'[frame[h].req.name] # NoTable
    <3>1. CASE UNCHANGED tables /\ tables[frame[h].req.name] # NoTable
      BY Zenon, <2>2, <3>1, SameTablesGrow
    <3>2. CASE /\ tables[frame[h].req.name] = NoTable
               /\ tables' = [tables EXCEPT ![frame[h].req.name] = NewTable(frame[h].req.cols)]
      <4>1. frame[h].req \in Requests /\ frame[h].req.cols # << >> /\ DistinctNames(frame[h].req.cols)
        BY Zenon, <2>2, RequestType DEF PendingInv
      <4>2. QED
        BY Zenon, <2>2, <3>2, <4>1, CreateGrows
    <3>3. QED
      BY Zenon, <2>1, <3>1, <3>2
  <2>4. QED
    BY Zenon, <1>3, <1>6, <2>1, <2>2, <2>3
<1>9. CASE /\ ~GivesUp(h)
           /\ \/ ReadTableInfo(h) \/ ReadKeys(h) \/ ReadUniques(h)
              \/ ReadIndexList(h) \/ ReadIndexInfo(h)
  <2>1. PICK pc \in ColumnsRead : \E d :
          frame[h].pc # "create" /\ UNCHANGED tables /\ GoesOn(h, pc, d, frame[h].next)
    BY Zenon, <1>9, ReadEffect
  <2>2. PICK d : frame[h].pc # "create" /\ UNCHANGED tables /\ GoesOn(h, pc, d, frame[h].next)
    BY Zenon, <2>1
  <2>3. frame[h] # Idle /\ UNCHANGED dialect /\ pc # "alter"
    BY Zenon, <2>2, IdleOrFrame DEF GoesOn, ColumnsRead
  <2>4. TablesGrow
    BY Zenon, <2>2, <2>3, SameTablesGrow
  <2>5. QED
    BY Zenon, <1>3, <1>6, <2>2, <2>3, <2>4
<1>10. CASE Validate(h) /\ ~GivesUp(h) /\ ~Completes(h)
  <2>1. /\ frame[h].pc = "validate" /\ UNCHANGED tables
        /\ Len(frame[h].db_cols) < Len(frame[h].req.cols)
        /\ GoesOn(h, "alter", frame[h].db_cols, Len(frame[h].db_cols) + 1)
    BY Zenon, <1>10, ValidateEffect
  <2>2. frame[h] \in Frames /\ frame[h] # Idle /\ UNCHANGED dialect
    BY Zenon, <2>1, IdleOrFrame DEF GoesOn
  <2>3. TablesGrow
    BY Zenon, <2>1, <2>2, SameTablesGrow
  <2>4. Len(frame[h].db_cols) \in Nat /\ Len(frame[h].req.cols) \in Nat
    BY Zenon, <2>2, RequestType
  <2>5. QED
    BY <1>3, <1>6, <2>1, <2>2, <2>3, <2>4
<1>11. CASE Adds(h)
  <2> DEFINE f == frame[h]
             pc == IF f.next = Len(f.req.cols) THEN "info" ELSE "alter"
             d == Recorded(Declare(f.req.cols[f.next]))
  <2>1. /\ f.pc = "alter" /\ CanAdd(tables[f.req.name], d)
        /\ tables' = [tables EXCEPT ![f.req.name].cols = Append(@, d)]
        /\ GoesOn(h, pc, f.db_cols, f.next + 1)
    BY Zenon, <1>11 DEF Adds
  <2>2. f \in Frames /\ f # Idle /\ UNCHANGED dialect
    BY Zenon, <2>1, IdleOrFrame DEF GoesOn
  <2>3. /\ f.req.name \in Idents /\ f.req.cols \in Seq(ColumnDef) /\ Len(f.req.cols) \in Nat
        /\ f.next \in 1..Len(f.req.cols) /\ tables[f.req.name] # NoTable
    <3>1. /\ f.req.name \in Idents /\ f.req.cols \in Seq(ColumnDef) /\ Len(f.req.cols) \in Nat
          /\ f.next \in Nat
      BY Zenon, <2>2, RequestType
    <3>2. /\ f.next \in 1..(Len(f.req.cols) + 1)
          /\ f.pc = "alter" => f.next <= Len(f.req.cols)
          /\ f.pc # "create" => tables[f.req.name] # NoTable
      BY Zenon, <1>3, <2>2
    <3>3. f.pc = "alter"
      BY Zenon, <2>1
    <3>4. QED
      BY <3>1, <3>2, <3>3
  <2>4. d \in TableCols
    BY <2>3, DeclareType
  <2>5. TablesGrow
    BY Zenon, <2>1, <2>2, <2>3, <2>4, AddGrows
  <2>6. tables'[f.req.name] # NoTable
    BY Zenon, <2>3, <2>5 DEF TablesGrow
  <2>7. f.next + 1 \in 1..(Len(f.req.cols) + 1) /\ (pc = "alter" => f.next + 1 <= Len(f.req.cols))
    BY <2>3
  <2>8. QED
    BY Zenon, <1>6, <2>1, <2>5, <2>6, <2>7
<1>12. CASE SqlRDBWrite(h)
  <2>1. PICK i \in DOMAIN reg[h].entries :
          tables' = [tables EXCEPT ![reg[h].entries[i].name].rows = TRUE]
    BY Zenon, <1>12 DEF SqlRDBWrite
  <2>2. frame[h] = Idle /\ UNCHANGED <<dialect, config, reg, frame, answered, restarts>>
    BY Zenon, <1>12, IdleOrFrame DEF SqlRDBWrite, At
  <2>3. i \in 1..Settled(h) /\ reg[h].entries[i].name \in Idents
    BY Zenon, <2>2, SettledType
  <2>4. tables[reg[h].entries[i].name] # NoTable
    BY Zenon, <2>3 DEF PrefixInv, Prefix
  <2>5. TablesGrow
    BY Zenon, <2>1, <2>2, <2>3, <2>4, WriteGrows
  <2>6. QED
    BY Zenon, <1>2, <2>2, <2>5, TypeFrom
<1>13. CASE SqlRDBReadMany(h) \/ SqlRDBStmtFree(h)
  <2>1. /\ frame[h] = Idle
        /\ UNCHANGED <<dialect, tables, config, reg, frame, answered, restarts>>
    BY Zenon, <1>13, IdleOrFrame DEF SqlRDBReadMany, SqlRDBStmtFree
  <2>2. TablesGrow
    BY Zenon, <2>1, SameTablesGrow
  <2>3. QED
    BY Zenon, <1>2, <2>1, <2>2, TypeFrom
<1>14. CASE Restart(h)
  <2>1. UNCHANGED <<dialect, tables, config>>
    BY Zenon, <1>14 DEF Restart
  <2>2. TablesGrow
    BY Zenon, <2>1, SameTablesGrow
  <2>3. QED
    BY Zenon, <1>2, <1>14, <2>1, <2>2, RestartEffect, TypeFrom
<1>15. QED
  BY Zenon, <1>1, <1>4, <1>5, <1>7, <1>8, <1>9, <1>10, <1>11, <1>12, <1>13, <1>14,
     AlterEffect, RevalidateEffect DEF Register

=============================================================================
