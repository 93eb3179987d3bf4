----------------------------- MODULE DataCalls ------------------------------
(***************************************************************************)
(* The calls that move rows, on one handle and one registered struct, from *)
(* the struct and the condition the client passes to the rows of the table *)
(* and back into the client's buffers: SqlRDBWrite, Delete, Count, Read,   *)
(* ReadMany / StmtNext / StmtFree, WriteBlobField and ReadBlobField, over  *)
(* either driver.  Each holds the handle mutex throughout and is one       *)
(* action, except that WriteBlobField sends two statements and another     *)
(* program may write between them.  Transactions are in Txn, the statement *)
(* cache in Statements.                                                    *)
(*                                                                         *)
(* A row lives in a slot of the table; which matching row a SELECT returns *)
(* first is open.  The client picks fresh or used buffers for every call   *)
(* and looks at the answer (ret) before the next one.                      *)
(*                                                                         *)
(* Faults: "step"    the engine fails a statement, nothing changes;        *)
(*         "memory"  an allocation fails: the call ends, except ...        *)
(*         "nullmap" ... for SqlRDBRead's copy of the bitmap;              *)
(*         "nodes"   ... for a condition node, where the client goes on    *)
(*                   with the NULL that the constructor answered.          *)
(***************************************************************************)
EXTENDS TypeMapping

CONSTANTS
  Dialects,        \* the drivers: "SQLITE", "POSTGRES"
  Schemas,         \* the registered schemas
  Inputs(_, _),    \* what a client of a schema writes: [row, map]; this and the
                   \* next bounds are chosen apart for the time an iterator is open
  Foreign(_, _),   \* rows another program writes into the table
  Conds(_, _),     \* conditions of the one-shot calls
  IterConds(_),    \* conditions of ReadMany
  Buffers(_, _),   \* output buffers: [row, map]
  Bytes,           \* what WriteBlobField writes
  MaxRows,         \* slots of the table
  NoRow,           \* an empty slot
  Faults

ASSUME DataAssumption ==
  /\ Dialects \subseteq {"SQLITE", "POSTGRES"}
  /\ MaxRows \in Nat
  /\ Faults \subseteq {"step", "memory", "nullmap", "nodes"}

VARIABLES
  dialect,   \* h->driver->dialect
  schema,    \* the registered schema
  table,     \* the stored rows, by slot
  said,      \* what the clients that wrote the rows said, by slot
  iter,      \* the iterator
  ret        \* the last answer the client has not looked at yet, or the
             \* WriteBlobField that is still to send its UPDATE

vars == <<dialect, schema, table, said, iter, ret>>

NOT_FOUND     == "ERR_NOT_FOUND"
MULTIPLE_ROWS == "ERR_MULTIPLE_ROWS"

Slots == 1..MaxRows
Used  == {s \in Slots : table[s] # NoRow}
Free  == Slots \ Used

Quiet  == [call |-> "none"]
Closed == [state |-> "closed"]

Init ==
  /\ dialect \in Dialects
  /\ schema \in Schemas
  /\ table = [s \in Slots |-> NoRow]
  /\ said = table
  /\ iter = Closed
  /\ ret = Quiet

-----------------------------------------------------------------------------
(* From a condition to the rows it selects *)

\* A stored row by column name.
Named(values) ==
  [c \in {schema.cols[i].name : i \in DOMAIN schema.cols} |->
     values[CHOOSE i \in DOMAIN schema.cols : schema.cols[i].name = c]]

Spec0(op, cond, target) ==
  [op |-> op, schema |-> schema, cond |-> cond, target_col |-> target, dialect |-> dialect]

\* The statement after the binds, unless a number is out of its range.
Params(sql, binds) ==
  LET idx == {binds[j].idx : j \in DOMAIN binds}
  IN  [i \in 1..NumParams(dialect, sql) |->
         IF i \in idx THEN binds[Max({j \in DOMAIN binds : binds[j].idx = i})].v
                      ELSE Unbound]

Stepped(r, sql, params) == [r |-> r, sql |-> sql, params |-> params]

\* qb_build, prepare, the binds and the first step of one statement.  SQLite
\* refuses a text at prepare, PostgreSQL when it is first executed.
Execute(q, binds) ==
  CASE q.r # OK -> Stepped(q.r, NULL, << >>)
    [] q.r = OK /\ \E j \in DOMAIN binds : binds[j].idx > NumParams(dialect, q.sql) ->
         Stepped(IF dialect = "SQLITE" THEN DRIVER ELSE INVALID_ARG, NULL, << >>)
    [] q.r = OK /\ ~Accepted(q.sql) -> Stepped(DRIVER, NULL, << >>)
    [] OTHER -> Stepped(OK, q.sql, Params(q.sql, binds))

Selected(x, rows) ==
  {s \in Slots : rows[s] # NoRow /\ (x.sql.where = << >> \/ Holds(Numbered(x.sql), x.params, Named(rows[s])))}

\* The reference: the rows the client means.
Meant(cond, rows) == {s \in Slots : rows[s] # NoRow /\ (cond = NULL \/ Means(cond, Named(rows[s])))}

\* What the client passes when it means cond: NULL after a failed constructor.
Passed(cond) == {cond} \cup (IF "nodes" \in Faults THEN {NULL} ELSE {})

Fails == (IF "step" \in Faults THEN {DRIVER} ELSE {}) \cup (IF "memory" \in Faults THEN {NO_MEMORY} ELSE {})

-----------------------------------------------------------------------------
(* Answers *)

NoBuffer == [row |-> NULL, map |-> NULL]

\* before and after: the client's buffers; asked: the rows it means; got: the rows
\* the call acted on; owed: what the writers of the delivered row said.
Answer(call, r, asked, got, before, after, owed) ==
  ret' = [call |-> call, r |-> r, asked |-> asked, got |-> got,
          before |-> before, after |-> after, owed |-> owed]

Refuse(call, r, asked, buf) == Answer(call, r, asked, {}, buf, buf, NULL)

\* WriteBlobField has counted one row.
Counted == ret # Quiet /\ ret.call = "counted"

\* The client looks at the answer.
Look ==
  /\ ret # Quiet /\ ~Counted
  /\ ret' = Quiet
  /\ UNCHANGED <<dialect, schema, table, said, iter>>

\* Rows written since a sweep began.
Touch(S) == IF iter.state \in {"closed", "open"} THEN iter ELSE [iter EXCEPT !.fresh = @ \cup S]

-----------------------------------------------------------------------------
(* SqlRDBWrite *)

\* What a client says with a struct: a TEXT member ends before its first NUL.
Content(col, member) ==
  IF col.type # "TEXT" THEN member
  ELSE SubSeq(member, 1, CHOOSE n \in 0..col.size :
                           /\ \A j \in 1..n : member[j] # 0
                           /\ n = col.size \/ member[n + 1] = 0)

Contents(in) ==
  [i \in DOMAIN schema.cols |->
     IF null_bit_get(in.map, i) THEN NULL ELSE Content(schema.cols[i], in.row[i])]

\* The slots of rows that hold the key of values.
SameKey(rows, values) ==
  {s \in Slots : /\ schema.pk_index # 0 /\ rows[s] # NoRow
                 /\ rows[s][schema.pk_index] = values[schema.pk_index]}

\* values put where the key is, or in the first free slot.
Put(rows, values) ==
  LET at == IF SameKey(rows, values) # {} THEN SameKey(rows, values)
            ELSE {Min({s \in Slots : rows[s] = NoRow})}
  IN  [s \in Slots |-> IF s \in at THEN values ELSE rows[s]]

\* The row INSERT makes of its columns and parameters.
Inserted(x) ==
  LET at(i)  == CHOOSE j \in DOMAIN x.sql.cols : x.sql.cols[j] = schema.cols[i].name
      num(j) == IF x.sql.vals[j] = Placeholder(0) THEN j ELSE x.sql.vals[j][2]
  IN  [i \in DOMAIN schema.cols |-> x.params[num(at(i))]]

\* The columns of ON CONFLICT ... DO UPDATE SET, laid over the row that is there.
Updated(x, old, new) ==
  [i \in DOMAIN new |->
     IF \E j \in DOMAIN x.sql.set : x.sql.set[j] = schema.cols[i].name THEN new[i] ELSE old[i]]

\* NOT NULL holds for every column that was not registered as nullable.
Constrained(new) == \A i \in DOMAIN new : new[i] # NULL \/ schema.cols[i].nullable

WriteResult(x, b) ==
  CASE dialect = "SQLITE" /\ x.r = DRIVER -> DRIVER
    [] ~(dialect = "SQLITE" /\ x.r = DRIVER) /\ b.r # OK -> b.r
    [] OTHER -> IF x.r = OK /\ ~Constrained(Inserted(x)) THEN DRIVER ELSE x.r

SqlRDBWrite(in) ==
  LET op   == IF schema.pk_index # 0 THEN "UPSERT" ELSE "INSERT"
      b    == tm_bind_row(dialect, schema, in.row, in.map)
      x    == Execute(qb_build(Spec0(op, NULL, NULL)), b.binds)
      r    == WriteResult(x, b)
      new  == Inserted(x)
      here == SameKey(table, new)
  IN  /\ UNCHANGED <<dialect, schema>>
      /\ \/ /\ \E e \in IF r # OK THEN {r} ELSE Fails : Refuse("Write", e, {}, NoBuffer)
            /\ UNCHANGED <<table, said, iter>>
         \/ /\ r = OK /\ (here # {} \/ Free # {})
            /\ table' = Put(table, IF here = {} THEN new
                                   ELSE Updated(x, table[CHOOSE s \in here : TRUE], new))
            /\ said' = Put(said, Contents(in))
            /\ iter' = Touch({s \in Slots : table'[s] # table[s]})
            /\ Answer("Write", OK, {}, {}, NoBuffer, NoBuffer, NULL)

\* Another program, with another idea of the columns, writes to the table or
\* deletes a row of it.
Disturb == ret' = IF Counted THEN [ret EXCEPT !.alone = FALSE] ELSE ret

OtherWrites(values) ==
  /\ SameKey(table, values) # {} \/ Free # {}
  /\ table' = Put(table, values)
  /\ said' = Put(said, values)
  /\ iter' = Touch({s \in Slots : table'[s] # table[s]})
  /\ Disturb
  /\ UNCHANGED <<dialect, schema>>

OtherDeletes(s) ==
  /\ s \in Used
  /\ table' = [table EXCEPT ![s] = NoRow]
  /\ said' = [said EXCEPT ![s] = NoRow]
  /\ iter' = Touch({s})
  /\ Disturb
  /\ UNCHANGED <<dialect, schema>>

-----------------------------------------------------------------------------
(* SqlRDBDelete and SqlRDBCount *)

\* driver->changes after a statement that changed the rows hit.
changes(hit) == Cardinality(hit)

\* An out parameter that holds a number.
Number(n) == [row |-> n, map |-> NULL]

SqlRDBDelete(cond) ==
  /\ UNCHANGED <<dialect, schema>>
  /\ \E c \in Passed(cond) :
     LET x     == Execute(qb_build(Spec0("DELETE", c, NULL)), bind_cond_values(c, 1))
         r     == IF c = NULL THEN INVALID_ARG ELSE x.r
         asked == Meant(cond, table)
         gone  == Selected(x, table)
     IN  \/ /\ \E e \in IF r # OK THEN {r} ELSE Fails : Refuse("Delete", e, asked, NoBuffer)
            /\ UNCHANGED <<table, said, iter>>
         \/ /\ r = OK
            /\ table' = [s \in Slots |-> IF s \in gone THEN NoRow ELSE table[s]]
            /\ said' = [s \in Slots |-> IF s \in Meant(cond, said) THEN NoRow ELSE said[s]]
            /\ iter' = Touch(gone)
            /\ Answer("Delete", OK, asked, gone, NoBuffer, Number(changes(gone)), NULL)

\* A NULL condition counts every row.
SqlRDBCount(cond) ==
  /\ UNCHANGED <<dialect, schema, table, said, iter>>
  /\ \E c \in Passed(cond) :
     LET x     == Execute(qb_build(Spec0("COUNT", c, NULL)), bind_cond_values(c, 1))
         asked == Meant(cond, table)
     IN  \/ \E e \in IF x.r # OK THEN {x.r} ELSE Fails : Refuse("Count", e, asked, NoBuffer)
         \/ /\ x.r = OK
            /\ Answer("Count", OK, asked, Selected(x, table), NoBuffer,
                      Number(Cardinality(Selected(x, table))), NULL)

-----------------------------------------------------------------------------
(* SqlRDBRead *)

Zero(col) == IF col.type \in {"TEXT", "BLOB"} THEN [i \in 1..col.size |-> 0] ELSE 0

Zeroed == [i \in DOMAIN schema.cols |-> Zero(schema.cols[i])]

\* The BLOB columns of a row for which libpq may have no memory; 0 is none.
BlobFailures(values) ==
  {0} \cup {i \in DOMAIN schema.cols : /\ dialect = "POSTGRES" /\ "memory" \in Faults
                                       /\ schema.cols[i].type = "BLOB" /\ values[i] # NULL}

\* The zeroed copy of the bitmap, when the caller passed one.
TmpNull(map) ==
  IF map = NULL THEN {NULL} ELSE {{}} \cup (IF "nullmap" \in Faults THEN {NULL} ELSE {})

\* allow_multi: the first row goes straight into the caller's buffers.
ReadFirst(sel, asked, buf) ==
  \E s \in sel : \E fail \in BlobFailures(table[s]) :
     LET o == tm_read_row(schema, table[s], fail, buf.row, buf.map)
     IN  Answer("ReadFirst", o.r, asked, {s}, buf, [row |-> o.row, map |-> o.map], said[s])

\* Faulty variant: the copy is handed over before the second step.
ReadOnly_CopiesFirst(sel, asked, buf) ==
  \E s \in sel :
     LET o     == tm_read_row(schema, table[s], 0, Zeroed, IF buf.map = NULL THEN NULL ELSE {})
         after == [row |-> o.row, map |-> IF buf.map = NULL THEN NULL ELSE null_bit_set(buf.map, o.map)]
     IN  IF Cardinality(sel) > 1
         THEN Answer("Read", MULTIPLE_ROWS, asked, {}, buf, after, NULL)
         ELSE Answer("Read", o.r, asked, {s}, buf, after, said[s])

\* Otherwise the row goes into a zeroed copy, and the copy over the caller's
\* struct once there is no second row; the bitmaps are joined.
ReadOnly(sel, asked, buf) ==
  \E s \in sel : \E fail \in BlobFailures(table[s]), tmp_null \in TmpNull(buf.map) :
     LET o   == tm_read_row(schema, table[s], fail, Zeroed, tmp_null)
         map == IF tmp_null = NULL THEN buf.map ELSE null_bit_set(buf.map, o.map)
     IN  CASE o.r = NO_MEMORY -> Refuse("Read", NO_MEMORY, asked, buf)
           [] o.r # NO_MEMORY /\ Cardinality(sel) > 1 -> Refuse("Read", MULTIPLE_ROWS, asked, buf)
           [] OTHER -> Answer("Read", o.r, asked, {s}, buf, [row |-> o.row, map |-> map], said[s])

\* The flag and the buffers play no part before the first step.
SqlRDBRead(cond, Bufs) ==
  /\ UNCHANGED <<dialect, schema, table, said, iter>>
  /\ \E c \in Passed(cond) :
     LET x     == Execute(qb_build(Spec0("SELECT", c, NULL)), bind_cond_values(c, 1))
         asked == Meant(cond, table)
         sel   == Selected(x, table)
     IN  \E buf \in Bufs :
           \/ \E e \in IF x.r # OK THEN {x.r} ELSE Fails : Refuse("Read", e, asked, buf)
           \/ x.r = OK /\ sel = {} /\ Refuse("Read", NOT_FOUND, asked, buf)
           \/ x.r = OK /\ \E allow_multi \in BOOLEAN :
                \/ allow_multi /\ ReadFirst(sel, asked, buf)
                \/ ~allow_multi /\ ReadOnly(sel, asked, buf)

-----------------------------------------------------------------------------
(* SqlRDBReadMany, SqlRDBStmtNext, SqlRDBStmtFree *)

IterStatement(c) == Execute(qb_build(Spec0("SELECT", c, NULL)), bind_cond_values(c, 1))

\* PostgreSQL's prepare keeps the text to itself, so a bad one is still accepted.
SqlRDBReadMany(cond) ==
  /\ iter = Closed
  /\ UNCHANGED <<dialect, schema, table, said>>
  /\ \E c \in Passed(cond) :
     LET r == IF dialect = "POSTGRES" /\ IterStatement(c).r = DRIVER THEN OK ELSE IterStatement(c).r
     IN  \/ /\ \E e \in IF r # OK THEN {r} ELSE Fails \ {DRIVER} :
                  Refuse("ReadMany", e, {}, NoBuffer)
            /\ UNCHANGED iter
         \/ /\ r = OK
            /\ iter' = [state |-> "open", cond |-> cond, passed |-> c, seen |-> {}, fresh |-> {},
                        rows |-> NULL, owed |-> NULL]
            /\ Answer("ReadMany", OK, {}, {}, NoBuffer, NoBuffer, NULL)

Step(it, slot, values, owed) == [it |-> it, slot |-> slot, values |-> values, owed |-> owed]
End(it) == Step([it EXCEPT !.state = "ended", !.rows = NULL, !.owed = NULL], 0, NULL, NULL)

\* A sweep reads the table as it is; a row changed meanwhile may turn up again
\* or not at all.  A step after the last one starts over.
sqlite_step(x) ==
  LET it  == IF iter.state = "running" THEN iter
             ELSE [iter EXCEPT !.state = "running", !.seen = {}, !.fresh = {}]
      sel == Selected(x, table)
  IN  { Step([it EXCEPT !.seen = @ \cup {s}], s, table[s], said[s]) : s \in sel \ (it.seen \ it.fresh) }
      \cup (IF sel \subseteq it.seen \cup it.fresh
            THEN {End(it)} ELSE {})

\* PQexecParams fetches the whole result at the first step.
Fetched(x) ==
  IF iter.state # "open" THEN iter
  ELSE [iter EXCEPT !.state = "running", !.fresh = {}, !.owed = said,
                    !.rows = [s \in Slots |-> IF s \in Selected(x, table) THEN table[s] ELSE NoRow]]

Left(it) == IF it.rows = NULL THEN {} ELSE {s \in Slots : it.rows[s] # NoRow} \ it.seen

\* Faulty variant: the row counter moves on at the first execution as well.
pg_step_SkipsFirst(x) ==
  LET it   == Fetched(x)
      left == IF iter.state = "open" /\ Left(it) # {} THEN Left(it) \ {Min(Left(it))} ELSE Left(it)
  IN  { Step([it EXCEPT !.seen = @ \cup {s}], s, it.rows[s], it.owed[s]) : s \in left }
      \cup (IF left = {} THEN {End(it)} ELSE {})

\* Every step moves one row on, and past the end there is nothing more.
pg_step(x) ==
  LET it == Fetched(x)
  IN  { Step([it EXCEPT !.seen = @ \cup {s}], s, it.rows[s], it.owed[s]) : s \in Left(it) }
      \cup (IF Left(it) = {} THEN {End(it)} ELSE {})

SqlRDBStmtNext(buf) ==
  /\ iter # Closed
  /\ UNCHANGED <<dialect, schema, table, said>>
  /\ LET x == IterStatement(iter.passed)
     IN  \/ \* a failed sqlite3_step starts over, PQexecParams fails only as a whole
            /\ dialect = "SQLITE" \/ iter.state = "open"
            /\ \E e \in IF x.r # OK THEN {x.r} ELSE Fails \ {NO_MEMORY} :
                  Refuse("StmtNext", e, {}, buf)
            /\ iter' = [iter EXCEPT !.state = "open", !.seen = {}]
         \/ /\ x.r = OK
            /\ \E st \in IF dialect = "SQLITE" THEN sqlite_step(x) ELSE pg_step(x) :
                  /\ iter' = st.it
                  /\ \/ /\ st.slot = 0
                        /\ Answer("StmtNext", NOT_FOUND, Meant(iter.cond, table), st.it.seen, buf, buf, NULL)
                     \/ /\ st.slot # 0
                        /\ \E fail \in BlobFailures(st.values) :
                           LET o == tm_read_row(schema, st.values, fail, buf.row, buf.map)
                           IN  Answer("StmtNext", o.r, {}, {st.slot}, buf,
                                      [row |-> o.row, map |-> o.map], st.owed)

SqlRDBStmtFree ==
  /\ iter # Closed
  /\ iter' = Closed
  /\ Answer("StmtFree", OK, {}, {}, NoBuffer, NoBuffer, NULL)
  /\ UNCHANGED <<dialect, schema, table, said>>

-----------------------------------------------------------------------------
(* SqlRDBWriteBlobField and SqlRDBReadBlobField *)

\* find_col_index and the type of the column.
FieldError(c, target) ==
  CASE c = NULL -> INVALID_ARG
    [] c # NULL /\ ~schema_has_column(schema, target) -> UNKNOWN_COLUMN
    [] OTHER -> IF \E i \in DOMAIN schema.cols :
                      schema.cols[i].name = target /\ schema.cols[i].type = "BLOB"
                THEN OK ELSE INVALID_ARG

SelectField(c, target) == Execute(qb_build(Spec0("SELECT_FIELD", c, target)), bind_cond_values(c, 1))

\* Parameter 1 is the new value, the condition's follow.
UpdateField(c, target, bytes) ==
  Execute(qb_build(Spec0("UPDATE_FIELD", c, target)),
          <<[idx |-> 1, v |-> bytes]>> \o bind_cond_values(c, 2))

SetField(rows, S, target, v) ==
  [s \in Slots |-> IF s \notin S THEN rows[s]
                   ELSE [i \in DOMAIN rows[s] |-> IF schema.cols[i].name = target THEN v ELSE rows[s][i]]]

\* Faulty variant: the second step is left out, several rows count as one.
count_matching_rows_Any(x) == Min({Cardinality(Selected(x, table)), 1})

\* 0, 1, or 2 for more: two steps of the SELECT at most.
count_matching_rows(x) == Min({Cardinality(Selected(x, table)), 2})

\* The refusal of a SELECT that must find one row, when it has found n.
NotOne(n) == IF n = 0 THEN NOT_FOUND ELSE IF n > 1 THEN MULTIPLE_ROWS ELSE OK

\* The checks of the column, then the SELECT x.
FieldCheck(c, target, x, n) ==
  LET e == FieldError(c, target)
  IN  CASE e # OK -> e
        [] e = OK /\ x.r # OK -> x.r
        [] OTHER -> NotOne(n)

RECURSIVE FixesKey(_)
\* The condition can hold for one key only.
FixesKey(cond) ==
  CASE cond = NULL \/ cond = CondAll -> FALSE
    [] cond # NULL /\ cond # CondAll /\ cond.kind = "LEAF" ->
         /\ schema.pk_index # 0 /\ cond.op = "EQ"
         /\ cond.col = schema.cols[schema.pk_index].name
    [] OTHER -> cond.kind = "AND" /\ (FixesKey(cond.left) \/ FixesKey(cond.right))

\* The checks and the SELECT that counts, whatever the bytes are.
SqlRDBWriteBlobField(cond, target) ==
  /\ UNCHANGED <<dialect, schema, table, said, iter>>
  /\ \E c \in Passed(cond) :
     LET x == SelectField(c, target)
         r == FieldCheck(c, target, x, count_matching_rows(x))
     IN  \/ \E e \in IF r # OK THEN {r} ELSE Fails :
              Refuse("WriteBlobField", e, Meant(cond, table), NoBuffer)
         \/ /\ r = OK
            /\ \E bytes \in Bytes :
                 ret' = [call |-> "counted", cond |-> cond, passed |-> c, target |-> target,
                         bytes |-> bytes, alone |-> TRUE]

\* The UPDATE; how many rows it changed is not asked.
UpdateBlobField ==
  /\ Counted
  /\ UNCHANGED <<dialect, schema>>
  /\ LET x     == UpdateField(ret.passed, ret.target, ret.bytes)
         asked == Meant(ret.cond, table)
         hit   == Selected(x, table)
     IN  \/ /\ \E e \in IF x.r # OK THEN {x.r} ELSE Fails :
                  Refuse("WriteBlobField", e, asked, NoBuffer)
            /\ UNCHANGED <<table, said, iter>>
         \/ /\ x.r = OK
            /\ table' = SetField(table, hit, ret.target, x.params[1])
            /\ said' = SetField(said, Meant(ret.cond, said), ret.target, ret.bytes)
            /\ iter' = Touch(hit)
            /\ Answer("UpdateBlobField", OK, asked, hit, NoBuffer, NoBuffer,
                      [alone |-> ret.alone, keyed |-> FixesKey(ret.cond)])

FieldOf(values, target) == Named(values)[target]

\* A NULL column is delivered as no bytes.
SqlRDBReadBlobField(cond, target, buf) ==
  /\ UNCHANGED <<dialect, schema, table, said, iter>>
  /\ \E c \in Passed(cond) :
     LET asked == Meant(cond, table)
         x     == SelectField(c, target)
         sel   == Selected(x, table)
         r     == FieldCheck(c, target, x, Cardinality(sel))
     IN  \/ \E e \in IF r # OK THEN {r} ELSE Fails : Refuse("ReadBlobField", e, asked, buf)
         \/ /\ r = OK
            /\ \E s \in sel :
               LET v == FieldOf(table[s], target)
               IN  Answer("ReadBlobField", OK, asked, {s}, buf,
                          [row |-> IF v = NULL THEN << >> ELSE v, map |-> NULL],
                          FieldOf(said[s], target))

-----------------------------------------------------------------------------

Targets == {schema.cols[i].name : i \in DOMAIN schema.cols} \cup {"nocol"}

Iterating == iter # Closed

\* The client calls once it has looked at the last answer.
Call ==
  /\ ret = Quiet
  /\ \/ \E in \in Inputs(schema, Iterating) : SqlRDBWrite(in)
     \/ \E cond \in Conds(schema, Iterating) :
           \/ SqlRDBDelete(cond)
           \/ SqlRDBCount(cond)
           \/ SqlRDBRead(cond, Buffers(schema, Iterating))
           \/ \E target \in Targets : SqlRDBWriteBlobField(cond, target)
           \/ \E target \in Targets : SqlRDBReadBlobField(cond, target, NoBuffer)
     \/ \E cond \in IterConds(schema) : SqlRDBReadMany(cond)
     \/ \E buf \in Buffers(schema, Iterating) : SqlRDBStmtNext(buf)
     \/ SqlRDBStmtFree

\* Another program gets its turn between calls, or during a WriteBlobField.
Others ==
  /\ ret = Quiet \/ Counted
  /\ \/ \E values \in Foreign(schema, Iterating) : OtherWrites(values)
     \/ \E s \in Slots : OtherDeletes(s)

Next == Look \/ Call \/ Others \/ UpdateBlobField

Spec == Init /\ [][Next]_vars

-----------------------------------------------------------------------------
(* Properties *)

Codes == {OK, DRIVER, INVALID_ARG, UNKNOWN_COLUMN, WARN_TRUNCATED, NOT_NULL, NO_MEMORY,
          NOT_FOUND, MULTIPLE_ROWS}

\* What fits into the bytes of a member.
Member(col, m) ==
  CASE col.type = "INT32" -> m \in INT32_MIN..INT32_MAX
    [] col.type \in {"TEXT", "BLOB"} -> DOMAIN m = 1..col.size
    [] OTHER -> m \in Int

\* The state is well formed and a delivered struct fits its members: an INT32
\* holds 32 bits and no TEXT or BLOB is copied past the end of its array.
TypeOK ==
  /\ dialect \in Dialects /\ schema \in Schemas
  /\ DOMAIN table = Slots /\ DOMAIN said = Slots
  /\ \A s \in Used : DOMAIN table[s] = DOMAIN schema.cols
  /\ iter.state \in {"closed", "open", "running", "ended"}
  /\ ret # Quiet /\ ~Counted => ret.r \in Codes /\ ret.asked \subseteq Slots /\ ret.got \subseteq Slots
  /\ ret # Quiet /\ ret.call \in {"Read", "ReadFirst", "StmtNext"} =>
       \A i \in DOMAIN schema.cols : Member(schema.cols[i], ret.after.row[i])

Answered(calls, codes) == ret # Quiet /\ ~Counted /\ ret.call \in calls /\ ret.r \in codes

\* The rows a call counts, deletes, updates or reads are the rows its condition
\* describes, whatever the shape of the tree and the dialect: the WHERE text with
\* its parentheses and numbers and the values bound to it mean what the tree means.
\* SqlRDBDelete and SqlRDBCount report how many they are, and NOT_FOUND and
\* MULTIPLE_ROWS are answered exactly for no row and for several.
RowsAsAsked ==
  /\ Answered({"Delete", "Count", "UpdateBlobField", "Read", "ReadBlobField"}, {OK, WARN_TRUNCATED})
        => ret.got = ret.asked
  /\ Answered({"Delete", "Count"}, {OK}) => ret.after.row = Cardinality(ret.asked)
  /\ Answered({"ReadFirst"}, {OK, WARN_TRUNCATED}) => ret.got \subseteq ret.asked
  /\ Answered({"Read", "ReadBlobField"}, {OK, WARN_TRUNCATED})
        => Cardinality(ret.asked) = 1
  /\ Answered({"WriteBlobField", "Read", "ReadBlobField"}, {NOT_FOUND}) => ret.asked = {}
  /\ Answered({"WriteBlobField", "Read", "ReadBlobField"}, {MULTIPLE_ROWS})
        => Cardinality(ret.asked) > 1

\* The table holds what the acknowledged calls said, column by column: the order of
\* the bound values is that of the columns, an upsert replaces every column of the
\* row with the same key, and a failed call has changed nothing.
TableAsSaid == table = said

\* NOT_FOUND and MULTIPLE_ROWS leave the caller's buffers alone (c2sql.h, output
\* buffer invariant), and so does every other failure of SqlRDBRead for a single
\* row and of SqlRDBReadBlobField.
OutputsKept ==
  \/ Answered({"Read", "ReadFirst", "StmtNext", "ReadBlobField"}, {NOT_FOUND, MULTIPLE_ROWS})
  \/ Answered({"Read", "ReadBlobField"}, Codes \ {OK, WARN_TRUNCATED})
  => ret.after = ret.before

Fits(col, v) ==
  CASE col.type = "INT32" -> v \in INT32_MIN..INT32_MAX
    [] col.type = "TEXT"  -> Len(v) < col.size
    [] col.type = "BLOB"  -> Len(v) <= col.size
    [] OTHER -> TRUE

\* The member shows v: all of it when it fits, else as much as there is room for.
Shows(col, member, v) ==
  CASE col.type = "TEXT" -> Content(col, member) = SubSeq(v, 1, Min({Len(v), col.size - 1}))
    [] col.type = "BLOB" -> \A i \in 1..Min({Len(v), col.size}) : member[i] = v[i]
    [] OTHER -> Fits(col, v) => member = v

\* What a client reads is what was written: NULL columns have their bit set and no
\* other bit is added, every other member shows the value, and WARN_TRUNCATED is
\* answered exactly when some value does not fit its member.
ReadsBack ==
  /\ Answered({"Read", "ReadFirst", "StmtNext"}, {OK, WARN_TRUNCATED}) =>
       /\ \A i \in DOMAIN schema.cols :
            IF ret.owed[i] = NULL
            THEN ret.after.map # NULL => i \in ret.after.map
            ELSE /\ Shows(schema.cols[i], ret.after.row[i], ret.owed[i])
                 /\ null_bit_get(ret.after.map, i) => null_bit_get(ret.before.map, i)
       /\ ret.r = WARN_TRUNCATED <=>
            \E i \in DOMAIN schema.cols : ret.owed[i] # NULL /\ ~Fits(schema.cols[i], ret.owed[i])
  /\ Answered({"ReadBlobField"}, {OK}) =>
       ret.after.row = IF ret.owed = NULL THEN << >> ELSE ret.owed

\* When an iteration answers NOT_FOUND it has delivered exactly the rows of its
\* condition, those aside that were written to meanwhile.
SweepComplete ==
  Answered({"StmtNext"}, {NOT_FOUND}) => ret.got \ iter.fresh = ret.asked \ iter.fresh

\* A WriteBlobField that is answered with OK has changed one row if nobody wrote to
\* the table between its two statements, and whatever the others wrote it has not
\* changed two rows if its condition fixes the key ("key must uniquely identify one
\* row", c2sql.h).
OneBlobWritten ==
  Answered({"UpdateBlobField"}, {OK}) =>
    /\ ret.owed.alone => Cardinality(ret.got) = 1
    /\ ret.owed.keyed => Cardinality(ret.got) <= 1

\* The member of a NULL column is as the caller left it, whichever call delivers the
\* row: c2sql.h has "leave the struct member unchanged".  The single-row SqlRDBRead
\* copies its zeroed row over the whole struct.
NullMember ==
  Answered({"Read", "ReadFirst", "StmtNext"}, {OK, WARN_TRUNCATED}) =>
    \A i \in DOMAIN schema.cols : ret.owed[i] = NULL => ret.after.row[i] = ret.before.row[i]

=============================================================================
