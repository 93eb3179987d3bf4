---------------------------- MODULE Registration ----------------------------
(***************************************************************************)
(* SqlRDBRegisterStruct on several handles of one database: the registry   *)
(* of each handle, c2sql_internal_migrate_table statement by statement,    *)
(* and the iterators that keep a pointer into the registry.  A call holds  *)
(* its handle's mutex, so a handle does one thing at a time; handles only  *)
(* meet in the database, where every statement is a transaction of its     *)
(* own and the statements of two handles interleave.                       *)
(*                                                                         *)
(* A table is the declarations of its columns, whether it is STRICT and    *)
(* whether it has rows.  A registration outside an explicit transaction is *)
(* modelled; tables are not dropped or altered by others.  Two engines     *)
(* disagree with migration.c on when names are the same: PostgreSQL cuts   *)
(* them after 63 characters, and SQLite takes names that differ only in    *)
(* case for one; there, clients are assumed to use names it tells apart.   *)
(***************************************************************************)
EXTENDS SchemaRegistry, FiniteSets

CONSTANTS
  Handles,
  Requests,       \* [name, cols]: the structs clients may register
  Configs,        \* [auto_migrate, require_strict, structs]: what SetConfig chose for a
                  \* handle, and the structs its client registers
  Setups,         \* [dialect, first, config]: the engine, the table or NoTable the handles
                  \* find under each name, [cols, strict, rows], and their configs
  Fold,           \* each name in lower case
  NoTable, NoName,
  MIG_MAX_NAME,   \* buffer for a column name: 128
  INDEX_NAME,     \* buffer for an index name: 96
  Busy,           \* a statement may fail because of the other connections
  MaxIters,       \* open iterators of a handle
  MaxRestarts     \* times a handle is closed, or its process lost, and opened again

Dialects == {"SQLITE", "POSTGRES"}

\* The types type_to_sql_str declares.
SqlTypes == {"INTEGER", "BIGINT", "REAL", "DOUBLE PRECISION", "TEXT", "BLOB", "BYTEA"}

\* A column as the database declares it.
Declaration == [name : Idents, sql : SqlTypes, notnull : BOOLEAN, pk : BOOLEAN, unique : BOOLEAN]

\* The engine takes the names of a struct or table as they are, and apart.
Plain(engine, name, cols) ==
  \A n \in {name} \cup {cols[i].name : i \in DOMAIN cols} :
     IF engine = "POSTGRES" THEN Length[n] <= 63 ELSE Fold[n] = n

ASSUME RegistrationAssumption ==
  /\ Fold \in [Idents -> Idents]
  /\ NoName \notin Idents
  /\ Requests \subseteq [name : Idents, cols : Seq(ColumnDef)]
  /\ \A c \in Configs : c.structs \subseteq Requests
  /\ NoTable \notin [strict : BOOLEAN, rows : BOOLEAN, cols : Seq(Declaration)]
  /\ \A s \in Setups :
        /\ s.dialect \in Dialects /\ s.config \in [Handles -> Configs]
        /\ \A h \in Handles : \A q \in s.config[h].structs : Plain(s.dialect, q.name, q.cols)
        /\ \A n \in Idents : s.first[n] # NoTable =>
              /\ s.first[n] \in [strict : BOOLEAN, rows : BOOLEAN, cols : Seq(ColumnDef) \ {<< >>}]
              /\ Plain(s.dialect, n, s.first[n].cols)
              /\ \A i, j \in DOMAIN s.first[n].cols :
                    s.first[n].cols[i].name = s.first[n].cols[j].name => i = j
  /\ Busy \in BOOLEAN
  /\ MaxIters \in Nat /\ MaxRestarts \in Nat

VARIABLES
  dialect,   \* h->driver->dialect of every handle
  tables,    \* the database: for each name a table or NoTable
  config,    \* h->config of each handle, and its client's structs
  reg,       \* h->registry
  frame,     \* the RegisterStruct a handle is executing
  iters,     \* its iterators: the schema entry pointed to, and the struct's name
  answered,  \* the requests that were answered with OK
  restarts

vars == <<dialect, tables, config, reg, frame, iters, answered, restarts>>

-----------------------------------------------------------------------------
(* Types in the two dialects *)

type_to_sql_str(t) ==
  IF dialect = "POSTGRES"
  THEN CASE t = "INT32" -> "INTEGER" [] t = "INT64" -> "BIGINT"
         [] t = "REAL" -> "DOUBLE PRECISION" [] t = "TEXT" -> "TEXT" [] t = "BLOB" -> "BYTEA"
  ELSE IF t \in {"INT32", "INT64"} THEN "INTEGER" ELSE t

\* The name the catalog reports for a declared type: PostgreSQL's is lower case.
CatalogType(s) ==
  CASE s = "INTEGER" -> "integer" [] s = "BIGINT" -> "bigint" [] s = "BYTEA" -> "bytea"
    [] s = "DOUBLE PRECISION" -> "double precision" [] s = "TEXT" -> "text" [] OTHER -> s

schema_type_class(t) == IF t = "INT32" THEN "INT64" ELSE t

\* Substrings decide; the strings listed are the ones type_to_sql_str can declare.
type_class_from_str(s) ==
  CASE s \in {"INTEGER", "BIGINT"} -> "INT64" [] s = "REAL" -> "REAL"
    [] s = "BLOB" -> "BLOB" [] OTHER -> "TEXT"

\* Faulty variant: bytea is not recognised.
type_class_from_pg_NoBytea(s) ==
  CASE s \in {"integer", "bigint"} -> "INT64" [] s = "double precision" -> "REAL" [] OTHER -> "TEXT"

type_class_from_pg(s) ==
  CASE s \in {"integer", "bigint"} -> "INT64" [] s = "double precision" -> "REAL"
    [] s = "bytea" -> "BLOB" [] OTHER -> "TEXT"

\* What append_col_constraints declares; UNIQUE is left out on a primary key.
Declare(col) ==
  [name |-> col.name, sql |-> type_to_sql_str(col.type), notnull |-> ~col.nullable,
   pk |-> col.pk, unique |-> col.unique /\ ~col.pk]

\* A column as the engine records it: a primary key is implicitly NOT NULL in
\* PostgreSQL and in a STRICT table, unless it is SQLite's rowid.
Recorded(d) ==
  [d EXCEPT !.notnull = @ \/ (d.pk /\ (dialect = "POSTGRES" \/ d.sql # "INTEGER"))]

NewTable(cols) ==
  [strict |-> TRUE, rows |-> FALSE, cols |-> [i \in DOMAIN cols |-> Recorded(Declare(cols[i]))]]

\* ADD COLUMN is refused of a column that the table has, of a NOT NULL column when there
\* are rows, of a UNIQUE column in SQLite, and of a primary key in SQLite and when there
\* are rows or another key in PostgreSQL.
CanAdd(table, d) ==
  /\ \A i \in DOMAIN table.cols : table.cols[i].name # d.name
  /\ table.rows => ~d.notnull
  /\ dialect = "SQLITE" => ~d.unique
  /\ d.pk => /\ dialect = "POSTGRES" /\ ~table.rows
             /\ \A i \in DOMAIN table.cols : ~table.cols[i].pk

-----------------------------------------------------------------------------
(* What read_existing finds *)

\* A name that does not fit its buffer is left empty.
Fitting(name) == IF Length[name] < MIG_MAX_NAME THEN name ELSE NoName

\* PRAGMA table_info, or information_schema.columns, which knows no keys; UNIQUE is not
\* known yet.
read_table_info(name) ==
  IF tables[name] = NoTable THEN << >>
  ELSE [i \in DOMAIN tables[name].cols |->
         LET d == tables[name].cols[i]
         IN  [name |-> Fitting(d.name), notnull |-> d.notnull, unique |-> FALSE,
              pk |-> dialect = "SQLITE" /\ d.pk,
              class |-> IF dialect = "POSTGRES" THEN type_class_from_pg(CatalogType(d.sql))
                        ELSE type_class_from_str(d.sql)]]

\* The table whose keys and indexes the catalog is asked for: $1::regclass folds a name
\* that is not quoted.
CatalogTable(name) == IF dialect = "POSTGRES" THEN Fold[name] ELSE name

KeyColumns(name) ==
  {tables[name].cols[j].name : j \in {i \in DOMAIN tables[name].cols : tables[name].cols[i].pk}}

\* Those with a UNIQUE constraint of their own, and with it an index.
UniqueColumns(name) ==
  {tables[name].cols[j].name : j \in {i \in DOMAIN tables[name].cols : tables[name].cols[i].unique}}

\* SQLite's sqlite_autoindex_<table>_<n> has to fit its buffer to be looked at.
IndexSeen(name) == 17 + Length[name] + 2 < INDEX_NAME

\* A query's column names, without the ones that do not fit, are found in db_cols.
Found(col, names) == col.name \in {Fitting(n) : n \in names} \ {NoName}

MarkKeys(db_cols, names) ==
  [i \in DOMAIN db_cols |-> [db_cols[i] EXCEPT !.pk = Found(db_cols[i], names)]]

MarkUniques(db_cols, names) ==
  [i \in DOMAIN db_cols |-> [db_cols[i] EXCEPT !.unique = @ \/ Found(db_cols[i], names)]]

\* Faulty variant: the NOT NULL test is forgotten.
compare_columns_NoNotNull(sc, dc) ==
  /\ sc.name = dc.name
  /\ schema_type_class(sc.type) = dc.class
  /\ sc.pk = dc.pk
  /\ (sc.unique /\ ~sc.pk) => dc.unique

\* Faulty variant: INT32 and INT64 are told apart.
compare_columns_RawType(sc, dc) ==
  /\ sc.name = dc.name
  /\ sc.type = dc.class
  /\ sc.nullable # dc.notnull
  /\ sc.pk = dc.pk
  /\ (sc.unique /\ ~sc.pk) => dc.unique

\* No difference between the schema's column and the table's.
compare_columns(sc, dc) ==
  /\ sc.name = dc.name
  /\ schema_type_class(sc.type) = dc.class
  /\ sc.nullable # dc.notnull
  /\ sc.pk = dc.pk
  /\ (sc.unique /\ ~sc.pk) => dc.unique

-----------------------------------------------------------------------------

Idle == [pc |-> "idle"]

DbColumn == [name : Idents \cup {NoName}, class : Types, notnull : BOOLEAN,
             pk : BOOLEAN, unique : BOOLEAN]

IsTable(t) ==
  /\ t.strict \in BOOLEAN /\ t.rows \in BOOLEAN /\ t.cols # << >>
  /\ \A i \in DOMAIN t.cols : t.cols[i].name \in Idents

TypeOK ==
  /\ dialect \in Dialects
  /\ \A n \in Idents : tables[n] = NoTable \/ IsTable(tables[n])
  /\ config \in [Handles -> Configs]
  /\ \A h \in Handles :
        /\ Len(reg[h].entries) <= reg[h].capacity
        /\ \A i \in DOMAIN reg[h].entries :
              \E q \in Requests : reg[h].entries[i] = Schema(q.name, q.cols)
        /\ frame[h].pc # "idle" =>
              /\ frame[h].pc \in {"create", "info", "keys", "uniques", "index_list", "index_info",
                                  "validate", "alter", "revalidate"}
              /\ frame[h].req \in Requests
              /\ frame[h].next \in 1..(Len(frame[h].req.cols) + 1)
              /\ \A i \in DOMAIN frame[h].db_cols : frame[h].db_cols[i] \in DbColumn
              /\ frame[h].idx \subseteq Idents
        /\ Cardinality(iters[h]) <= MaxIters
        /\ answered[h] \subseteq Requests
        /\ restarts[h] \in 0..MaxRestarts

Init ==
  /\ \E s \in Setups :
        /\ dialect = s.dialect
        /\ tables = [n \in Idents |->
                       IF s.first[n] = NoTable THEN NoTable
                       ELSE [NewTable(s.first[n].cols) EXCEPT !.strict = s.first[n].strict,
                                                              !.rows = s.first[n].rows]]
        /\ config = s.config
  /\ reg = [h \in Handles |-> EmptyRegistry]
  /\ frame = [h \in Handles |-> Idle]
  /\ iters = [h \in Handles |-> {}]
  /\ answered = [h \in Handles |-> {}]
  /\ restarts = [h \in Handles |-> 0]

Goto(h, pc) == frame' = [frame EXCEPT ![h].pc = pc]

At(h, pc) == frame[h].pc = pc /\ UNCHANGED <<dialect, config, iters, restarts>>

\* Faulty variant: the registration is kept when the migration failed.
Fails_KeepsEntry(h) ==
  /\ frame' = [frame EXCEPT ![h] = Idle]
  /\ UNCHANGED <<reg, answered>>

\* migrate_table answers an error: the registration is taken back.
Fails(h) ==
  /\ reg' = [reg EXCEPT ![h] = schema_unregister(@, frame[h].req.name)]
  /\ frame' = [frame EXCEPT ![h] = Idle]
  /\ UNCHANGED answered

Succeeds(h) ==
  /\ frame' = [frame EXCEPT ![h] = Idle]
  /\ answered' = [answered EXCEPT ![h] = @ \cup {frame[h].req}]
  /\ UNCHANGED reg

\* A statement fails for reasons of its own, or the memory for its text runs out.
StatementFails(h) ==
  /\ Busy \/ NoMemory
  /\ Fails(h)
  /\ UNCHANGED tables

\* Up to the registry entry; the handle is then busy with migrate_table.
SqlRDBRegisterStruct(h) ==
  /\ At(h, "idle")
  /\ UNCHANGED <<tables, answered>>
  /\ \E q \in config[h].structs : \E o \in schema_register(reg[h], q.name, q.cols) :
        /\ reg' = [reg EXCEPT ![h] = o.reg]
        /\ frame' = IF o.r # OK THEN frame
                    ELSE [frame EXCEPT ![h] =
                            [pc |-> "create", req |-> q, db_cols |-> << >>, idx |-> {}, next |-> 1,
                             existed |-> TRUE]]

\* CREATE TABLE IF NOT EXISTS; two primary keys are refused.
CreateTable(h) ==
  /\ At(h, "create")
  /\ LET q == frame[h].req
     IN  \/ StatementFails(h)
         \/ /\ tables[q.name] # NoTable
            /\ Goto(h, "info")
            /\ UNCHANGED <<tables, reg, answered>>
         \/ /\ tables[q.name] = NoTable
            /\ \E i, j \in DOMAIN q.cols : i # j /\ q.cols[i].pk /\ q.cols[j].pk
            /\ Fails(h)
            /\ UNCHANGED tables
         \/ /\ tables[q.name] = NoTable
            /\ \A i, j \in DOMAIN q.cols : q.cols[i].pk /\ q.cols[j].pk => i = j
            /\ tables' = [tables EXCEPT ![q.name] = NewTable(q.cols)]
            /\ frame' = [frame EXCEPT ![h].pc = "info", ![h].existed = FALSE]
            /\ UNCHANGED <<reg, answered>>

\* read_existing: first the columns.
ReadTableInfo(h) ==
  /\ At(h, "info")
  /\ \/ StatementFails(h)
     \/ /\ frame' = [frame EXCEPT ![h].pc = IF dialect = "POSTGRES" THEN "keys" ELSE "index_list",
                                  ![h].db_cols = read_table_info(frame[h].req.name)]
        /\ UNCHANGED <<tables, reg, answered>>

\* The layout is read; next > 1: columns were added before.
Check(h) == IF frame[h].next = 1 THEN "validate" ELSE "revalidate"

\* PostgreSQL's key query; the cast of an unknown name fails.
ReadKeys(h) ==
  /\ At(h, "keys")
  /\ UNCHANGED tables
  /\ LET name == CatalogTable(frame[h].req.name)
     IN  \/ StatementFails(h)
         \/ /\ tables[name] = NoTable
            /\ Fails(h)
         \/ /\ tables[name] # NoTable
            /\ frame' = [frame EXCEPT ![h].pc = "uniques",
                                      ![h].db_cols = MarkKeys(@, KeyColumns(name))]
            /\ UNCHANGED <<reg, answered>>

\* PostgreSQL's query for single-column UNIQUE constraints; the table is there since
\* ReadKeys.
ReadUniques(h) ==
  /\ At(h, "uniques")
  /\ UNCHANGED tables
  /\ LET name == CatalogTable(frame[h].req.name)
     IN  \/ StatementFails(h)
         \/ /\ frame' = [frame EXCEPT ![h].pc = Check(h),
                                      ![h].db_cols = MarkUniques(@, UniqueColumns(name))]
            /\ UNCHANGED <<reg, answered>>

\* SQLite's PRAGMA index_list: an index is named by its column.
ReadIndexList(h) ==
  /\ At(h, "index_list")
  /\ UNCHANGED tables
  /\ LET name == frame[h].req.name
         seen == IF IndexSeen(name) THEN UniqueColumns(name) ELSE {}
     IN  \/ StatementFails(h)
         \/ /\ frame' = [frame EXCEPT ![h].pc = IF seen = {} THEN Check(h) ELSE "index_info",
                                      ![h].idx = seen]
            /\ UNCHANGED <<reg, answered>>

\* PRAGMA index_info of one of them.
ReadIndexInfo(h) ==
  /\ At(h, "index_info")
  /\ UNCHANGED tables
  /\ \/ StatementFails(h)
     \/ \E col \in frame[h].idx :
          LET left == frame[h].idx \ {col}
          IN  /\ frame' = [frame EXCEPT ![h].pc = IF left = {} THEN Check(h) ELSE "index_info",
                                        ![h].idx = left,
                                        ![h].db_cols = MarkUniques(@, {col})]
              /\ UNCHANGED <<reg, answered>>

\* check_strict; when its query fails the table counts as not STRICT.
check_strict(name) ==
  IF dialect = "POSTGRES" THEN {TRUE}
  ELSE {tables[name].strict} \cup (IF Busy THEN {FALSE} ELSE {})

Differ(cols, db_cols) ==
  \E i \in DOMAIN cols \cap DOMAIN db_cols : ~compare_columns(cols[i], db_cols[i])

\* What migrate_table refuses before it adds columns.
Refused(cols, db_cols, is_strict, cfg) ==
  \/ db_cols = << >>
  \/ ~is_strict /\ cfg.require_strict
  \/ Differ(cols, db_cols)
  \/ Len(db_cols) > Len(cols)
  \/ Len(db_cols) < Len(cols) /\ ~cfg.auto_migrate

Validate(h) ==
  /\ At(h, "validate")
  /\ UNCHANGED tables
  /\ \E is_strict \in check_strict(frame[h].req.name) :
       LET f == frame[h]
       IN  IF Refused(f.req.cols, f.db_cols, is_strict, config[h]) THEN Fails(h)
           ELSE IF Len(f.db_cols) = Len(f.req.cols) THEN Succeeds(h)
           ELSE /\ frame' = [frame EXCEPT ![h].pc = "alter", ![h].next = Len(f.db_cols) + 1]
                /\ UNCHANGED <<reg, answered>>

\* One ALTER TABLE ADD COLUMN; after the last one the layout is read again.
AlterAdd(h) ==
  /\ At(h, "alter")
  /\ LET f == frame[h]
         d == Recorded(Declare(f.req.cols[f.next]))
         t == tables[f.req.name]
     IN  \/ StatementFails(h)
         \/ /\ ~CanAdd(t, d)
            /\ Fails(h)
            /\ UNCHANGED tables
         \/ /\ CanAdd(t, d)
            /\ tables' = [tables EXCEPT ![f.req.name].cols = Append(@, d)]
            /\ frame' = [frame EXCEPT
                 ![h].next = @ + 1,
                 ![h].pc = IF f.next = Len(f.req.cols) THEN "info" ELSE "alter"]
            /\ UNCHANGED <<reg, answered>>

Revalidate(h) ==
  /\ At(h, "revalidate")
  /\ UNCHANGED tables
  /\ LET f == frame[h]
     IN  IF Len(f.db_cols) # Len(f.req.cols) \/ Differ(f.req.cols, f.db_cols)
         THEN Fails(h) ELSE Succeeds(h)

-----------------------------------------------------------------------------
(* The other calls of a handle that matter here *)

\* A row is written; columns the handle does not know get NULL.
SqlRDBWrite(h) ==
  /\ At(h, "idle")
  /\ \E i \in DOMAIN reg[h].entries :
        LET s == reg[h].entries[i]
            t == tables[s.name]
        IN  /\ ~t.rows
            /\ \A j \in (Len(s.cols) + 1)..Len(t.cols) : ~t.cols[j].notnull
            /\ tables' = [tables EXCEPT ![s.name].rows = TRUE]
  /\ UNCHANGED <<reg, frame, answered>>

\* The iterator keeps the pointer that schema_lookup returned.
SqlRDBReadMany(h) ==
  /\ frame[h].pc = "idle"
  /\ Cardinality(iters[h]) < MaxIters
  /\ \E name \in Names(reg[h]) : \E i \in schema_lookup(reg[h], name) :
        iters' = [iters EXCEPT ![h] = @ \cup {[idx |-> i, name |-> name]}]
  /\ UNCHANGED <<dialect, tables, config, reg, frame, answered, restarts>>

SqlRDBStmtFree(h) ==
  /\ frame[h].pc = "idle"
  /\ \E it \in iters[h] : iters' = [iters EXCEPT ![h] = @ \ {it}]
  /\ UNCHANGED <<dialect, tables, config, reg, frame, answered, restarts>>

\* SqlRDBClose and SqlRDBInit, or the process ends and is started again, perhaps in
\* the middle of a registration; the database stays as it is.
Restart(h) ==
  /\ restarts[h] < MaxRestarts
  /\ restarts' = [restarts EXCEPT ![h] = @ + 1]
  /\ reg' = [reg EXCEPT ![h] = EmptyRegistry]
  /\ frame' = [frame EXCEPT ![h] = Idle]
  /\ iters' = [iters EXCEPT ![h] = {}]
  /\ answered' = [answered EXCEPT ![h] = {}]
  /\ UNCHANGED <<dialect, tables, config>>

Register(h) ==
  \/ SqlRDBRegisterStruct(h) \/ CreateTable(h)
  \/ ReadTableInfo(h) \/ ReadKeys(h) \/ ReadUniques(h) \/ ReadIndexList(h) \/ ReadIndexInfo(h)
  \/ Validate(h) \/ AlterAdd(h) \/ Revalidate(h)

Next ==
  \E h \in Handles : Register(h) \/ SqlRDBWrite(h) \/ SqlRDBReadMany(h)
                       \/ SqlRDBStmtFree(h) \/ Restart(h)

Spec == Init /\ [][Next]_vars

\* Clients that register, and register again when it failed.
RetrySpec == Spec /\ \A h \in Handles : WF_vars(Register(h))

-----------------------------------------------------------------------------
(* Properties *)

\* A column of the table is the one the schema describes.
Agrees(col, d) ==
  /\ col.name = d.name
  /\ \/ d.sql = type_to_sql_str(col.type)
     \/ col.type \in {"INT32", "INT64"} /\ d.sql \in {"INTEGER", "BIGINT"}
  /\ d.notnull = ~col.nullable

\* Its key and its uniqueness, too.
AgreeKeys(col, d) == d.pk = col.pk /\ (col.unique => d.unique \/ d.pk)

\* A struct registered on a handle describes the first columns of its table, and
\* goes on doing so whatever the other handles register, however their statements
\* and crashes interleave: a row written through the handle has a place for every
\* member.  Keys and UNIQUE agree, too, unless PostgreSQL folded the name and
\* migrate_table looked at the keys of another table.
RegisteredIsPrefix ==
  \A h \in Handles : \A i \in DOMAIN reg[h].entries :
     LET s == reg[h].entries[i]
     IN  frame[h].pc = "idle" =>
           /\ tables[s.name] # NoTable
           /\ Len(s.cols) <= Len(tables[s.name].cols)
           /\ \A j \in DOMAIN s.cols :
                 /\ Agrees(s.cols[j], tables[s.name].cols[j])
                 /\ CatalogTable(s.name) = s.name => AgreeKeys(s.cols[j], tables[s.name].cols[j])

\* Between two calls a handle knows exactly the structs whose registration it
\* answered with OK, each once and with the columns given then: a registration that
\* failed at any statement leaves nothing behind and disturbs no other.
AnswersAreKept ==
  \A h \in Handles : frame[h].pc = "idle" =>
     /\ {reg[h].entries[i] : i \in DOMAIN reg[h].entries}
          = {Schema(q.name, q.cols) : q \in answered[h]}
     /\ Cardinality(answered[h]) = Len(reg[h].entries)

\* The entry an iterator points to keeps its place in the registry's array while
\* other structs are registered and registrations are taken back.
IteratorEntryStays ==
  \A h \in Handles : \A it \in iters[h] :
     it.idx \in DOMAIN reg[h].entries /\ reg[h].entries[it.idx].name = it.name

\* What migrate_table does not read back as build_create declared it: a name as long as
\* its buffer, a nullable key the engine makes NOT NULL, and a UNIQUE column of a table
\* whose index has too long a name.
Misread(name, col) ==
  \/ Length[col.name] >= MIG_MAX_NAME
  \/ col.pk /\ col.nullable /\ (dialect = "POSTGRES" \/ type_to_sql_str(col.type) # "INTEGER")
  \/ dialect = "SQLITE" /\ col.unique /\ ~col.pk /\ ~IndexSeen(name)

\* RegisterStruct finds fault with a table it has itself just created for these columns,
\* and for no others, whatever the other handles add to it in between.
OwnTableMatches ==
  \A h \in Handles :
     LET f == frame[h]
     IN  f.pc = "validate" /\ ~f.existed /\ CatalogTable(f.req.name) = f.req.name =>
           (Differ(f.req.cols, f.db_cols)
              <=> \E i \in DOMAIN f.req.cols : Misread(f.req.name, f.req.cols[i]))

\* Two clients that register the same struct on an outdated table at the same time,
\* each adding columns and failing on the columns the other added, both succeed if
\* they try again.
RetrySucceeds ==
  \A h \in Handles : <>[](\A q \in config[h].structs : q \in answered[h])

=============================================================================
