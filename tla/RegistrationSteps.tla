------------------------- MODULE RegistrationSteps --------------------------
(***************************************************************************)
(* What the steps of SqlRDBRegisterStruct do, for any handles, requests,   *)
(* tables and limits: the invariants of the proofs and, for each action,   *)
(* how it changes the registry of its handle, the frame of the call and    *)
(* the tables.  RegType types the state; PendingInv and KeepInv relate the *)
(* registry of a handle to what its client was told, IterInv to its        *)
(* iterators; PrefixInv and SnapshotInv relate it, and what a handle has   *)
(* read of a table, to the tables.                                         *)
(***************************************************************************)
EXTENDS Registration, WellFoundedInduction, TLAPS

\* The entries a registry can hold.
Schemas == {Schema(q.name, q.cols) : q \in Requests}

Registries == [entries : Seq(Schemas), capacity : Nat]

TableCols == [name : Idents, sql : {type_to_sql_str(t) : t \in Types}, notnull : BOOLEAN,
              pk : BOOLEAN, unique : BOOLEAN]

Tables == [strict : BOOLEAN, rows : BOOLEAN, cols : Seq(TableCols) \ {<< >>}]

Frames == [pc : {"create", "info", "keys", "uniques", "index_list", "index_info",
                 "validate", "alter", "revalidate"},
           req : Requests, db_cols : Seq(DbColumn), idx : SUBSET Idents, next : Nat,
           existed : BOOLEAN]

\* What the names, requests and bounds are.
LEMMA RequestsType ==
  /\ \A q \in Requests : q.name \in Idents /\ q.cols \in Seq(ColumnDef)
  /\ \A c \in Configs : c.structs \subseteq Requests
  /\ NoName \notin Idents
  /\ MaxIters \in Nat /\ MaxRestarts \in Nat
<1>1. /\ Requests \subseteq [name : Idents, cols : Seq(ColumnDef)]
      /\ \A c \in Configs : c.structs \subseteq Requests
      /\ NoName \notin Idents
      /\ MaxIters \in Nat /\ MaxRestarts \in Nat
  BY Zenon, RegistrationAssumption
<1>2. QED
  BY Zenon, <1>1

-----------------------------------------------------------------------------
(* The registry *)

\* A schema determines the request it was made from.
LEMMA SchemaInjective ==
  ASSUME NEW p \in Requests, NEW q \in Requests, Schema(p.name, p.cols) = Schema(q.name, q.cols)
  PROVE  p = q
BY RegistrationAssumption DEF Schema

\* registry_grow makes room for one more entry.
LEMMA RoomForEffect ==
  ASSUME NEW r \in Registries, Len(r.entries) <= r.capacity
  PROVE  /\ RoomFor(r) \in Registries /\ RoomFor(r).entries = r.entries
         /\ Len(r.entries) < RoomFor(r).capacity
<1>1. r.entries \in Seq(Schemas) /\ Len(r.entries) \in Nat /\ r.capacity \in Nat
  BY DEF Registries
<1>2. CASE Len(r.entries) # r.capacity
  BY <1>1, <1>2 DEF RoomFor
<1>3. CASE Len(r.entries) = r.capacity
  <2> DEFINE n == IF r.capacity = 0 THEN FirstCapacity ELSE 2 * r.capacity
  <2>1. RoomFor(r) = [r EXCEPT !.capacity = n]
    BY Zenon, <1>3 DEF RoomFor, registry_grow, Registries
  <2>2. n \in Nat /\ r.capacity < n
    BY <1>1, RegistryAssumption
  <2> HIDE DEF n
  <2>3. RoomFor(r) \in Registries /\ RoomFor(r).entries = r.entries /\ RoomFor(r).capacity = n
    BY Zenon, <2>1, <2>2 DEF Registries
  <2>4. QED
    BY Zenon, <1>3, <2>2, <2>3
<1>4. QED
  BY Zenon, <1>2, <1>3

\* schema_register appends the schema, or leaves the entries as they are.
LEMMA RegisterEffect ==
  ASSUME NEW r \in Registries, Len(r.entries) <= r.capacity, NEW q \in Requests,
         NEW o \in schema_register(r, q.name, q.cols)
  PROVE  /\ o.reg \in Registries /\ Len(o.reg.entries) <= o.reg.capacity
         /\ o.r # OK => o.reg.entries = r.entries
         /\ o.r = OK => /\ o.reg.entries = Append(r.entries, Schema(q.name, q.cols))
                        /\ RegisterError(r, q.name, q.cols) = OK
<1> DEFINE s == Schema(q.name, q.cols)
           g == RoomFor(r)
<1>1. r.entries \in Seq(Schemas) /\ s \in Schemas /\ Len(r.entries) \in Nat
  BY DEF Registries, Schemas
<1>2. /\ g \in Registries /\ g.entries = r.entries /\ Len(r.entries) < g.capacity
      /\ g.capacity \in Nat
  BY Zenon, RoomForEffect DEF Registries
<1> HIDE DEF g
<1>3. CASE RegisterError(r, q.name, q.cols) # OK
  <2>1. o = [r |-> RegisterError(r, q.name, q.cols), reg |-> r]
    BY Zenon, <1>3 DEF schema_register
  <2>2. QED
    BY Zenon, <1>3, <2>1
<1>4. CASE RegisterError(r, q.name, q.cols) = OK
  <2>1. CASE o = [r |-> OK, reg |-> [g EXCEPT !.entries = Append(@, s)]]
    <3> DEFINE e == Append(r.entries, s)
    <3>1. e \in Seq(Schemas) /\ Len(e) = Len(r.entries) + 1
      BY <1>1
    <3>2. o.r = OK /\ o.reg = [g EXCEPT !.entries = e]
      BY Zenon, <1>2, <2>1
    <3> HIDE DEF e
    <3>3. o.reg \in Registries /\ o.reg.entries = e /\ o.reg.capacity = g.capacity
      BY Zenon, <1>2, <3>1, <3>2 DEF Registries
    <3>4. QED
      BY <1>1, <1>2, <1>4, <3>1, <3>2, <3>3 DEF e
  <2>2. CASE \E x \in {g, r} : o = [r |-> NO_MEMORY, reg |-> x]
    <3>1. PICK x \in {g, r} : o = [r |-> NO_MEMORY, reg |-> x]
      BY Zenon, <2>2
    <3>2. x \in Registries /\ x.entries = r.entries /\ Len(r.entries) <= x.capacity
      BY <1>1, <1>2, <3>1
    <3>3. QED
      BY Zenon, <3>1, <3>2 DEF OK, NO_MEMORY
  <2>3. QED
    BY Zenon, <1>4, <2>1, <2>2 DEF schema_register, g
<1>5. QED
  BY Zenon, <1>3, <1>4

\* schema_unregister takes the last entry back when no other has its name.
LEMMA UnregisterLast ==
  ASSUME NEW r \in Registries, r.entries # << >>,
         \A i, j \in DOMAIN r.entries : r.entries[i].name = r.entries[j].name => i = j
  PROVE  LET u == schema_unregister(r, r.entries[Len(r.entries)].name)
         IN  /\ u \in Registries /\ u.capacity = r.capacity
             /\ u.entries = SubSeq(r.entries, 1, Len(r.entries) - 1)
<1> DEFINE e == r.entries
           n == Len(e)
           name == e[n].name
<1>1. e \in Seq(Schemas) /\ n \in Nat /\ n >= 1 /\ DOMAIN e = 1..n
  BY DEF Registries
<1>2. schema_lookup(r, name) = {n}
  BY <1>1 DEF schema_lookup
<1>3. Min({n}) = n
  BY <1>1 DEF Min
<1>4. Without(e, n) = SubSeq(e, 1, n - 1)
  <2>1. SubSeq(e, n + 1, n) = << >>
    BY <1>1
  <2>2. SubSeq(e, 1, n - 1) \in Seq(Schemas)
    BY <1>1
  <2>3. \A s \in Seq(Schemas) : s \o << >> = s
    OBVIOUS
  <2>4. QED
    BY Zenon, <2>1, <2>2, <2>3 DEF Without
<1>5. SubSeq(e, 1, n - 1) \in Seq(Schemas)
  BY <1>1
<1>6. schema_unregister(r, name) = [r EXCEPT !.entries = SubSeq(e, 1, n - 1)]
  BY Zenon, <1>2, <1>3, <1>4 DEF schema_unregister
<1> HIDE DEF n, name
<1>7. QED
  BY Zenon, <1>5, <1>6 DEF Registries, n, name

-----------------------------------------------------------------------------
(* Columns *)

\* Changing a flag of a record leaves the other fields.
LEMMA FlagChange ==
  ASSUME NEW b \in BOOLEAN
  PROVE  /\ \A d \in TableCols : LET n == [d EXCEPT !.notnull = b]
                                 IN  n \in TableCols /\ n.name = d.name
         /\ \A d \in DbColumn : LET n == [d EXCEPT !.pk = b]
                                IN  /\ n \in DbColumn /\ n.name = d.name /\ n.class = d.class
                                    /\ n.unique = d.unique /\ n.notnull = d.notnull /\ n.pk = b
         /\ \A d \in DbColumn : LET n == [d EXCEPT !.unique = b]
                                IN  /\ n \in DbColumn /\ n.name = d.name /\ n.class = d.class
                                    /\ n.pk = d.pk /\ n.notnull = d.notnull /\ n.unique = b
BY Zenon DEF TableCols, DbColumn

\* What append_col_constraints declares, and the engine records.
LEMMA DeclareType ==
  ASSUME NEW col \in ColumnDef
  PROVE  Recorded(Declare(col)) \in TableCols /\ Recorded(Declare(col)).name = col.name
<1> DEFINE d == Declare(col)
           b == d.notnull \/ (d.pk /\ (dialect = "POSTGRES" \/ d.sql # "INTEGER"))
<1>1. d \in TableCols /\ d.name = col.name
  BY Zenon DEF Declare, TableCols, ColumnDef
<1>2. b \in BOOLEAN
  BY Zenon
<1>3. Recorded(d) = [d EXCEPT !.notnull = b]
  BY Zenon, <1>1 DEF Recorded, TableCols
<1> HIDE DEF d, b
<1>4. QED
  BY <1>1, <1>2, <1>3, FlagChange DEF d

\* A new table has the columns of the request.
LEMMA NewTableType ==
  ASSUME NEW cols \in Seq(ColumnDef), cols # << >>
  PROVE  /\ NewTable(cols) \in Tables
         /\ Len(NewTable(cols).cols) = Len(cols)
         /\ \A i \in DOMAIN cols : NewTable(cols).cols[i].name = cols[i].name
<1> DEFINE N(i) == Recorded(Declare(cols[i]))
           nc == [i \in DOMAIN cols |-> N(i)]
<1>1. \A i \in DOMAIN cols : N(i) \in TableCols /\ N(i).name = cols[i].name
  BY DeclareType
<1>2. NewTable(cols) = [strict |-> TRUE, rows |-> FALSE, cols |-> nc]
  BY Zenon DEF NewTable
<1> HIDE DEF N
<1>3. /\ nc \in Seq(TableCols) \ {<< >>} /\ Len(nc) = Len(cols)
      /\ \A i \in DOMAIN cols : nc[i].name = cols[i].name
  <2>1. DOMAIN cols = 1..Len(cols) /\ Len(cols) \in Nat /\ Len(cols) # 0
    OBVIOUS
  <2>2. nc \in [1..Len(cols) -> TableCols]
    BY Zenon, <1>1, <2>1
  <2>3. nc \in Seq(TableCols) /\ Len(nc) = Len(cols)
    BY <2>1, <2>2
  <2>4. QED
    BY Zenon, <1>1, <2>1, <2>3
<1> HIDE DEF nc
<1>4. NewTable(cols).cols = nc
  BY <1>2
<1>5. QED
  BY <1>2, <1>3, <1>4 DEF Tables

\* What read_table_info reports of column d, the flags apart.
Described(d, x) ==
  /\ x.name = Fitting(d.name) /\ x.notnull = d.notnull
  /\ x.class = IF dialect = "POSTGRES" THEN type_class_from_pg(CatalogType(d.sql))
               ELSE type_class_from_str(d.sql)

\* read_table_info reports every column of the table.
LEMMA TableInfoEffect ==
  ASSUME NEW name, tables[name] \in Tables \cup {NoTable}
  PROVE  /\ read_table_info(name) \in Seq(DbColumn)
         /\ tables[name] = NoTable => read_table_info(name) = << >>
         /\ tables[name] # NoTable =>
              /\ Len(read_table_info(name)) = Len(tables[name].cols)
              /\ \A i \in DOMAIN read_table_info(name) :
                    /\ Described(tables[name].cols[i], read_table_info(name)[i])
                    /\ ~read_table_info(name)[i].unique
                    /\ dialect = "SQLITE" =>
                         read_table_info(name)[i].pk = tables[name].cols[i].pk
<1>1. CASE tables[name] = NoTable
  BY <1>1 DEF read_table_info
<1>2. CASE tables[name] # NoTable
  <2> DEFINE tc == tables[name].cols
             class(i) == IF dialect = "POSTGRES" THEN type_class_from_pg(CatalogType(tc[i].sql))
                         ELSE type_class_from_str(tc[i].sql)
             key(i) == dialect = "SQLITE" /\ tc[i].pk
             N(i) == [name |-> Fitting(tc[i].name), notnull |-> tc[i].notnull,
                      unique |-> FALSE, pk |-> key(i), class |-> class(i)]
  <2>1. tc \in Seq(TableCols) /\ DOMAIN tc = 1..Len(tc) /\ Len(tc) \in Nat
    BY <1>2 DEF Tables
  <2>2. ASSUME NEW i \in DOMAIN tc
        PROVE  /\ N(i) \in DbColumn /\ Described(tc[i], N(i)) /\ ~N(i).unique
               /\ dialect = "SQLITE" => N(i).pk = tc[i].pk
    <3>1. tc[i] \in TableCols
      BY <2>1
    <3>2. class(i) \in Types
      BY Zenon DEF type_class_from_pg, type_class_from_str, Types
    <3>3. Fitting(tc[i].name) \in Idents \cup {NoName}
      BY Zenon, <3>1 DEF Fitting, TableCols
    <3>4. key(i) \in BOOLEAN /\ (dialect = "SQLITE" => key(i) = tc[i].pk)
      BY Zenon, <3>1 DEF TableCols
    <3> HIDE DEF key
    <3>5. N(i) \in DbColumn /\ N(i).pk = key(i)
      BY Zenon, <3>1, <3>2, <3>3, <3>4 DEF DbColumn, TableCols
    <3>6. Described(tc[i], N(i))
      BY Zenon DEF Described
    <3>7. QED
      BY Zenon, <3>4, <3>5, <3>6
  <2>3. read_table_info(name) = [i \in DOMAIN tc |-> N(i)]
    BY Zenon, <1>2, Zenon DEF read_table_info
  <2> HIDE DEF N
  <2>4. read_table_info(name) \in [1..Len(tc) -> DbColumn]
    BY Zenon, <2>1, <2>2, <2>3
  <2>5. read_table_info(name) \in Seq(DbColumn) /\ Len(read_table_info(name)) = Len(tc)
    BY <2>1, <2>4
  <2>6. QED
    BY Zenon, <1>2, <2>1, <2>2, <2>3, <2>5
<1>3. QED
  BY Zenon, <1>1, <1>2

\* Marking the columns a query named sets their flags, and nothing else.
LEMMA MarkEffect ==
  ASSUME NEW db \in Seq(DbColumn), NEW names
  PROVE  /\ LET k == MarkKeys(db, names)
            IN  /\ k \in Seq(DbColumn) /\ Len(k) = Len(db)
                /\ \A i \in DOMAIN k :
                      /\ k[i].name = db[i].name /\ k[i].class = db[i].class
                      /\ k[i].notnull = db[i].notnull /\ k[i].unique = db[i].unique
                      /\ k[i].pk = Found(db[i], names)
         /\ LET u == MarkUniques(db, names)
            IN  /\ u \in Seq(DbColumn) /\ Len(u) = Len(db)
                /\ \A i \in DOMAIN u :
                      /\ u[i].name = db[i].name /\ u[i].class = db[i].class
                      /\ u[i].notnull = db[i].notnull /\ u[i].pk = db[i].pk
                      /\ u[i].unique => db[i].unique \/ Found(db[i], names)
<1> DEFINE a(i) == Found(db[i], names)
           b(i) == db[i].unique \/ Found(db[i], names)
           K(i) == [db[i] EXCEPT !.pk = a(i)]
           U(i) == [db[i] EXCEPT !.unique = b(i)]
           k == [i \in DOMAIN db |-> K(i)]
           u == [i \in DOMAIN db |-> U(i)]
<1>1. DOMAIN db = 1..Len(db) /\ Len(db) \in Nat /\ \A i \in DOMAIN db : db[i] \in DbColumn
  OBVIOUS
<1>2. MarkKeys(db, names) = k
  BY Zenon DEF MarkKeys
<1>3. MarkUniques(db, names) = u
  <2>1. ASSUME NEW i \in DOMAIN db
        PROVE  U(i) = [db[i] EXCEPT !.unique = @ \/ Found(db[i], names)]
    BY Zenon, <1>1 DEF DbColumn
  <2>2. QED
    BY Zenon, <2>1 DEF MarkUniques
<1>4. ASSUME NEW i \in DOMAIN db
      PROVE  a(i) \in BOOLEAN /\ b(i) \in BOOLEAN
  BY DEF Found
<1>5. \A i \in DOMAIN db : b(i) => db[i].unique \/ Found(db[i], names)
  BY Zenon
<1> HIDE DEF b
<1>6. ASSUME NEW i \in DOMAIN db
      PROVE  /\ K(i) \in DbColumn /\ K(i).name = db[i].name /\ K(i).class = db[i].class
             /\ K(i).notnull = db[i].notnull /\ K(i).unique = db[i].unique
             /\ K(i).pk = Found(db[i], names)
             /\ U(i) \in DbColumn /\ U(i).name = db[i].name /\ U(i).class = db[i].class
             /\ U(i).notnull = db[i].notnull /\ U(i).pk = db[i].pk /\ U(i).unique = b(i)
  <2>1. db[i] \in DbColumn /\ a(i) \in BOOLEAN /\ b(i) \in BOOLEAN
    BY Zenon, <1>1, <1>4
  <2>2. Found(db[i], names) = a(i)
    BY Zenon
  <2> HIDE DEF a
  <2>3. QED
    BY Zenon, <2>1, <2>2 DEF DbColumn
<1> HIDE DEF K, U
<1>7. k \in [1..Len(db) -> DbColumn] /\ u \in [1..Len(db) -> DbColumn]
  BY Zenon, <1>1, <1>6
<1>8. /\ k \in Seq(DbColumn) /\ Len(k) = Len(db) /\ DOMAIN k = DOMAIN db
      /\ u \in Seq(DbColumn) /\ Len(u) = Len(db) /\ DOMAIN u = DOMAIN db
  BY <1>1, <1>7
<1>9. \A i \in DOMAIN db : k[i] = K(i) /\ u[i] = U(i)
  BY Zenon
<1> HIDE DEF k, u
<1>10. QED
  BY Zenon, <1>2, <1>3, <1>5, <1>6, <1>8, <1>9

-----------------------------------------------------------------------------
(* The invariants *)

DistinctNames(cols) == \A i, j \in DOMAIN cols : cols[i].name = cols[j].name => i = j

RegType ==
  /\ dialect \in Dialects
  /\ tables \in [Idents -> Tables \cup {NoTable}]
  /\ config \in [Handles -> Configs]
  /\ reg \in [Handles -> Registries]
  /\ \A h \in Handles : Len(reg[h].entries) <= reg[h].capacity
  /\ frame \in [Handles -> Frames \cup {Idle}]
  /\ \A h \in Handles : frame[h] # Idle =>
        /\ frame[h].next \in 1..(Len(frame[h].req.cols) + 1)
        /\ frame[h].pc = "alter" => frame[h].next <= Len(frame[h].req.cols)
        /\ frame[h].pc # "create" => tables[frame[h].req.name] # NoTable
  /\ answered \in [Handles -> SUBSET Requests]
  /\ restarts \in [Handles -> 0..MaxRestarts]

ItersType ==
  /\ DOMAIN iters = Handles
  /\ \A h \in Handles : IsFiniteSet(iters[h]) /\ Cardinality(iters[h]) <= MaxIters

\* The entries that stay when the call that is under way fails.
Settled(h) == IF frame[h] = Idle THEN Len(reg[h].entries) ELSE Len(reg[h].entries) - 1

\* While a struct is being registered its entry is the last one.
PendingInv ==
  \A h \in Handles :
     /\ DistinctNames(reg[h].entries)
     /\ frame[h] # Idle =>
          /\ reg[h].entries # << >>
          /\ reg[h].entries[Len(reg[h].entries)] = Schema(frame[h].req.name, frame[h].req.cols)
          /\ frame[h].req.cols # << >> /\ DistinctNames(frame[h].req.cols)

\* The settled entries are the structs the client was told are registered.
KeepInv ==
  \A h \in Handles :
     /\ {reg[h].entries[i] : i \in 1..Settled(h)} = {Schema(q.name, q.cols) : q \in answered[h]}
     /\ IsFiniteSet(answered[h]) /\ Cardinality(answered[h]) = Settled(h)

\* Iterators point to settled entries.
IterInv ==
  \A h \in Handles : \A it \in iters[h] :
     it.idx \in 1..Settled(h) /\ reg[h].entries[it.idx].name = it.name

\* The schema describes the first columns of its table, their keys if it was asked for
\* its own.
PrefixOf(cols, tc, own) ==
  /\ Len(cols) <= Len(tc)
  /\ \A j \in DOMAIN cols : Agrees(cols[j], tc[j]) /\ (own => AgreeKeys(cols[j], tc[j]))

Prefix(s) ==
  /\ tables[s.name] # NoTable
  /\ PrefixOf(s.cols, tables[s.name].cols, CatalogTable(s.name) = s.name)

PrefixInv == \A h \in Handles : \A i \in 1..Settled(h) : Prefix(reg[h].entries[i])

\* What a handle has read describes the first columns of the table as it is now: own, when
\* the keys it reads are those of the same table, and keys, when it has read them.
SnapshotOf(db_cols, tc, own, keys) ==
  /\ Len(db_cols) <= Len(tc)
  /\ \A i \in DOMAIN db_cols :
        /\ Described(tc[i], db_cols[i])
        /\ own /\ db_cols[i].unique => tc[i].unique
        /\ own /\ keys /\ db_cols[i].name # NoName => db_cols[i].pk = tc[i].pk

Snapshot(f) ==
  SnapshotOf(f.db_cols, tables[f.req.name].cols, CatalogTable(f.req.name) = f.req.name,
             f.pc # "keys")

\* The statements after the one that reads the columns.
ColumnsRead == {"keys", "uniques", "index_list", "index_info", "validate", "revalidate"}

SnapshotInv ==
  /\ \A n \in Idents : tables[n] # NoTable => DistinctNames(tables[n].cols)
  /\ \A h \in Handles :
        /\ frame[h].pc \in ColumnsRead => Snapshot(frame[h])
        /\ frame[h].pc = "index_info" => frame[h].idx \subseteq UniqueColumns(frame[h].req.name)

-----------------------------------------------------------------------------
(* What the steps do *)

\* migrate_table answers an error.
GivesUp(h) ==
  /\ frame[h] \in Frames
  /\ Fails(h)
  /\ UNCHANGED <<dialect, tables, config, iters, restarts>>

\* migrate_table goes on to pc with what it has read and the next column.
GoesOn(h, pc, d, n) ==
  /\ frame[h] \in Frames
  /\ frame' \in [Handles -> Frames \cup {Idle}]
  /\ \A k \in Handles \ {h} : frame'[k] = frame[k]
  /\ frame'[h] \in Frames
  /\ frame'[h].req = frame[h].req /\ frame'[h].pc = pc
  /\ frame'[h].db_cols = d /\ frame'[h].next = n
  /\ UNCHANGED <<dialect, config, reg, iters, answered, restarts>>

\* migrate_table answers OK: it has found every column of the struct and no other.
Completes(h) ==
  /\ frame[h] \in Frames /\ frame[h].pc \in {"validate", "revalidate"}
  /\ Len(frame[h].db_cols) = Len(frame[h].req.cols)
  /\ ~Differ(frame[h].req.cols, frame[h].db_cols)
  /\ Succeeds(h)
  /\ UNCHANGED <<dialect, tables, config, iters, restarts>>

\* migrate_table adds the next column.
Adds(h) ==
  LET f == frame[h]
      d == Recorded(Declare(f.req.cols[f.next]))
  IN  /\ f.pc = "alter"
      /\ CanAdd(tables[f.req.name], d)
      /\ tables' = [tables EXCEPT ![f.req.name].cols = Append(@, d)]
      /\ GoesOn(h, IF f.next = Len(f.req.cols) THEN "info" ELSE "alter", f.db_cols, f.next + 1)

\* A handle is idle or has a frame.
LEMMA IdleOrFrame ==
  ASSUME RegType, NEW h \in Handles
  PROVE  /\ frame[h].pc = "idle" <=> frame[h] = Idle
         /\ frame[h].pc # "idle" <=> frame[h] \in Frames
         /\ Idle \notin Frames /\ Idle.pc = "idle"
BY DEF RegType, Frames, Idle

\* A table is not the mark for no table.
LEMMA TableExists ==
  ASSUME NEW t \in Tables
  PROVE  t # NoTable
<1>1. \A u \in Types : type_to_sql_str(u) \in SqlTypes
  BY Zenon DEF type_to_sql_str, Types, SqlTypes
<1>2. TableCols \subseteq Declaration
  BY Zenon, <1>1 DEF TableCols, Declaration
<1>3. t.cols \in Seq(Declaration)
  BY <1>2 DEF Tables
<1>4. t \in [strict : BOOLEAN, rows : BOOLEAN, cols : Seq(Declaration)]
  BY Zenon, <1>3 DEF Tables
<1>5. QED
  BY Zenon, <1>4, RegistrationAssumption

\* A statement that fails ends the call.
LEMMA StatementFailsEffect ==
  ASSUME NEW h \in Handles, frame[h] \in Frames, StatementFails(h),
         UNCHANGED <<dialect, config, iters, restarts>>
  PROVE  GivesUp(h)
BY Zenon DEF StatementFails, GivesUp

\* CREATE TABLE takes the call on to reading the table back, or ends it.
LEMMA CreateEffect ==
  ASSUME RegType, NEW h \in Handles, CreateTable(h)
  PROVE  \/ GivesUp(h)
         \/ /\ frame[h].pc = "create"
            /\ GoesOn(h, "info", frame[h].db_cols, frame[h].next)
            /\ \/ UNCHANGED tables /\ tables[frame[h].req.name] # NoTable
               \/ /\ tables[frame[h].req.name] = NoTable
                  /\ tables' = [tables EXCEPT ![frame[h].req.name] = NewTable(frame[h].req.cols)]
<1>1. /\ frame[h] \in Frames /\ frame[h].pc = "create"
      /\ frame \in [Handles -> Frames \cup {Idle}]
      /\ UNCHANGED <<dialect, config, iters, restarts>>
  BY Zenon, IdleOrFrame DEF CreateTable, At, RegType
<1>2. CASE StatementFails(h)
  BY Zenon, <1>1, <1>2, StatementFailsEffect
<1>3. CASE Fails(h) /\ UNCHANGED tables
  BY Zenon, <1>1, <1>3 DEF GivesUp
<1>4. CASE /\ tables[frame[h].req.name] # NoTable
           /\ Goto(h, "info")
           /\ UNCHANGED <<tables, reg, answered>>
  <2>1. GoesOn(h, "info", frame[h].db_cols, frame[h].next)
    BY Zenon, <1>1, <1>4 DEF Goto, GoesOn, Frames
  <2>2. QED
    BY Zenon, <1>1, <1>4, <2>1
<1>5. CASE /\ tables[frame[h].req.name] = NoTable
           /\ tables' = [tables EXCEPT ![frame[h].req.name] = NewTable(frame[h].req.cols)]
           /\ frame' = [frame EXCEPT ![h].pc = "info", ![h].existed = FALSE]
           /\ UNCHANGED <<reg, answered>>
  <2>1. GoesOn(h, "info", frame[h].db_cols, frame[h].next)
    BY Zenon, <1>1, <1>5 DEF GoesOn, Frames
  <2>2. QED
    BY Zenon, <1>1, <1>5, <2>1
<1>6. QED
  BY Zenon, <1>2, <1>3, <1>4, <1>5 DEF CreateTable

\* Reading the columns of the table keeps a snapshot of them in the call, or ends it.
LEMMA ReadTableInfoEffect ==
  ASSUME RegType, NEW h \in Handles, ReadTableInfo(h)
  PROVE  \/ GivesUp(h)
         \/ /\ frame[h].pc = "info" /\ UNCHANGED tables
            /\ \E pc \in {"keys", "index_list"} :
                  /\ pc = "index_list" => dialect = "SQLITE"
                  /\ GoesOn(h, pc, read_table_info(frame[h].req.name), frame[h].next)
<1>1. /\ frame[h] \in Frames /\ frame[h].pc = "info"
      /\ frame \in [Handles -> Frames \cup {Idle}]
      /\ UNCHANGED <<dialect, config, iters, restarts>>
  BY Zenon, IdleOrFrame DEF ReadTableInfo, At, RegType
<1>2. CASE StatementFails(h)
  BY Zenon, <1>1, <1>2, StatementFailsEffect
<1> DEFINE d == read_table_info(frame[h].req.name)
           pc == IF dialect = "POSTGRES" THEN "keys" ELSE "index_list"
<1>3. CASE /\ frame' = [frame EXCEPT ![h].pc = pc, ![h].db_cols = d]
           /\ UNCHANGED <<tables, reg, answered>>
  <2>1. tables[frame[h].req.name] \in Tables \cup {NoTable}
    BY Zenon, <1>1, RequestsType DEF Frames, RegType
  <2>2. d \in Seq(DbColumn)
    BY Zenon, <2>1, TableInfoEffect
  <2>3. pc \in {"keys", "index_list"} /\ (pc = "index_list" => dialect = "SQLITE")
    BY Zenon DEF RegType, Dialects
  <2> HIDE DEF d, pc
  <2>4. GoesOn(h, pc, d, frame[h].next)
    BY Zenon, <1>1, <1>3, <2>2, <2>3 DEF GoesOn, Frames
  <2>5. QED
    BY Zenon, <1>1, <1>3, <2>3, <2>4 DEF d
<1>4. QED
  BY Zenon, <1>2, <1>3 DEF ReadTableInfo

\* Once the layout is read it is validated.
LEMMA CheckNext ==
  ASSUME NEW h \in Handles
  PROVE  Check(h) \in {"validate", "revalidate"} /\ Check(h) \in ColumnsRead
BY Zenon DEF Check, ColumnsRead

\* The key query marks the key columns of the table the catalog finds, or the call ends.
LEMMA ReadKeysEffect ==
  ASSUME RegType, NEW h \in Handles, ReadKeys(h)
  PROVE  \/ GivesUp(h)
         \/ /\ frame[h].pc = "keys" /\ UNCHANGED tables
            /\ GoesOn(h, "uniques",
                      MarkKeys(frame[h].db_cols, KeyColumns(CatalogTable(frame[h].req.name))),
                      frame[h].next)
<1>1. /\ frame[h] \in Frames /\ frame[h].pc = "keys"
      /\ frame \in [Handles -> Frames \cup {Idle}]
      /\ UNCHANGED <<dialect, tables, config, iters, restarts>>
  BY Zenon, IdleOrFrame DEF ReadKeys, At, RegType
<1> DEFINE d == MarkKeys(frame[h].db_cols, KeyColumns(CatalogTable(frame[h].req.name)))
<1>2. CASE StatementFails(h)
  BY Zenon, <1>1, <1>2, StatementFailsEffect
<1>3. CASE Fails(h)
  BY Zenon, <1>1, <1>3 DEF GivesUp
<1>4. CASE /\ frame' = [frame EXCEPT ![h].pc = "uniques", ![h].db_cols = d]
           /\ UNCHANGED <<reg, answered>>
  <2>1. d \in Seq(DbColumn)
    BY Zenon, <1>1, MarkEffect DEF Frames
  <2> HIDE DEF d
  <2>2. GoesOn(h, "uniques", d, frame[h].next)
    BY Zenon, <1>1, <1>4, <2>1 DEF GoesOn, Frames
  <2>3. QED
    BY Zenon, <1>1, <2>2 DEF d
<1>5. QED
  BY Zenon, <1>1, <1>2, <1>3, <1>4 DEF ReadKeys, Frames

\* So does the query for UNIQUE columns.
LEMMA ReadUniquesEffect ==
  ASSUME RegType, NEW h \in Handles, ReadUniques(h)
  PROVE  \/ GivesUp(h)
         \/ /\ frame[h].pc = "uniques" /\ UNCHANGED tables
            /\ GoesOn(h, Check(h),
                      MarkUniques(frame[h].db_cols, UniqueColumns(CatalogTable(frame[h].req.name))),
                      frame[h].next)
<1>1. /\ frame[h] \in Frames /\ frame[h].pc = "uniques"
      /\ frame \in [Handles -> Frames \cup {Idle}]
      /\ UNCHANGED <<dialect, tables, config, iters, restarts>>
  BY Zenon, IdleOrFrame DEF ReadUniques, At, RegType
<1> DEFINE d == MarkUniques(frame[h].db_cols, UniqueColumns(CatalogTable(frame[h].req.name)))
<1>2. CASE StatementFails(h)
  BY Zenon, <1>1, <1>2, StatementFailsEffect
<1>3. CASE /\ frame' = [frame EXCEPT ![h].pc = Check(h), ![h].db_cols = d]
           /\ UNCHANGED <<reg, answered>>
  <2>1. d \in Seq(DbColumn)
    BY Zenon, <1>1, MarkEffect DEF Frames
  <2> HIDE DEF d
  <2>2. GoesOn(h, Check(h), d, frame[h].next)
    BY Zenon, <1>1, <1>3, <2>1, CheckNext DEF GoesOn, Frames
  <2>3. QED
    BY Zenon, <1>1, <2>2 DEF d
<1>4. QED
  BY Zenon, <1>1, <1>2, <1>3 DEF ReadUniques, Frames

\* The UNIQUE columns of the table a call looks at.
LEMMA UniqueColumnsType ==
  ASSUME RegType, NEW h \in Handles, frame[h] \in Frames, frame[h].pc # "create"
  PROVE  UniqueColumns(frame[h].req.name) \subseteq Idents
<1> DEFINE n == frame[h].req.name
<1>1. n \in Idents /\ frame[h] # Idle
  BY Zenon, RequestsType, IdleOrFrame DEF Frames
<1>2. tables[n] \in Tables
  BY Zenon, <1>1 DEF RegType
<1>3. \A j \in DOMAIN tables[n].cols : tables[n].cols[j].name \in Idents
  <2>1. \A j \in DOMAIN tables[n].cols : tables[n].cols[j] \in TableCols
    BY <1>2 DEF Tables
  <2>2. QED
    BY Zenon, <2>1 DEF TableCols
<1> HIDE DEF n
<1>4. UniqueColumns(n) \subseteq Idents
  BY Zenon, <1>3 DEF UniqueColumns
<1>5. QED
  BY Zenon, <1>4 DEF n

\* PRAGMA index_list leaves the UNIQUE columns, or some of them, to be looked at.
LEMMA ReadIndexListEffect ==
  ASSUME RegType, NEW h \in Handles, ReadIndexList(h)
  PROVE  \/ GivesUp(h)
         \/ /\ frame[h].pc = "index_list" /\ UNCHANGED tables
            /\ frame'[h].idx \subseteq UniqueColumns(frame[h].req.name)
            /\ \E pc \in {"index_info", "validate", "revalidate"} :
                  GoesOn(h, pc, frame[h].db_cols, frame[h].next)
<1>1. /\ frame[h] \in Frames /\ frame[h].pc = "index_list"
      /\ frame \in [Handles -> Frames \cup {Idle}]
      /\ UNCHANGED <<dialect, tables, config, iters, restarts>>
  BY Zenon, IdleOrFrame DEF ReadIndexList, At, RegType
<1> DEFINE u == UniqueColumns(frame[h].req.name)
           x == IF IndexSeen(frame[h].req.name) THEN u ELSE {}
           pc == IF x = {} THEN Check(h) ELSE "index_info"
<1>2. CASE StatementFails(h)
  BY Zenon, <1>1, <1>2, StatementFailsEffect
<1>3. CASE /\ frame' = [frame EXCEPT ![h].pc = pc, ![h].idx = x]
           /\ UNCHANGED <<reg, answered>>
  <2>1. x \subseteq u /\ x \in SUBSET Idents
    <3>1. u \subseteq Idents
      BY Zenon, <1>1, UniqueColumnsType
    <3> HIDE DEF u
    <3>2. QED
      BY Zenon, <3>1
  <2>2. pc \in {"index_info", "validate", "revalidate"}
    BY Zenon, CheckNext
  <2> HIDE DEF x, pc, u
  <2>3. GoesOn(h, pc, frame[h].db_cols, frame[h].next) /\ frame'[h].idx = x
    BY Zenon, <1>1, <1>3, <2>1, <2>2 DEF GoesOn, Frames
  <2>4. QED
    BY Zenon, <1>1, <2>1, <2>2, <2>3 DEF u
<1>4. QED
  BY Zenon, <1>2, <1>3 DEF ReadIndexList

\* PRAGMA index_info marks the column of one of them.
LEMMA ReadIndexInfoEffect ==
  ASSUME RegType, NEW h \in Handles, ReadIndexInfo(h)
  PROVE  \/ GivesUp(h)
         \/ /\ frame[h].pc = "index_info" /\ UNCHANGED tables
            /\ frame'[h].idx \subseteq frame[h].idx
            /\ \E pc \in {"index_info", "validate", "revalidate"} : \E col \in frame[h].idx :
                  GoesOn(h, pc, MarkUniques(frame[h].db_cols, {col}), frame[h].next)
<1>1. /\ frame[h] \in Frames /\ frame[h].pc = "index_info"
      /\ frame \in [Handles -> Frames \cup {Idle}]
      /\ UNCHANGED <<dialect, tables, config, iters, restarts>>
  BY Zenon, IdleOrFrame DEF ReadIndexInfo, At, RegType
<1>2. CASE StatementFails(h)
  BY Zenon, <1>1, <1>2, StatementFailsEffect
<1>3. ASSUME NEW col \in frame[h].idx,
             /\ frame' = [frame EXCEPT
                            ![h].pc = IF frame[h].idx \ {col} = {} THEN Check(h) ELSE "index_info",
                            ![h].idx = frame[h].idx \ {col},
                            ![h].db_cols = MarkUniques(frame[h].db_cols, {col})]
             /\ UNCHANGED <<reg, answered>>
      PROVE  /\ frame'[h].idx \subseteq frame[h].idx
             /\ \E pc \in {"index_info", "validate", "revalidate"} :
                   GoesOn(h, pc, MarkUniques(frame[h].db_cols, {col}), frame[h].next)
  <2> DEFINE d == MarkUniques(frame[h].db_cols, {col})
             x == frame[h].idx \ {col}
             pc == IF x = {} THEN Check(h) ELSE "index_info"
  <2>1. d \in Seq(DbColumn)
    BY Zenon, <1>1, MarkEffect DEF Frames
  <2>2. x \subseteq frame[h].idx /\ x \in SUBSET Idents
    BY Zenon, <1>1 DEF Frames
  <2>3. pc \in {"index_info", "validate", "revalidate"}
    BY Zenon, CheckNext
  <2>4. frame' = [frame EXCEPT ![h].pc = pc, ![h].idx = x, ![h].db_cols = d]
    BY Zenon, <1>3
  <2> HIDE DEF d, x, pc
  <2>5. GoesOn(h, pc, d, frame[h].next) /\ frame'[h].idx = x
    <3> DEFINE g == [frame[h] EXCEPT !.pc = pc, !.idx = x, !.db_cols = d]
    <3>1. frame' = [frame EXCEPT ![h] = g]
      BY Zenon, <1>1, <2>4
    <3>2. /\ g \in Frames /\ g.pc = pc /\ g.idx = x /\ g.db_cols = d
          /\ g.req = frame[h].req /\ g.next = frame[h].next
      BY Zenon, <1>1, <2>1, <2>2, <2>3 DEF Frames
    <3> HIDE DEF g
    <3>3. /\ frame' \in [Handles -> Frames \cup {Idle}] /\ frame'[h] = g
          /\ \A k \in Handles \ {h} : frame'[k] = frame[k]
      BY Zenon, <1>1, <3>1, <3>2
    <3>4. QED
      BY Zenon, <1>1, <1>3, <3>2, <3>3 DEF GoesOn
  <2>6. QED
    BY Zenon, <2>2, <2>3, <2>5 DEF d
<1>4. CASE \E col \in frame[h].idx :
             /\ frame' = [frame EXCEPT
                            ![h].pc = IF frame[h].idx \ {col} = {} THEN Check(h) ELSE "index_info",
                            ![h].idx = frame[h].idx \ {col},
                            ![h].db_cols = MarkUniques(frame[h].db_cols, {col})]
             /\ UNCHANGED <<reg, answered>>
  <2>1. PICK col \in frame[h].idx :
          /\ frame' = [frame EXCEPT
                         ![h].pc = IF frame[h].idx \ {col} = {} THEN Check(h) ELSE "index_info",
                         ![h].idx = frame[h].idx \ {col},
                         ![h].db_cols = MarkUniques(frame[h].db_cols, {col})]
          /\ UNCHANGED <<reg, answered>>
    BY Zenon, <1>4
  <2>2. /\ frame'[h].idx \subseteq frame[h].idx
        /\ \E pc \in {"index_info", "validate", "revalidate"} :
              GoesOn(h, pc, MarkUniques(frame[h].db_cols, {col}), frame[h].next)
    BY Zenon, <1>3, <2>1
  <2>3. QED
    BY Zenon, <1>1, <2>2
<1>5. QED
  BY Zenon, <1>1, <1>2, <1>4 DEF ReadIndexInfo

\* What the statements that read the table have in common.
LEMMA ReadEffect ==
  ASSUME RegType, NEW h \in Handles,
         \/ ReadTableInfo(h) \/ ReadKeys(h) \/ ReadUniques(h)
         \/ ReadIndexList(h) \/ ReadIndexInfo(h)
  PROVE  \/ GivesUp(h)
         \/ /\ frame[h].pc # "create" /\ UNCHANGED tables
            /\ \E pc \in ColumnsRead : \E d : GoesOn(h, pc, d, frame[h].next)
<1>1. CASE ReadTableInfo(h)
  BY Zenon, <1>1, ReadTableInfoEffect DEF ColumnsRead
<1>2. CASE ReadKeys(h)
  BY Zenon, <1>2, ReadKeysEffect DEF ColumnsRead
<1>3. CASE ReadUniques(h)
  BY Zenon, <1>3, ReadUniquesEffect, CheckNext
<1>4. CASE ReadIndexList(h)
  BY Zenon, <1>4, ReadIndexListEffect DEF ColumnsRead
<1>5. CASE ReadIndexInfo(h)
  BY Zenon, <1>5, ReadIndexInfoEffect DEF ColumnsRead
<1>6. QED
  BY Zenon, <1>1, <1>2, <1>3, <1>4, <1>5

\* Validation completes the call, goes on to a column to add, or ends the call.
LEMMA ValidateEffect ==
  ASSUME RegType, NEW h \in Handles, Validate(h)
  PROVE  \/ GivesUp(h)
         \/ Completes(h)
         \/ /\ frame[h].pc = "validate" /\ UNCHANGED tables
            /\ Len(frame[h].db_cols) < Len(frame[h].req.cols)
            /\ GoesOn(h, "alter", frame[h].db_cols, Len(frame[h].db_cols) + 1)
<1>1. /\ frame[h] \in Frames /\ frame[h].pc = "validate"
      /\ frame \in [Handles -> Frames \cup {Idle}]
      /\ UNCHANGED <<dialect, tables, config, iters, restarts>>
  BY Zenon, IdleOrFrame DEF Validate, At, RegType
<1> DEFINE f == frame[h]
           v(s) == Refused(f.req.cols, f.db_cols, s, config[h])
<1>2. PICK s \in check_strict(f.req.name) :
        IF v(s) THEN Fails(h)
        ELSE IF Len(f.db_cols) = Len(f.req.cols) THEN Succeeds(h)
        ELSE /\ frame' = [frame EXCEPT ![h].pc = "alter", ![h].next = Len(f.db_cols) + 1]
             /\ UNCHANGED <<reg, answered>>
  BY Zenon DEF Validate
<1>4. ~v(s) => Len(f.db_cols) <= Len(f.req.cols) /\ ~Differ(f.req.cols, f.db_cols)
  <2>1. Len(f.db_cols) \in Nat /\ Len(f.req.cols) \in Nat
    BY <1>1, RequestsType DEF Frames
  <2>2. QED
    BY <2>1 DEF Refused
<1> HIDE DEF v
<1>5. CASE v(s)
  BY Zenon, <1>1, <1>2, <1>5 DEF GivesUp
<1>6. CASE ~v(s) /\ Len(f.db_cols) = Len(f.req.cols)
  BY Zenon, <1>1, <1>2, <1>4, <1>6 DEF Completes
<1>7. CASE ~v(s) /\ Len(f.db_cols) # Len(f.req.cols)
  <2>1. Len(f.db_cols) \in Nat /\ Len(f.req.cols) \in Nat
    BY <1>1, RequestsType DEF Frames
  <2>2. UNCHANGED <<reg, answered>>
    BY Zenon, <1>2, <1>7
  <2> DEFINE n == Len(f.db_cols) + 1
  <2>3. n \in Nat
    BY <2>1
  <2>4. frame' = [frame EXCEPT ![h].pc = "alter", ![h].next = n]
    BY Zenon, <1>2, <1>7
  <2> HIDE DEF n
  <2>5. GoesOn(h, "alter", f.db_cols, n)
    BY Zenon, <1>1, <2>2, <2>3, <2>4 DEF GoesOn, Frames
  <2>6. QED
    BY <1>1, <1>4, <1>7, <2>1, <2>5 DEF n
<1>8. QED
  BY Zenon, <1>5, <1>6, <1>7

\* ALTER TABLE ADD COLUMN adds the next column of the struct, or ends the call.
LEMMA AlterEffect ==
  ASSUME RegType, NEW h \in Handles, AlterAdd(h)
  PROVE  GivesUp(h) \/ Adds(h)
<1>1. /\ frame[h] \in Frames /\ frame[h].pc = "alter"
      /\ frame \in [Handles -> Frames \cup {Idle}]
      /\ UNCHANGED <<dialect, config, iters, restarts>>
  BY Zenon, IdleOrFrame DEF AlterAdd, At, RegType
<1> DEFINE f == frame[h]
           d == Recorded(Declare(f.req.cols[f.next]))
           pc == IF f.next = Len(f.req.cols) THEN "info" ELSE "alter"
<1>2. CASE StatementFails(h)
  BY Zenon, <1>1, <1>2, StatementFailsEffect
<1>3. CASE Fails(h) /\ UNCHANGED tables
  BY Zenon, <1>1, <1>3 DEF GivesUp
<1>4. CASE /\ CanAdd(tables[f.req.name], d)
           /\ tables' = [tables EXCEPT ![f.req.name].cols = Append(@, d)]
           /\ frame' = [frame EXCEPT ![h].next = @ + 1, ![h].pc = pc]
           /\ UNCHANGED <<reg, answered>>
  <2>1. pc \in {"info", "alter"} /\ f.next + 1 \in Nat
    BY <1>1 DEF Frames
  <2> DEFINE n == f.next + 1
  <2>2. frame' = [frame EXCEPT ![h].next = n, ![h].pc = pc] /\ UNCHANGED <<reg, answered>>
    BY Zenon, <1>4
  <2> HIDE DEF pc, n
  <2>3. GoesOn(h, pc, f.db_cols, n)
    BY Zenon, <1>1, <2>1, <2>2 DEF GoesOn, Frames, n
  <2>4. QED
    BY Zenon, <1>1, <1>4, <2>3 DEF Adds, pc, n
<1>5. QED
  BY Zenon, <1>2, <1>3, <1>4 DEF AlterAdd

\* The second validation completes the call or ends it.
LEMMA RevalidateEffect ==
  ASSUME RegType, NEW h \in Handles, Revalidate(h)
  PROVE  GivesUp(h) \/ Completes(h)
<1>1. /\ frame[h] \in Frames /\ frame[h].pc = "revalidate"
      /\ UNCHANGED <<dialect, tables, config, iters, restarts>>
  BY Zenon, IdleOrFrame DEF Revalidate, At, RegType
<1>2. CASE Fails(h)
  BY Zenon, <1>1, <1>2 DEF GivesUp
<1>3. CASE /\ Len(frame[h].db_cols) = Len(frame[h].req.cols)
           /\ ~Differ(frame[h].req.cols, frame[h].db_cols)
           /\ Succeeds(h)
  BY Zenon, <1>1, <1>3 DEF Completes
<1>4. QED
  BY Zenon, <1>2, <1>3 DEF Revalidate

-----------------------------------------------------------------------------
(* The tables *)

\* Tables stay, their columns stay where they are and new ones come behind them.
TablesGrow ==
  /\ UNCHANGED dialect
  /\ tables' \in [Idents -> Tables \cup {NoTable}]
  /\ \A n \in Idents : tables[n] # NoTable =>
        /\ tables'[n] # NoTable
        /\ Len(tables[n].cols) <= Len(tables'[n].cols)
        /\ \A i \in DOMAIN tables[n].cols : tables'[n].cols[i] = tables[n].cols[i]
  /\ \A n \in Idents : tables'[n] # NoTable => DistinctNames(tables'[n].cols)

\* The columns of a table are a sequence.
LEMMA ColsType ==
  ASSUME NEW t \in Tables
  PROVE  /\ t.cols \in Seq(TableCols) /\ Len(t.cols) \in Nat \ {0}
         /\ DOMAIN t.cols = 1..Len(t.cols)
BY DEF Tables

\* Most statements leave the tables alone.
LEMMA SameTablesGrow ==
  ASSUME RegType, SnapshotInv, UNCHANGED <<dialect, tables>>
  PROVE  TablesGrow
<1>1. ASSUME NEW n \in Idents, tables[n] # NoTable
      PROVE  Len(tables[n].cols) \in Nat
  BY Zenon, <1>1, ColsType DEF RegType
<1>2. QED
  BY <1>1 DEF TablesGrow, RegType, SnapshotInv

\* CREATE TABLE adds a table.
LEMMA CreateGrows ==
  ASSUME RegType, SnapshotInv, UNCHANGED dialect,
         NEW q \in Requests, q.cols # << >>, DistinctNames(q.cols),
         tables[q.name] = NoTable, tables' = [tables EXCEPT ![q.name] = NewTable(q.cols)]
  PROVE  TablesGrow /\ tables'[q.name] # NoTable
<1> DEFINE t == NewTable(q.cols)
<1>1. q.name \in Idents /\ q.cols \in Seq(ColumnDef)
  BY Zenon, RequestsType
<1>2. t \in Tables /\ Len(t.cols) = Len(q.cols) /\ \A i \in DOMAIN q.cols : t.cols[i].name = q.cols[i].name
  BY Zenon, <1>1, NewTableType
<1> HIDE DEF t
<1>3. DOMAIN t.cols = DOMAIN q.cols
  BY <1>1, <1>2, ColsType
<1>4. DistinctNames(t.cols)
  BY Zenon, <1>2, <1>3 DEF DistinctNames
<1>5. t # NoTable
  BY Zenon, <1>2, TableExists
<1>6. tables' = [tables EXCEPT ![q.name] = t]
  BY Zenon DEF t
<1>7. ASSUME NEW n \in Idents, tables[n] # NoTable
      PROVE  Len(tables[n].cols) \in Nat
  BY Zenon, <1>7, ColsType DEF RegType
<1>8. tables \in [Idents -> Tables \cup {NoTable}]
  BY Zenon DEF RegType
<1>9. \A n \in Idents : tables[n] # NoTable => DistinctNames(tables[n].cols)
  BY Zenon DEF SnapshotInv
<1>10. \A n \in Idents : tables'[n] = IF n = q.name THEN t ELSE tables[n]
  BY Zenon, <1>6, <1>8
<1>11. tables' \in [Idents -> Tables \cup {NoTable}]
  BY Zenon, <1>2, <1>6, <1>8
<1>12. QED
  BY <1>1, <1>4, <1>5, <1>7, <1>9, <1>10, <1>11 DEF TablesGrow

\* ADD COLUMN appends a column with a name of its own.
LEMMA AddGrows ==
  ASSUME RegType, SnapshotInv, UNCHANGED dialect,
         NEW n \in Idents, tables[n] # NoTable, NEW d \in TableCols, CanAdd(tables[n], d)
  PROVE  tables' = [tables EXCEPT ![n].cols = Append(@, d)] => TablesGrow
<1>0. SUFFICES ASSUME tables' = [tables EXCEPT ![n].cols = Append(@, d)]
               PROVE  TablesGrow
  OBVIOUS
<1>1. tables \in [Idents -> Tables \cup {NoTable}] /\ tables[n] \in Tables
  BY Zenon DEF RegType
<1> DEFINE tc == tables[n].cols
           nc == Append(tc, d)
<1>2. tc \in Seq(TableCols) /\ Len(tc) \in Nat \ {0} /\ DOMAIN tc = 1..Len(tc)
  BY Zenon, <1>1, ColsType
<1>3. /\ nc \in Seq(TableCols) \ {<< >>} /\ Len(nc) = Len(tc) + 1 /\ DOMAIN nc = 1..(Len(tc) + 1)
      /\ \A i \in DOMAIN tc : nc[i] = tc[i]
      /\ nc[Len(tc) + 1] = d
  BY <1>2
<1>4. DistinctNames(nc)
  <2>1. DistinctNames(tc)
    BY Zenon DEF SnapshotInv
  <2>2. \A i \in DOMAIN tc : tc[i].name # d.name
    BY Zenon DEF CanAdd
  <2> HIDE DEF tc, nc
  <2>3. QED
    BY <1>2, <1>3, <2>1, <2>2 DEF DistinctNames
<1>5. tables' = [tables EXCEPT ![n] = [tables[n] EXCEPT !.cols = nc]]
  BY Zenon, <1>0, <1>1
<1> DEFINE t == [tables[n] EXCEPT !.cols = nc]
<1> HIDE DEF nc
<1>6. t \in Tables /\ t.cols = nc
  BY Zenon, <1>1, <1>3 DEF Tables
<1>7. t # NoTable
  BY Zenon, <1>6, TableExists
<1> HIDE DEF t
<1>8. \A m \in Idents : tables'[m] = IF m = n THEN t ELSE tables[m]
  BY Zenon, <1>1, <1>5 DEF t
<1>9. tables' \in [Idents -> Tables \cup {NoTable}]
  BY Zenon, <1>1, <1>5, <1>6 DEF t
<1>10. ASSUME NEW m \in Idents, tables[m] # NoTable
       PROVE  Len(tables[m].cols) \in Nat
  BY Zenon, <1>10, <1>1, ColsType
<1>11. \A m \in Idents : tables[m] # NoTable => DistinctNames(tables[m].cols)
  BY Zenon DEF SnapshotInv
<1>12. ASSUME NEW m \in Idents, tables[m] # NoTable
      PROVE  /\ tables'[m] # NoTable
             /\ Len(tables[m].cols) <= Len(tables'[m].cols)
             /\ \A i \in DOMAIN tables[m].cols : tables'[m].cols[i] = tables[m].cols[i]
  <2>1. CASE m = n
    <3>1. tables'[m] = t /\ tables[m].cols = tc
      BY Zenon, <1>8, <2>1
    <3>2. tables'[m].cols = nc
      BY Zenon, <1>6, <3>1
    <3> HIDE DEF tc
    <3>3. QED
      BY <1>2, <1>3, <1>7, <3>1, <3>2
  <2>2. CASE m # n
    BY <1>12, <2>2, <1>8, <1>10
  <2>3. QED
    BY Zenon, <2>1, <2>2
<1>13. \A m \in Idents : tables'[m] # NoTable => DistinctNames(tables'[m].cols)
  BY Zenon, <1>4, <1>6, <1>8, <1>11
<1>14. QED
  BY Zenon, <1>9, <1>12, <1>13 DEF TablesGrow

\* A row changes no column.
LEMMA WriteGrows ==
  ASSUME RegType, SnapshotInv, UNCHANGED dialect,
         NEW n \in Idents, tables[n] # NoTable
  PROVE  tables' = [tables EXCEPT ![n].rows = TRUE] => TablesGrow
<1>0. SUFFICES ASSUME tables' = [tables EXCEPT ![n].rows = TRUE]
               PROVE  TablesGrow
  OBVIOUS
<1>1. tables \in [Idents -> Tables \cup {NoTable}] /\ tables[n] \in Tables
  BY Zenon DEF RegType
<1> DEFINE t == [tables[n] EXCEPT !.rows = TRUE]
<1>2. t \in Tables /\ t.cols = tables[n].cols
  BY Zenon, <1>1 DEF Tables
<1>3. t # NoTable
  BY Zenon, <1>2, TableExists
<1>4. tables' = [tables EXCEPT ![n] = t]
  BY Zenon, <1>0, <1>1
<1> HIDE DEF t
<1>5. \A m \in Idents : tables'[m] = IF m = n THEN t ELSE tables[m]
  BY Zenon, <1>1, <1>4
<1>6. tables' \in [Idents -> Tables \cup {NoTable}]
  BY Zenon, <1>1, <1>2, <1>4
<1>7. ASSUME NEW m \in Idents, tables[m] # NoTable
      PROVE  Len(tables[m].cols) \in Nat
  BY Zenon, <1>7, <1>1, ColsType
<1>8. \A m \in Idents : tables[m] # NoTable => DistinctNames(tables[m].cols)
  BY Zenon DEF SnapshotInv
<1>9. ASSUME NEW m \in Idents, tables[m] # NoTable
      PROVE  /\ tables'[m] # NoTable
             /\ Len(tables[m].cols) <= Len(tables'[m].cols)
             /\ \A i \in DOMAIN tables[m].cols : tables'[m].cols[i] = tables[m].cols[i]
  <2>1. CASE m = n
    <3>1. tables'[m] = t
      BY Zenon, <1>5, <2>1
    <3>2. tables'[m].cols = tables[m].cols
      BY Zenon, <1>2, <2>1, <3>1
    <3>3. QED
      BY <1>3, <1>7, <1>9, <3>1, <3>2
  <2>2. CASE m # n
    BY <1>9, <2>2, <1>5, <1>7
  <2>3. QED
    BY Zenon, <2>1, <2>2
<1>10. \A m \in Idents : tables'[m] # NoTable => DistinctNames(tables'[m].cols)
  BY Zenon, <1>2, <1>5, <1>8
<1>11. QED
  BY Zenon, <1>6, <1>9, <1>10 DEF TablesGrow

-----------------------------------------------------------------------------
(* The registry of a handle *)

\* A non-empty set of numbers has a least one.
LEMMA MinOfSet ==
  ASSUME NEW T \in SUBSET Nat, T # {}
  PROVE  Min(T) \in T
<1> DEFINE R == OpToRel(<, Nat)
<1>1. PICK x \in T : \A y \in T : ~(<<y, x>> \in R)
  BY Zenon, NatLessThanWellFounded, WFMin, Zenon
<1>2. \A y \in T : <<y, x>> \in R <=> y < x
  BY Zenon DEF OpToRel
<1> HIDE DEF R
<1>3. \A y \in T : ~(y < x)
  BY Zenon, <1>1, <1>2, Zenon
<1>4. \A y \in T : x <= y
  BY <1>3
<1>5. QED
  BY Zenon, <1>4, Zenon DEF Min

\* schema_register accepts columns with names of their own and a name it does not have.
LEMMA AcceptedRequest ==
  ASSUME NEW r, NEW q \in Requests, RegisterError(r, q.name, q.cols) = OK
  PROVE  q.cols # << >> /\ DistinctNames(q.cols) /\ q.name \notin Names(r)
<1> DEFINE wrong == {i \in DOMAIN q.cols : ColumnError(q.cols, i) # OK}
<1>1. q.cols \in Seq(ColumnDef) /\ DOMAIN q.cols = 1..Len(q.cols) /\ Len(q.cols) \in Nat
  BY RequestsType
<1>2. q.cols # << >> /\ q.name \notin Names(r)
  BY Zenon DEF RegisterError, OK, INVALID_ARG, TOO_MANY_COLUMNS, INVALID_NAME, DUPLICATE_SCHEMA
<1>3. wrong = {}
  <2>1. SUFFICES ASSUME wrong # {} PROVE FALSE
    OBVIOUS
  <2>2. RegisterError(r, q.name, q.cols) = ColumnError(q.cols, Min(wrong))
    BY Zenon, <2>1, <1>2
       DEF RegisterError, OK, INVALID_ARG, TOO_MANY_COLUMNS, INVALID_NAME, DUPLICATE_SCHEMA
  <2>3. Min(wrong) \in wrong
    <3>1. wrong \in SUBSET Nat
      BY <1>1
    <3> HIDE DEF wrong
    <3>2. QED
      BY Zenon, <2>1, <3>1, MinOfSet
  <2>4. QED
    BY Zenon, <2>2, <2>3
<1>4. ASSUME NEW i \in DOMAIN q.cols, NEW j \in 1..(i-1)
      PROVE  q.cols[j].name # q.cols[i].name
  <2>1. ColumnError(q.cols, i) = OK
    BY Zenon, <1>3
  <2>2. QED
    BY Zenon, <2>1 DEF ColumnError, OK, INVALID_NAME, DUPLICATE_COLUMN
<1>5. QED
  BY <1>1, <1>2, <1>4 DEF DistinctNames

\* A failed registration takes the last entry back, and only that.
LEMMA GivesUpEffect ==
  ASSUME RegType, PendingInv, NEW h \in Handles, GivesUp(h)
  PROVE  /\ reg' \in [Handles -> Registries]
         /\ \A k \in Handles : Len(reg'[k].entries) <= reg'[k].capacity
         /\ \A k \in Handles \ {h} : reg'[k] = reg[k] /\ frame'[k] = frame[k]
         /\ frame' \in [Handles -> Frames \cup {Idle}] /\ frame'[h] = Idle
         /\ reg'[h].entries = SubSeq(reg[h].entries, 1, Len(reg[h].entries) - 1)
         /\ answered' = answered
<1>1. Fails(h)
  BY Zenon DEF GivesUp
<1>2. /\ frame[h] \in Frames /\ frame[h] # Idle /\ reg \in [Handles -> Registries]
      /\ reg[h] \in Registries
      /\ frame \in [Handles -> Frames \cup {Idle}]
      /\ \A k \in Handles : Len(reg[k].entries) <= reg[k].capacity
  BY Zenon, IdleOrFrame DEF GivesUp, RegType
<1> DEFINE e == reg[h].entries
           u == schema_unregister(reg[h], frame[h].req.name)
<1>3. e \in Seq(Schemas) /\ Len(e) \in Nat /\ e # << >> /\ Len(e) # 0 /\ reg[h].capacity \in Nat
  BY <1>2 DEF PendingInv, Registries
<1>4. e[Len(e)].name = frame[h].req.name
  <2>1. e[Len(e)] = Schema(frame[h].req.name, frame[h].req.cols)
    BY Zenon, <1>2 DEF PendingInv
  <2>2. QED
    BY <2>1 DEF Schema
<1>5. u \in Registries /\ u.capacity = reg[h].capacity /\ u.entries = SubSeq(e, 1, Len(e) - 1)
  BY Zenon, <1>2, <1>3, <1>4, UnregisterLast DEF PendingInv, DistinctNames
<1>6. Len(u.entries) <= u.capacity
  BY <1>2, <1>3, <1>5
<1>7. reg' = [reg EXCEPT ![h] = u]
  BY Zenon, <1>1, <1>2 DEF Fails
<1> HIDE DEF u
<1>8. reg' \in [Handles -> Registries] /\ reg'[h] = u /\ \A k \in Handles \ {h} : reg'[k] = reg[k]
  BY Zenon, <1>2, <1>5, <1>7
<1>9. \A k \in Handles : Len(reg'[k].entries) <= reg'[k].capacity
  BY Zenon, <1>2, <1>6, <1>8
<1>10. /\ frame' \in [Handles -> Frames \cup {Idle}] /\ frame'[h] = Idle
       /\ \A k \in Handles \ {h} : frame'[k] = frame[k]
       /\ answered' = answered
  BY Zenon, <1>1, <1>2 DEF Fails
<1>11. QED
  BY Zenon, <1>5, <1>8, <1>9, <1>10

\* schema_register refuses the request; the array may have grown.
Refuses(h) ==
  /\ frame[h] = Idle
  /\ reg' \in [Handles -> Registries]
  /\ \A k \in Handles : Len(reg'[k].entries) <= reg'[k].capacity /\ reg'[k].entries = reg[k].entries
  /\ UNCHANGED <<dialect, tables, config, frame, iters, answered, restarts>>

\* schema_register appends the entry of q and migrate_table begins.
Begins(h, q) ==
  /\ frame[h] = Idle
  /\ q.cols # << >> /\ DistinctNames(q.cols) /\ q.name \notin Names(reg[h])
  /\ reg' \in [Handles -> Registries]
  /\ \A k \in Handles : Len(reg'[k].entries) <= reg'[k].capacity
  /\ \A k \in Handles \ {h} : reg'[k] = reg[k] /\ frame'[k] = frame[k]
  /\ reg'[h].entries = Append(reg[h].entries, Schema(q.name, q.cols))
  /\ frame' \in [Handles -> Frames \cup {Idle}]
  /\ frame'[h] \in Frames /\ frame'[h].pc = "create"
  /\ frame'[h].req = q /\ frame'[h].next = 1
  /\ UNCHANGED <<dialect, tables, config, iters, answered, restarts>>

\* SqlRDBRegisterStruct refuses, or adds the entry at the end of the registry and begins.
LEMMA RegisterStructEffect ==
  ASSUME RegType, NEW h \in Handles, SqlRDBRegisterStruct(h)
  PROVE  Refuses(h) \/ \E q \in Requests : Begins(h, q)
<1>1. /\ frame[h] = Idle /\ reg \in [Handles -> Registries]
      /\ reg[h] \in Registries
      /\ frame \in [Handles -> Frames \cup {Idle}]
      /\ \A k \in Handles : Len(reg[k].entries) <= reg[k].capacity
      /\ UNCHANGED <<dialect, tables, config, iters, answered, restarts>>
  BY Zenon, IdleOrFrame DEF SqlRDBRegisterStruct, At, RegType
<1> DEFINE Taken(q, o) ==
        /\ reg' = [reg EXCEPT ![h] = o.reg]
        /\ frame' = IF o.r # OK THEN frame
                    ELSE [frame EXCEPT ![h] =
                            [pc |-> "create", req |-> q, db_cols |-> << >>, idx |-> {}, next |-> 1,
                             existed |-> TRUE]]
<1>a. PICK q \in Requests : \E o \in schema_register(reg[h], q.name, q.cols) : Taken(q, o)
  <2>1. config[h].structs \subseteq Requests
    BY Zenon, RequestsType DEF RegType
  <2>2. \E q \in config[h].structs : \E o \in schema_register(reg[h], q.name, q.cols) : Taken(q, o)
    BY Zenon DEF SqlRDBRegisterStruct
  <2> HIDE DEF Taken
  <2>3. QED
    BY Zenon, <2>1, <2>2
<1>2. PICK o \in schema_register(reg[h], q.name, q.cols) : Taken(q, o)
  BY Zenon, <1>a
<1> DEFINE g == o.reg
<1>3. /\ g \in Registries /\ Len(g.entries) <= g.capacity
      /\ o.r # OK => g.entries = reg[h].entries
      /\ o.r = OK => /\ g.entries = Append(reg[h].entries, Schema(q.name, q.cols))
                     /\ RegisterError(reg[h], q.name, q.cols) = OK
  BY Zenon, <1>1, RegisterEffect
<1>4. reg' = [reg EXCEPT ![h] = g]
  BY Zenon, <1>2
<1> HIDE DEF g
<1>5. reg' \in [Handles -> Registries] /\ reg'[h] = g /\ \A k \in Handles \ {h} : reg'[k] = reg[k]
  BY Zenon, <1>1, <1>3, <1>4
<1>6. \A k \in Handles : Len(reg'[k].entries) <= reg'[k].capacity
  BY Zenon, <1>1, <1>3, <1>5
<1>7. CASE o.r # OK
  <2>2. UNCHANGED frame
    BY Zenon, <1>2, <1>7
  <2>3. \A k \in Handles : reg'[k].entries = reg[k].entries
    BY Zenon, <1>3, <1>5, <1>7
  <2>4. QED
    BY Zenon, <1>1, <1>5, <1>6, <2>2, <2>3 DEF Refuses
<1>8. CASE o.r = OK
  <2> DEFINE f == [pc |-> "create", req |-> q, db_cols |-> << >>, idx |-> {}, next |-> 1,
                  existed |-> TRUE]
  <2>1. << >> \in Seq(DbColumn)
    OBVIOUS
  <2>2. f \in Frames /\ f.pc = "create" /\ f.req = q /\ f.next = 1
    BY Zenon, <2>1 DEF Frames
  <2>3. frame' = [frame EXCEPT ![h] = f]
    BY Zenon, <1>2, <1>8
  <2> HIDE DEF f
  <2>4. /\ frame' \in [Handles -> Frames \cup {Idle}] /\ frame'[h] = f
        /\ \A k \in Handles \ {h} : frame'[k] = frame[k]
    BY Zenon, <1>1, <2>2, <2>3
  <2>5. q.cols # << >> /\ DistinctNames(q.cols) /\ q.name \notin Names(reg[h])
    BY Zenon, <1>3, <1>8, AcceptedRequest
  <2>6. Begins(h, q)
    BY Zenon, <1>1, <1>3, <1>5, <1>6, <1>8, <2>2, <2>3, <2>4, <2>5 DEF Begins
  <2>7. QED
    BY Zenon, <2>6
<1>9. QED
  BY Zenon, <1>7, <1>8

\* A successful registration is answered and the handle is idle.
LEMMA CompletesEffect ==
  ASSUME RegType, NEW h \in Handles, Completes(h)
  PROVE  /\ reg' = reg
         /\ frame' \in [Handles -> Frames \cup {Idle}] /\ frame'[h] = Idle
         /\ \A k \in Handles \ {h} : frame'[k] = frame[k] /\ answered'[k] = answered[k]
         /\ answered' \in [Handles -> SUBSET Requests]
         /\ answered'[h] = answered[h] \cup {frame[h].req}
<1>1. /\ frame[h] \in Frames /\ frame \in [Handles -> Frames \cup {Idle}]
      /\ answered \in [Handles -> SUBSET Requests]
      /\ frame[h].req \in Requests /\ frame[h].existed \in BOOLEAN
  BY Zenon DEF RegType, Completes, Frames
<1>2. /\ reg' = reg /\ frame' = [frame EXCEPT ![h] = Idle]
      /\ answered' = [answered EXCEPT ![h] = answered[h] \cup {frame[h].req}]
  BY Zenon, <1>1 DEF Completes, Succeeds
<1>3. QED
  BY Zenon, <1>1, <1>2

\* A handle that is opened again knows no struct.
LEMMA RestartEffect ==
  ASSUME RegType, NEW h \in Handles, Restart(h)
  PROVE  /\ reg' \in [Handles -> Registries]
         /\ \A k \in Handles : Len(reg'[k].entries) <= reg'[k].capacity
         /\ reg'[h].entries = << >>
         /\ frame' \in [Handles -> Frames \cup {Idle}] /\ frame'[h] = Idle
         /\ \A k \in Handles \ {h} : /\ reg'[k] = reg[k] /\ frame'[k] = frame[k]
                                     /\ answered'[k] = answered[k]
         /\ answered' \in [Handles -> SUBSET Requests] /\ answered'[h] = {}
         /\ restarts' \in [Handles -> 0..MaxRestarts]
<1>1. /\ frame \in [Handles -> Frames \cup {Idle}] /\ reg \in [Handles -> Registries]
      /\ answered \in [Handles -> SUBSET Requests] /\ restarts \in [Handles -> 0..MaxRestarts]
      /\ \A k \in Handles : Len(reg[k].entries) <= reg[k].capacity
  BY Zenon DEF RegType
<1> DEFINE r == EmptyRegistry
<1>2. r \in Registries /\ r.entries = << >> /\ Len(r.entries) = 0 /\ r.capacity = 0
  BY DEF EmptyRegistry, Registries
<1>3. /\ reg' = [reg EXCEPT ![h] = r] /\ frame' = [frame EXCEPT ![h] = Idle]
      /\ answered' = [answered EXCEPT ![h] = {}]
      /\ restarts' = [restarts EXCEPT ![h] = restarts[h] + 1] /\ restarts[h] < MaxRestarts
  BY Zenon, <1>1 DEF Restart
<1> HIDE DEF r
<1>4. reg' \in [Handles -> Registries] /\ reg'[h] = r /\ \A k \in Handles \ {h} : reg'[k] = reg[k]
  BY Zenon, <1>1, <1>2, <1>3
<1>5. \A k \in Handles : Len(reg'[k].entries) <= reg'[k].capacity
  BY <1>1, <1>2, <1>4
<1>6. restarts' \in [Handles -> 0..MaxRestarts]
  BY <1>1, <1>3, RequestsType
<1>7. /\ frame' \in [Handles -> Frames \cup {Idle}] /\ frame'[h] = Idle
      /\ answered' \in [Handles -> SUBSET Requests] /\ answered'[h] = {}
      /\ \A k \in Handles \ {h} : frame'[k] = frame[k] /\ answered'[k] = answered[k]
  BY Zenon, <1>1, <1>3
<1>8. QED
  BY Zenon, <1>2, <1>4, <1>5, <1>6, <1>7

-----------------------------------------------------------------------------
(* Frames and settled entries *)

\* The tables a dialect can declare do not change.
LEMMA SameDialect ==
  ASSUME UNCHANGED dialect
  PROVE  Tables' = Tables
<1>1. \A t : type_to_sql_str(t)' = type_to_sql_str(t)
  BY DEF type_to_sql_str
<1>2. QED
  BY Zenon, <1>1 DEF Tables, TableCols

\* The request of a frame.
LEMMA RequestType ==
  ASSUME NEW f \in Frames
  PROVE  /\ f.req \in Requests /\ f.req.name \in Idents /\ f.req.cols \in Seq(ColumnDef)
         /\ Len(f.req.cols) \in Nat /\ f.next \in Nat /\ f.db_cols \in Seq(DbColumn)
         /\ Len(f.db_cols) \in Nat
BY RequestsType DEF Frames

\* The settled entries and their tables.
LEMMA SettledType ==
  ASSUME RegType, PendingInv, NEW h \in Handles
  PROVE  /\ reg[h].entries \in Seq(Schemas) /\ Len(reg[h].entries) \in Nat
         /\ DOMAIN reg[h].entries = 1..Len(reg[h].entries)
         /\ Settled(h) \in Nat /\ Settled(h) <= Len(reg[h].entries)
         /\ frame[h] # Idle => Settled(h) = Len(reg[h].entries) - 1
         /\ frame[h] = Idle => Settled(h) = Len(reg[h].entries)
         /\ \A i \in 1..Len(reg[h].entries) :
               reg[h].entries[i] \in Schemas /\ reg[h].entries[i].name \in Idents
<1>1. reg[h].entries \in Seq(Schemas)
  BY Zenon DEF RegType, Registries
<1>2. Len(reg[h].entries) \in Nat /\ DOMAIN reg[h].entries = 1..Len(reg[h].entries)
  BY <1>1
<1>3. frame[h] # Idle => Len(reg[h].entries) # 0
  BY <1>1 DEF PendingInv
<1>4. \A i \in 1..Len(reg[h].entries) : reg[h].entries[i] \in Schemas
  BY <1>1
<1>5. \A s \in Schemas : s.name \in Idents
  BY RequestsType DEF Schemas, Schema
<1>6. QED
  BY <1>1, <1>2, <1>3, <1>4, <1>5 DEF Settled

=============================================================================
