------------------------- MODULE RegistrationProofs -------------------------
(***************************************************************************)
(* SqlRDBRegisterStruct, for any handles, requests, tables and limits, and *)
(* for every interleaving of the handles' statements with failures,        *)
(* restarts and lack of memory: what a handle has read of a table stays    *)
(* true of it, and the theorems that follow.                               *)
(***************************************************************************)
EXTENDS RegistrationTypes, RegistrationRegistries

-----------------------------------------------------------------------------
(* What a handle has read, and the tables *)

\* What was read stays true while the table grows.
LEMMA SnapshotKept ==
  ASSUME RegType, TablesGrow, NEW n \in Idents, tables[n] # NoTable,
         NEW db \in Seq(DbColumn), NEW own, NEW keys, SnapshotOf(db, tables[n].cols, own, keys)
  PROVE  SnapshotOf(db, tables'[n].cols, own, keys)
<1>1. tables[n] \in Tables /\ tables'[n] \in Tables
  BY Zenon DEF RegType, TablesGrow
<1>2. Len(tables[n].cols) \in Nat /\ DOMAIN tables[n].cols = 1..Len(tables[n].cols)
  BY Zenon, <1>1, ColsType
<1>3. Len(tables'[n].cols) \in Nat
  BY Zenon, <1>1, ColsType
<1>4. Len(db) \in Nat /\ DOMAIN db = 1..Len(db)
  OBVIOUS
<1>5. /\ Len(tables[n].cols) <= Len(tables'[n].cols)
      /\ \A i \in DOMAIN tables[n].cols : tables'[n].cols[i] = tables[n].cols[i]
  BY Zenon DEF TablesGrow
<1>6. Len(db) <= Len(tables'[n].cols)
  BY <1>2, <1>3, <1>4, <1>5 DEF SnapshotOf
<1>7. \A i \in DOMAIN db : tables'[n].cols[i] = tables[n].cols[i]
  BY <1>2, <1>4, <1>5 DEF SnapshotOf
<1>8. QED
  BY Zenon, <1>6, <1>7 DEF SnapshotOf

\* read_table_info describes the table, in SQLite with its keys.
LEMMA InfoIsSnapshot ==
  ASSUME RegType, NEW n \in Idents, tables[n] # NoTable, NEW own, NEW keys,
         keys => dialect = "SQLITE"
  PROVE  SnapshotOf(read_table_info(n), tables[n].cols, own, keys)
<1>1. tables[n] \in Tables
  BY Zenon DEF RegType
<1>2. Len(tables[n].cols) \in Nat
  BY Zenon, <1>1, ColsType
<1>3. QED
  BY <1>1, <1>2, TableInfoEffect DEF SnapshotOf

\* A column found among others of its table is one of them: names are matched, and a
\* table has no two columns of the same name.
LEMMA FoundColumn ==
  ASSUME NEW tc, DistinctNames(tc), NEW i \in DOMAIN tc, NEW S \in SUBSET DOMAIN tc,
         NEW x, x.name = Fitting(tc[i].name)
  PROVE  /\ Found(x, {tc[j].name : j \in S}) => i \in S
         /\ i \in S /\ x.name # NoName => Found(x, {tc[j].name : j \in S})
<1>1. ASSUME Found(x, {tc[j].name : j \in S})
      PROVE  i \in S
  <2>1. PICK j \in S : x.name = Fitting(tc[j].name) /\ x.name # NoName
    BY Zenon, <1>1 DEF Found
  <2>2. tc[j].name = tc[i].name
    BY Zenon, <2>1 DEF Fitting
  <2>3. QED
    BY Zenon, <2>2 DEF DistinctNames
<1>2. QED
  BY Zenon, <1>1 DEF Found

\* The keys that were read go to the right columns.
LEMMA KeysAreSnapshot ==
  ASSUME NEW n \in Idents, NEW db \in Seq(DbColumn), NEW own, NEW keys, tables[n] \in Tables,
         SnapshotOf(db, tables[n].cols, own, keys), DistinctNames(tables[n].cols),
         NEW names, own => names = KeyColumns(n)
  PROVE  SnapshotOf(MarkKeys(db, names), tables[n].cols, own, TRUE)
<1> DEFINE k == MarkKeys(db, names)
           tc == tables[n].cols
           S == {i \in DOMAIN tc : tc[i].pk}
<1>1. /\ k \in Seq(DbColumn) /\ Len(k) = Len(db)
      /\ \A i \in DOMAIN k :
            /\ k[i].name = db[i].name /\ k[i].class = db[i].class
            /\ k[i].notnull = db[i].notnull /\ k[i].unique = db[i].unique
            /\ k[i].pk = Found(db[i], names)
  BY Zenon, MarkEffect
<1>2. DOMAIN k = DOMAIN db /\ Len(db) \in Nat /\ DOMAIN db = 1..Len(db)
  BY <1>1
<1>3. tc \in Seq(TableCols) /\ DOMAIN tc = 1..Len(tc) /\ Len(tc) \in Nat
  BY Zenon, ColsType
<1>4. /\ Len(db) <= Len(tc)
      /\ \A i \in DOMAIN db :
            Described(tc[i], db[i]) /\ (own /\ db[i].unique => tc[i].unique)
  BY Zenon DEF SnapshotOf
<1>5. DOMAIN db \subseteq DOMAIN tc
  BY <1>2, <1>3, <1>4
<1>6. KeyColumns(n) = {tc[j].name : j \in S} /\ DistinctNames(tc) /\ S \in SUBSET DOMAIN tc
  BY Zenon DEF KeyColumns
<1> HIDE DEF k, tc
<1>7. ASSUME NEW i \in DOMAIN k
      PROVE  /\ Described(tc[i], k[i])
             /\ own /\ k[i].unique => tc[i].unique
  BY Zenon, <1>1, <1>2, <1>4 DEF Described
<1>8. ASSUME NEW i \in DOMAIN k, own, k[i].name # NoName
      PROVE  k[i].pk = tc[i].pk
  <2>1. i \in DOMAIN tc /\ db[i].name = Fitting(tc[i].name) /\ db[i].name # NoName
    BY Zenon, <1>1, <1>2, <1>4, <1>5, <1>8 DEF Described
  <2>2. Found(db[i], {tc[j].name : j \in S}) <=> i \in S
    <3> HIDE DEF S
    <3>1. QED
      BY Zenon, <1>6, <2>1, FoundColumn
  <2>3. Found(db[i], names) <=> tc[i].pk
    BY Zenon, <1>6, <1>8, <2>1, <2>2
  <2>4. tc[i].pk \in BOOLEAN /\ Found(db[i], names) \in BOOLEAN
    <3>1. tc[i] \in TableCols
      BY <1>3, <2>1
    <3>2. QED
      BY <3>1 DEF TableCols, Found
  <2>5. QED
    BY Zenon, <1>1, <2>3, <2>4
<1>9. SnapshotOf(k, tc, own, TRUE)
  BY Zenon, <1>1, <1>4, <1>7, <1>8 DEF SnapshotOf
<1>10. QED
  BY Zenon, <1>9 DEF k, tc

\* So do the UNIQUE flags.
LEMMA UniquesAreSnapshot ==
  ASSUME NEW n \in Idents, NEW db \in Seq(DbColumn), NEW own, NEW keys, tables[n] \in Tables,
         SnapshotOf(db, tables[n].cols, own, keys), DistinctNames(tables[n].cols),
         NEW names, own => names \subseteq UniqueColumns(n)
  PROVE  SnapshotOf(MarkUniques(db, names), tables[n].cols, own, keys)
<1> DEFINE u == MarkUniques(db, names)
           tc == tables[n].cols
           S == {i \in DOMAIN tc : tc[i].unique}
<1>1. /\ u \in Seq(DbColumn) /\ Len(u) = Len(db)
      /\ \A i \in DOMAIN u :
            /\ u[i].name = db[i].name /\ u[i].class = db[i].class
            /\ u[i].notnull = db[i].notnull /\ u[i].pk = db[i].pk
            /\ u[i].unique => db[i].unique \/ Found(db[i], names)
  BY Zenon, MarkEffect
<1>2. DOMAIN u = DOMAIN db /\ Len(db) \in Nat /\ DOMAIN db = 1..Len(db)
  BY <1>1
<1>3. tc \in Seq(TableCols) /\ DOMAIN tc = 1..Len(tc) /\ Len(tc) \in Nat
  BY Zenon, ColsType
<1>4. /\ Len(db) <= Len(tc)
      /\ \A i \in DOMAIN db :
            /\ Described(tc[i], db[i])
            /\ own /\ db[i].unique => tc[i].unique
            /\ own /\ keys /\ db[i].name # NoName => db[i].pk = tc[i].pk
  BY Zenon DEF SnapshotOf
<1>5. DOMAIN db \subseteq DOMAIN tc
  BY <1>2, <1>3, <1>4
<1>6. UniqueColumns(n) = {tc[j].name : j \in S} /\ DistinctNames(tc) /\ S \in SUBSET DOMAIN tc
  BY Zenon DEF UniqueColumns
<1> HIDE DEF u, tc
<1>7. ASSUME NEW i \in DOMAIN u
      PROVE  /\ Described(tc[i], u[i])
             /\ own /\ keys /\ u[i].name # NoName => u[i].pk = tc[i].pk
  BY Zenon, <1>1, <1>2, <1>4 DEF Described
<1>8. ASSUME NEW i \in DOMAIN u, own, u[i].unique
      PROVE  tc[i].unique
  <2>1. i \in DOMAIN tc /\ db[i].name = Fitting(tc[i].name)
    BY Zenon, <1>1, <1>2, <1>4, <1>5 DEF Described
  <2>2. CASE db[i].unique
    BY Zenon, <1>2, <1>4, <1>8, <2>2
  <2>3. CASE Found(db[i], names)
    <3>1. Found(db[i], {tc[j].name : j \in S})
      BY Zenon, <1>6, <1>8, <2>3 DEF Found
    <3>2. i \in S
      <4> HIDE DEF S
      <4>1. QED
        BY Zenon, <1>6, <2>1, <3>1, FoundColumn
    <3>3. QED
      BY Zenon, <3>2
  <2>4. QED
    BY Zenon, <1>1, <1>8, <2>2, <2>3
<1>9. SnapshotOf(u, tc, own, keys)
  BY Zenon, <1>1, <1>4, <1>7, <1>8 DEF SnapshotOf
<1>10. QED
  BY Zenon, <1>9 DEF u, tc

\* The mapping of a column's type to SQL and back tells the classes apart.
LEMMA ClassAgrees ==
  ASSUME dialect \in {"SQLITE", "POSTGRES"}, NEW t \in Types, NEW u \in Types,
         schema_type_class(t) =
           IF dialect = "POSTGRES" THEN type_class_from_pg(CatalogType(type_to_sql_str(u)))
           ELSE type_class_from_str(type_to_sql_str(u))
  PROVE  \/ type_to_sql_str(u) = type_to_sql_str(t)
         \/ t \in {"INT32", "INT64"} /\ type_to_sql_str(u) \in {"INTEGER", "BIGINT"}
<1>1. CASE dialect = "POSTGRES"
  BY Zenon, <1>1 DEF schema_type_class, type_class_from_pg, CatalogType, type_to_sql_str, Types
<1>2. CASE dialect = "SQLITE"
  BY Zenon, <1>2 DEF schema_type_class, type_class_from_str, type_to_sql_str, Types
<1>3. QED
  BY Zenon, <1>1, <1>2

\* A column compare_columns finds no fault with is the one the schema describes.
LEMMA ComparedAgrees ==
  ASSUME RegType, NEW sc \in ColumnDef, NEW dc \in DbColumn, NEW d \in TableCols,
         Described(d, dc), compare_columns(sc, dc)
  PROVE  Agrees(sc, d)
<1>1. sc.name = d.name
  BY Zenon, RequestsType DEF compare_columns, Described, Fitting, ColumnDef
<1>2. d.notnull = ~sc.nullable
  <2>1. /\ d.notnull \in BOOLEAN /\ sc.nullable \in BOOLEAN
        /\ sc.nullable # dc.notnull /\ dc.notnull = d.notnull
    BY Zenon DEF compare_columns, Described, ColumnDef, TableCols
  <2>2. QED
    BY Zenon, <2>1, Zenon
<1>3. PICK u \in Types : d.sql = type_to_sql_str(u)
  BY Zenon DEF TableCols
<1>4. sc.type \in Types /\ dialect \in {"SQLITE", "POSTGRES"}
  BY Zenon DEF ColumnDef, RegType, Dialects
<1>5. schema_type_class(sc.type) =
        IF dialect = "POSTGRES" THEN type_class_from_pg(CatalogType(type_to_sql_str(u)))
        ELSE type_class_from_str(type_to_sql_str(u))
  BY Zenon, <1>3 DEF compare_columns, Described
<1>6. \/ d.sql = type_to_sql_str(sc.type)
      \/ sc.type \in {"INT32", "INT64"} /\ d.sql \in {"INTEGER", "BIGINT"}
  BY Zenon, <1>3, <1>4, <1>5, ClassAgrees
<1>7. QED
  BY Zenon, <1>1, <1>2, <1>6, Zenon DEF Agrees

\* Its key agrees, too, if the keys and UNIQUE flags were right.
LEMMA ComparedAgreeKeys ==
  ASSUME NEW sc \in ColumnDef, NEW dc, NEW d \in TableCols, compare_columns(sc, dc),
         dc.unique => d.unique, dc.name # NoName => dc.pk = d.pk
  PROVE  AgreeKeys(sc, d)
<1>1. sc.name \in Idents /\ sc.name = dc.name
  BY Zenon DEF ColumnDef, compare_columns
<1>2. d.pk = sc.pk
  BY Zenon, <1>1, RequestsType DEF compare_columns
<1>3. QED
  BY Zenon, <1>2 DEF AgreeKeys, compare_columns

\* A struct goes on describing the first columns while the table grows.
LEMMA PrefixKept ==
  ASSUME RegType, TablesGrow, NEW n \in Idents, tables[n] # NoTable,
         NEW cols \in Seq(ColumnDef), NEW own, PrefixOf(cols, tables[n].cols, own)
  PROVE  PrefixOf(cols, tables'[n].cols, own)
<1>1. tables[n] \in Tables /\ tables'[n] \in Tables
  BY Zenon DEF RegType, TablesGrow
<1>2. Len(tables[n].cols) \in Nat /\ DOMAIN tables[n].cols = 1..Len(tables[n].cols)
  BY Zenon, <1>1, ColsType
<1>3. Len(tables'[n].cols) \in Nat
  BY Zenon, <1>1, ColsType
<1>4. Len(cols) \in Nat /\ DOMAIN cols = 1..Len(cols)
  OBVIOUS
<1>5. /\ Len(tables[n].cols) <= Len(tables'[n].cols)
      /\ \A i \in DOMAIN tables[n].cols : tables'[n].cols[i] = tables[n].cols[i]
  BY Zenon DEF TablesGrow
<1>6. Len(cols) <= Len(tables'[n].cols)
  BY <1>2, <1>3, <1>4, <1>5 DEF PrefixOf
<1>7. \A i \in DOMAIN cols : tables'[n].cols[i] = tables[n].cols[i]
  BY <1>2, <1>4, <1>5 DEF PrefixOf
<1>8. QED
  BY Zenon, <1>6, <1>7 DEF PrefixOf

\* What migrate_table accepted describes the table's first columns.
LEMMA AcceptedIsPrefix ==
  ASSUME RegType, NEW n \in Idents, tables[n] # NoTable, NEW cols \in Seq(ColumnDef),
         NEW db \in Seq(DbColumn), NEW own, SnapshotOf(db, tables[n].cols, own, TRUE),
         Len(db) = Len(cols), ~Differ(cols, db)
  PROVE  PrefixOf(cols, tables[n].cols, own)
<1> DEFINE tc == tables[n].cols
<1>1. tc \in Seq(TableCols) /\ DOMAIN tc = 1..Len(tc) /\ Len(tc) \in Nat
  BY Zenon, ColsType DEF RegType
<1>2. DOMAIN cols = 1..Len(cols) /\ DOMAIN db = 1..Len(db) /\ Len(db) \in Nat
  OBVIOUS
<1>3. ASSUME NEW j \in DOMAIN cols
      PROVE  Agrees(cols[j], tc[j]) /\ (own => AgreeKeys(cols[j], tc[j]))
  <2>1. j \in DOMAIN db /\ j \in DOMAIN tc
    BY <1>1, <1>2 DEF SnapshotOf
  <2>2. cols[j] \in ColumnDef /\ db[j] \in DbColumn /\ tc[j] \in TableCols
    BY <1>1, <2>1
  <2>3. /\ Described(tc[j], db[j])
        /\ own /\ db[j].unique => tc[j].unique
        /\ own /\ db[j].name # NoName => db[j].pk = tc[j].pk
    BY Zenon, <2>1 DEF SnapshotOf
  <2>4. compare_columns(cols[j], db[j])
    BY Zenon, <2>1 DEF Differ
  <2> HIDE DEF tc
  <2>5. QED
    BY Zenon, <2>2, <2>3, <2>4, ComparedAgrees, ComparedAgreeKeys
<1>4. QED
  BY Zenon, <1>3 DEF PrefixOf, SnapshotOf

\* The columns of a schema are those of its request.
LEMMA SchemaCols ==
  ASSUME NEW s \in Schemas
  PROVE  s.cols \in Seq(ColumnDef) /\ s.name \in Idents
BY RequestsType DEF Schemas, Schema

\* Every step leaves the struct of a settled entry a prefix of its table.
LEMMA PrefixStep ==
  ASSUME RegType, ItersType, PendingInv, PrefixInv, SnapshotInv, RegType', PendingInv', TablesGrow, Next
  PROVE  PrefixInv'
<1> DEFINE Own(n) == CatalogTable(n) = n
<1>1. ASSUME NEW k \in Handles, NEW i \in 1..Settled(k)'
      PROVE  LET s == reg'[k].entries[i]
             IN  tables'[s.name] # NoTable /\ PrefixOf(s.cols, tables'[s.name].cols, Own(s.name))
  <2>1. ASSUME NEW s \in Schemas, tables[s.name] # NoTable,
               PrefixOf(s.cols, tables[s.name].cols, Own(s.name))
        PROVE  tables'[s.name] # NoTable /\ PrefixOf(s.cols, tables'[s.name].cols, Own(s.name))
    <3>1. s.cols \in Seq(ColumnDef) /\ s.name \in Idents
      BY Zenon, SchemaCols
    <3>2. tables'[s.name] # NoTable
      BY Zenon, <2>1, <3>1 DEF TablesGrow
    <3>3. QED
      BY Zenon, <2>1, <3>1, <3>2, PrefixKept
  <2>2. Settled(k) \in Nat /\ \A j \in 1..Settled(k) : reg[k].entries[j] \in Schemas
    BY SettledType
  <2>3. ASSUME i \in 1..Settled(k), reg'[k].entries[i] = reg[k].entries[i]
        PROVE  LET s == reg'[k].entries[i]
               IN  tables'[s.name] # NoTable /\ PrefixOf(s.cols, tables'[s.name].cols, Own(s.name))
    BY Zenon, <2>1, <2>2, <2>3 DEF PrefixInv, Prefix
  <2>4. CASE Kept(k)
    BY Zenon, <2>3, <2>4 DEF Kept
  <2>5. CASE Added(k)
    <3>1. CASE i # Settled(k) + 1
      BY <2>2, <2>3, <2>5, <3>1 DEF Added
    <3>2. CASE i = Settled(k) + 1
      <4> DEFINE f == frame[k]
                 s == Schema(f.req.name, f.req.cols)
      <4>1. /\ f \in Frames /\ f.pc \in {"validate", "revalidate"}
            /\ Len(f.db_cols) = Len(f.req.cols) /\ ~Differ(f.req.cols, f.db_cols)
        BY Zenon, <2>5 DEF Added, Completes
      <4>2. reg'[k].entries[i] = s
        BY Zenon, <2>5, <3>2 DEF Added
      <4>3. s \in Schemas /\ s.name = f.req.name /\ s.cols = f.req.cols
        BY Zenon, <4>1 DEF Schemas, Schema, Frames
      <4>4. tables[f.req.name] # NoTable
        BY Zenon, <4>1, IdleOrFrame DEF RegType
      <4>5. SnapshotOf(f.db_cols, tables[f.req.name].cols, Own(f.req.name), TRUE)
        <5>1. Snapshot(f) /\ f.pc # "keys"
          BY Zenon, <4>1 DEF SnapshotInv, ColumnsRead
        <5>2. QED
          BY Zenon, <5>1 DEF Snapshot, SnapshotOf
      <4> HIDE DEF Own
      <4>6. PrefixOf(f.req.cols, tables[f.req.name].cols, Own(f.req.name))
        BY Zenon, <4>1, <4>4, <4>5, RequestType, AcceptedIsPrefix
      <4> HIDE DEF s
      <4>7. QED
        BY Zenon, <2>1, <4>2, <4>3, <4>4, <4>6
    <3>3. QED
      BY Zenon, <3>1, <3>2
  <2>6. CASE Emptied(k)
    BY <2>6 DEF Emptied
  <2>7. QED
    BY Zenon, <2>4, <2>5, <2>6, SettledStep
<1>2. /\ \A t : type_to_sql_str(t)' = type_to_sql_str(t)
      /\ \A n : CatalogTable(n)' = CatalogTable(n)
  BY DEF TablesGrow, type_to_sql_str, CatalogTable
<1>3. SUFFICES ASSUME NEW k \in Handles, NEW i \in 1..Settled(k)'
               PROVE  Prefix(reg[k].entries[i])'
  BY Zenon DEF PrefixInv
<1> DEFINE s == reg'[k].entries[i]
<1>4. tables'[s.name] # NoTable /\ PrefixOf(s.cols, tables'[s.name].cols, Own(s.name))
  BY Zenon, <1>1
<1>5. QED
  BY Zenon, <1>2, <1>4 DEF Prefix, PrefixOf, Agrees, AgreeKeys

\* Every step leaves what a call has read of its table true of the table.
LEMMA SnapshotStep ==
  ASSUME RegType, SnapshotInv, PendingInv, RegType', TablesGrow, Next
  PROVE  SnapshotInv'
<1> DEFINE Own(n) == CatalogTable(n) = n
           Right(k) ==
             LET f == frame'[k]
             IN  /\ f.pc \in ColumnsRead =>
                      SnapshotOf(f.db_cols, tables'[f.req.name].cols, Own(f.req.name), f.pc # "keys")
                 /\ f.pc = "index_info" =>
                      \A c \in f.idx : \E j \in DOMAIN tables'[f.req.name].cols :
                         tables'[f.req.name].cols[j].unique /\ tables'[f.req.name].cols[j].name = c
<1>1. PICK h \in Handles : Register(h) \/ SqlRDBWrite(h) \/ SqlRDBReadMany(h)
                             \/ SqlRDBStmtFree(h) \/ Restart(h)
  BY Zenon DEF Next
<1>2. ASSUME NEW k \in Handles, frame[k].pc \in ColumnsRead
      PROVE  /\ frame[k] \in Frames /\ frame[k].req.name \in Idents
             /\ frame[k].db_cols \in Seq(DbColumn)
             /\ tables[frame[k].req.name] # NoTable /\ tables[frame[k].req.name] \in Tables
             /\ SnapshotOf(frame[k].db_cols, tables[frame[k].req.name].cols,
                           Own(frame[k].req.name), frame[k].pc # "keys")
             /\ DistinctNames(tables[frame[k].req.name].cols)
             /\ frame[k].pc = "index_info" => frame[k].idx \subseteq UniqueColumns(frame[k].req.name)
  <2>1. frame[k] \in Frames /\ frame[k] # Idle /\ frame[k].pc # "create"
    BY Zenon, <1>2, IdleOrFrame DEF ColumnsRead
  <2>2. frame[k].req.name \in Idents /\ frame[k].db_cols \in Seq(DbColumn)
    BY Zenon, <2>1, RequestType
  <2>3. tables[frame[k].req.name] # NoTable /\ tables[frame[k].req.name] \in Tables
    BY SMTT(20), <2>1, <2>2 DEF RegType
  <2>4. QED
    BY Zenon, <1>2, <2>1, <2>2, <2>3 DEF SnapshotInv, Snapshot
<1> HIDE DEF Own
<1>3. ASSUME NEW n \in Idents, tables[n] # NoTable, NEW c \in UniqueColumns(n)
      PROVE  \E j \in DOMAIN tables'[n].cols :
                tables'[n].cols[j].unique /\ tables'[n].cols[j].name = c
  <2>1. PICK j \in DOMAIN tables[n].cols : tables[n].cols[j].unique /\ tables[n].cols[j].name = c
    BY Zenon DEF UniqueColumns
  <2>2. tables[n] \in Tables /\ tables'[n] \in Tables
    BY <1>3 DEF RegType, TablesGrow
  <2>3. /\ DOMAIN tables[n].cols = 1..Len(tables[n].cols) /\ Len(tables[n].cols) \in Nat
        /\ DOMAIN tables'[n].cols = 1..Len(tables'[n].cols) /\ Len(tables'[n].cols) \in Nat
    BY Zenon, <2>2, ColsType
  <2>4. /\ Len(tables[n].cols) <= Len(tables'[n].cols)
        /\ tables'[n].cols[j] = tables[n].cols[j]
    BY Zenon, <1>3, <2>1 DEF TablesGrow
  <2>5. j \in DOMAIN tables'[n].cols
    BY <2>1, <2>3, <2>4
  <2>6. QED
    BY Zenon, <2>1, <2>4, <2>5
<1>4. ASSUME NEW k \in Handles, frame'[k] = frame[k] PROVE Right(k)
  <2>1. CASE frame[k].pc \notin ColumnsRead
    BY Zenon, <1>4, <2>1 DEF ColumnsRead
  <2>2. CASE frame[k].pc \in ColumnsRead
    <3> DEFINE n == frame[k].req.name
    <3>1. SnapshotOf(frame[k].db_cols, tables'[n].cols, Own(n), frame[k].pc # "keys")
      BY Zenon, <1>2, <2>2, SnapshotKept
    <3>2. ASSUME frame[k].pc = "index_info", NEW c \in frame[k].idx
          PROVE  \E j \in DOMAIN tables'[n].cols :
                    tables'[n].cols[j].unique /\ tables'[n].cols[j].name = c
      BY Zenon, <1>2, <1>3, <2>2, <3>2
    <3>3. QED
      BY Zenon, <1>4, <3>1, <3>2
  <2>3. QED
    BY Zenon, <2>1, <2>2
<1>5. ASSUME NEW pc, NEW d, NEW m, GoesOn(h, pc, d, m), pc \notin ColumnsRead
      PROVE  Right(h)
  BY Zenon, <1>5 DEF GoesOn, ColumnsRead
<1>6. ASSUME frame'[h] = Idle PROVE Right(h)
  BY Zenon, <1>6, IdleOrFrame DEF ColumnsRead
<1>7. ASSUME NEW pc \in ColumnsRead, NEW d, NEW m, GoesOn(h, pc, d, m), UNCHANGED tables,
             SnapshotOf(d, tables[frame[h].req.name].cols, Own(frame[h].req.name), pc # "keys"),
             pc = "index_info" => frame'[h].idx \subseteq UniqueColumns(frame[h].req.name),
             frame[h].req.name \in Idents, tables[frame[h].req.name] # NoTable
      PROVE  Right(h)
  <2>1. /\ frame'[h].req = frame[h].req /\ frame'[h].pc = pc /\ frame'[h].db_cols = d
        /\ tables' = tables
    BY Zenon, <1>7 DEF GoesOn
  <2>2. ASSUME frame'[h].pc = "index_info", NEW c \in frame'[h].idx
        PROVE  \E j \in DOMAIN tables'[frame'[h].req.name].cols :
                  /\ tables'[frame'[h].req.name].cols[j].unique
                  /\ tables'[frame'[h].req.name].cols[j].name = c
    <3>1. c \in UniqueColumns(frame[h].req.name)
      BY Zenon, <1>7, <2>1, <2>2
    <3>2. frame[h].req.name \in Idents /\ tables[frame[h].req.name] # NoTable
      BY Zenon, <1>7
    <3>3. \E j \in DOMAIN tables'[frame[h].req.name].cols :
             /\ tables'[frame[h].req.name].cols[j].unique
             /\ tables'[frame[h].req.name].cols[j].name = c
      BY Zenon, <1>3, <3>1, <3>2
    <3>4. frame'[h].req = frame[h].req
      BY Zenon, <2>1
    <3>5. QED
      BY Zenon, <3>3, <3>4
  <2>3. SnapshotOf(frame'[h].db_cols, tables'[frame'[h].req.name].cols, Own(frame'[h].req.name),
                   frame'[h].pc # "keys")
    BY Zenon, <1>7, <2>1
  <2>4. QED
    BY Zenon, <2>2, <2>3
<1>8. \A k \in Handles \ {h} : frame'[k] = frame[k]
  <2>1. CASE GivesUp(h)
    BY Zenon, <2>1, GivesUpEffect
  <2>2. CASE Completes(h)
    BY Zenon, <2>2, CompletesEffect
  <2>3. CASE Restart(h)
    BY Zenon, <2>3, RestartEffect
  <2>4. CASE SqlRDBRegisterStruct(h)
    BY Zenon, <2>4, RegisterStructEffect DEF Refuses, Begins
  <2>5. CASE SqlRDBWrite(h) \/ SqlRDBReadMany(h) \/ SqlRDBStmtFree(h)
    BY Zenon, <2>5 DEF SqlRDBWrite, SqlRDBReadMany, SqlRDBStmtFree
  <2>6. CASE \E pc, d, m : GoesOn(h, pc, d, m)
    BY Zenon, <2>6 DEF GoesOn
  <2> DEFINE P == \E pc, d, m : GoesOn(h, pc, d, m)
  <2>7. ASSUME NEW pc, NEW d, NEW m, GoesOn(h, pc, d, m) PROVE P
    BY Zenon, <2>7
  <2>8. Adds(h) => P
    BY Zenon, <2>7 DEF Adds
  <2>9. CreateTable(h) => GivesUp(h) \/ P
    BY Zenon, <2>7, CreateEffect
  <2>10. Validate(h) => GivesUp(h) \/ Completes(h) \/ P
    BY Zenon, <2>7, ValidateEffect
  <2>11. ReadTableInfo(h) \/ ReadKeys(h) \/ ReadUniques(h) \/ ReadIndexList(h) \/ ReadIndexInfo(h)
           => GivesUp(h) \/ P
    BY Zenon, <2>7, ReadEffect
  <2> HIDE DEF P
  <2>12. QED
    BY Zenon, <1>1, <2>1, <2>2, <2>3, <2>4, <2>5, <2>6, <2>8, <2>9, <2>10, <2>11,
       AlterEffect, RevalidateEffect DEF Register, P
<1>9. Right(h)
  <2> DEFINE n == frame[h].req.name
  <2>1. CASE GivesUp(h) \/ Completes(h) \/ Restart(h)
    BY Zenon, <1>6, <2>1, GivesUpEffect, CompletesEffect, RestartEffect
  <2>2. CASE SqlRDBRegisterStruct(h)
    <3>1. CASE Refuses(h)
      BY Zenon, <1>4, <3>1 DEF Refuses
    <3>2. CASE \E q \in Requests : Begins(h, q)
      <4>1. frame'[h].pc = "create"
        BY Zenon, <3>2 DEF Begins
      <4>2. QED
        BY Zenon, <4>1 DEF ColumnsRead
    <3>3. QED
      BY Zenon, <2>2, <3>1, <3>2, RegisterStructEffect
  <2>3. CASE SqlRDBWrite(h) \/ SqlRDBReadMany(h) \/ SqlRDBStmtFree(h)
    BY Zenon, <1>4, <2>3 DEF SqlRDBWrite, SqlRDBReadMany, SqlRDBStmtFree
  <2> HIDE DEF Right
  <2>4. "info" \notin ColumnsRead /\ "alter" \notin ColumnsRead
    BY Zenon DEF ColumnsRead
  <2>5. CASE CreateTable(h) /\ ~GivesUp(h)
    BY Zenon, <1>5, <2>4, <2>5, CreateEffect
  <2>6. CASE Validate(h) /\ ~GivesUp(h) /\ ~Completes(h)
    BY Zenon, <1>5, <2>4, <2>6, ValidateEffect
  <2>7. CASE Adds(h)
    <3> DEFINE pc == IF frame[h].next = Len(frame[h].req.cols) THEN "info" ELSE "alter"
    <3>1. GoesOn(h, pc, frame[h].db_cols, frame[h].next + 1)
      BY Zenon, <2>7 DEF Adds
    <3>2. pc \notin ColumnsRead
      BY Zenon, <2>4
    <3> HIDE DEF pc
    <3>3. QED
      BY Zenon, <1>5, <3>1, <3>2
  <2>8. CASE ReadTableInfo(h) /\ ~GivesUp(h)
    <3>1. PICK pc \in {"keys", "index_list"} :
            /\ frame[h].pc = "info" /\ UNCHANGED tables /\ (pc = "index_list" => dialect = "SQLITE")
            /\ GoesOn(h, pc, read_table_info(n), frame[h].next)
      BY Zenon, <2>8, ReadTableInfoEffect
    <3>2. frame[h] \in Frames /\ frame[h] # Idle /\ frame[h].pc # "create"
      BY Zenon, <3>1, IdleOrFrame DEF GoesOn
    <3>3. n \in Idents
      BY Zenon, <3>2, RequestType
    <3>4. tables[n] # NoTable
      BY Zenon, <3>2 DEF RegType
    <3>5. pc \in ColumnsRead /\ pc # "index_info" /\ (pc # "keys" => dialect = "SQLITE")
      BY Zenon, <3>1 DEF ColumnsRead
    <3>6. SnapshotOf(read_table_info(n), tables[n].cols, Own(n), pc # "keys")
      BY Zenon, <3>3, <3>4, <3>5, InfoIsSnapshot
    <3>7. QED
      BY Zenon, <1>7, <3>1, <3>3, <3>4, <3>5, <3>6
  <2>9. CASE ReadKeys(h) /\ ~GivesUp(h)
    <3> DEFINE d == MarkKeys(frame[h].db_cols, KeyColumns(CatalogTable(n)))
    <3>1. frame[h].pc = "keys" /\ UNCHANGED tables /\ GoesOn(h, "uniques", d, frame[h].next)
      BY Zenon, <2>9, ReadKeysEffect
    <3>2. frame[h].pc \in ColumnsRead /\ "uniques" \in ColumnsRead
      BY Zenon, <3>1 DEF ColumnsRead
    <3>3. Own(n) => KeyColumns(CatalogTable(n)) = KeyColumns(n)
      BY Zenon DEF Own
    <3>4. SnapshotOf(d, tables[n].cols, Own(n), TRUE)
      BY Zenon, <1>2, <3>2, <3>3, KeysAreSnapshot
    <3> HIDE DEF d
    <3>5. SnapshotOf(d, tables[n].cols, Own(n), "uniques" # "keys")
      BY Zenon, <3>4 DEF SnapshotOf
    <3>6. QED
      BY Zenon, <1>2, <1>7, <3>1, <3>2, <3>5
  <2>10. CASE ReadUniques(h) /\ ~GivesUp(h)
    <3> DEFINE d == MarkUniques(frame[h].db_cols, UniqueColumns(CatalogTable(n)))
    <3>1. frame[h].pc = "uniques" /\ UNCHANGED tables /\ GoesOn(h, Check(h), d, frame[h].next)
      BY Zenon, <2>10, ReadUniquesEffect
    <3>2. frame[h].pc \in ColumnsRead /\ Check(h) \in ColumnsRead
      BY Zenon, <3>1, CheckNext DEF ColumnsRead
    <3>3. Own(n) => UniqueColumns(CatalogTable(n)) \subseteq UniqueColumns(n)
      BY Zenon DEF Own
    <3>4. SnapshotOf(d, tables[n].cols, Own(n), frame[h].pc # "keys")
      BY Zenon, <1>2, <3>2, <3>3, UniquesAreSnapshot
    <3>5. Check(h) # "keys" /\ Check(h) # "index_info"
      BY Zenon, CheckNext
    <3> HIDE DEF d
    <3>6. SnapshotOf(d, tables[n].cols, Own(n), Check(h) # "keys")
      BY Zenon, <3>1, <3>4, <3>5 DEF SnapshotOf
    <3>7. QED
      BY Zenon, <1>2, <1>7, <3>1, <3>2, <3>5, <3>6
  <2>11. CASE ReadIndexList(h) /\ ~GivesUp(h)
    <3>1. PICK pc \in {"index_info", "validate", "revalidate"} :
            /\ frame[h].pc = "index_list" /\ UNCHANGED tables
            /\ frame'[h].idx \subseteq UniqueColumns(n)
            /\ GoesOn(h, pc, frame[h].db_cols, frame[h].next)
      BY Zenon, <2>11, ReadIndexListEffect
    <3>2. frame[h].pc \in ColumnsRead /\ pc \in ColumnsRead /\ pc # "keys"
      BY Zenon, <3>1 DEF ColumnsRead
    <3>3. SnapshotOf(frame[h].db_cols, tables[n].cols, Own(n), frame[h].pc # "keys")
      BY Zenon, <1>2, <3>2
    <3>4. SnapshotOf(frame[h].db_cols, tables[n].cols, Own(n), pc # "keys")
      BY Zenon, <3>1, <3>2, <3>3 DEF SnapshotOf
    <3>5. QED
      BY Zenon, <1>2, <1>7, <3>1, <3>2, <3>4
  <2>12. CASE ReadIndexInfo(h) /\ ~GivesUp(h)
    <3>1. PICK pc \in {"index_info", "validate", "revalidate"} : \E col \in frame[h].idx :
            /\ frame[h].pc = "index_info" /\ UNCHANGED tables
            /\ frame'[h].idx \subseteq frame[h].idx
            /\ GoesOn(h, pc, MarkUniques(frame[h].db_cols, {col}), frame[h].next)
      BY Zenon, <2>12, ReadIndexInfoEffect
    <3>2. PICK col \in frame[h].idx :
            /\ frame[h].pc = "index_info" /\ UNCHANGED tables
            /\ frame'[h].idx \subseteq frame[h].idx
            /\ GoesOn(h, pc, MarkUniques(frame[h].db_cols, {col}), frame[h].next)
      BY Zenon, <3>1
    <3> DEFINE d == MarkUniques(frame[h].db_cols, {col})
    <3>3. frame[h].pc \in ColumnsRead /\ pc \in ColumnsRead /\ pc # "keys"
      BY Zenon, <3>2 DEF ColumnsRead
    <3>4. frame[h].idx \subseteq UniqueColumns(n)
      BY Zenon, <1>2, <3>2, <3>3
    <3>5. {col} \subseteq UniqueColumns(n) /\ frame'[h].idx \subseteq UniqueColumns(n)
      BY Zenon, <3>2, <3>4
    <3>6. SnapshotOf(d, tables[n].cols, Own(n), frame[h].pc # "keys")
      BY Zenon, <1>2, <3>3, <3>5, UniquesAreSnapshot
    <3> HIDE DEF d
    <3>7. SnapshotOf(d, tables[n].cols, Own(n), pc # "keys")
      BY Zenon, <3>2, <3>3, <3>6 DEF SnapshotOf
    <3>8. QED
      BY Zenon, <1>2, <1>7, <3>2, <3>3, <3>5, <3>7 DEF d
  <2>13. QED
    BY Zenon, <1>1, <2>1, <2>2, <2>3, <2>5, <2>6, <2>7, <2>8, <2>9, <2>10, <2>11, <2>12,
       AlterEffect, RevalidateEffect DEF Register
<1>10. \A k \in Handles : Right(k)
  BY Zenon, <1>4, <1>8, <1>9
<1>11. ASSUME NEW k \in Handles
       PROVE  /\ frame'[k].pc \in ColumnsRead => Snapshot(frame[k])'
              /\ frame'[k].pc = "index_info" =>
                   frame'[k].idx \subseteq UniqueColumns(frame[k].req.name)'
  <2>1. Right(k) /\ dialect' = dialect
    BY Zenon, <1>10 DEF TablesGrow
  <2>2. \A m : CatalogTable(m)' = CatalogTable(m)
    BY Zenon, <2>1 DEF CatalogTable
  <2>3. frame'[k].pc \in ColumnsRead => Snapshot(frame[k])'
    BY Zenon, <2>1, <2>2 DEF Snapshot, SnapshotOf, Described, Own
  <2>4. ASSUME frame'[k].pc = "index_info", NEW c \in frame'[k].idx
        PROVE  c \in UniqueColumns(frame[k].req.name)'
    BY Zenon, <2>1, <2>4 DEF UniqueColumns
  <2>5. QED
    BY Zenon, <2>3, <2>4
<1>12. \A n \in Idents : tables'[n] # NoTable => DistinctNames(tables'[n].cols)
  BY Zenon DEF TablesGrow
<1>13. QED
  BY Zenon, <1>11, <1>12 DEF SnapshotInv, DistinctNames, ColumnsRead

-----------------------------------------------------------------------------
(* The induction *)

RegInv ==
  RegType /\ ItersType /\ PendingInv /\ KeepInv /\ IterInv /\ PrefixInv /\ SnapshotInv

\* The invariant holds when the handles are opened.
LEMMA RegInvInit == Init => RegInv
<1> SUFFICES ASSUME Init PROVE RegInv
  OBVIOUS
<1>1. /\ reg = [h \in Handles |-> EmptyRegistry] /\ frame = [h \in Handles |-> Idle]
      /\ iters = [h \in Handles |-> {}] /\ answered = [h \in Handles |-> {}]
      /\ restarts = [h \in Handles |-> 0]
  BY Zenon DEF Init
<1>2. EmptyRegistry \in Registries /\ EmptyRegistry.entries = << >> /\ EmptyRegistry.capacity = 0
  BY DEF EmptyRegistry, Registries
<1>3. \A h \in Handles : /\ reg[h] \in Registries /\ reg[h].entries = << >> /\ reg[h].capacity = 0
                         /\ Len(reg[h].entries) = 0 /\ DOMAIN reg[h].entries = {}
                         /\ frame[h] = Idle /\ Settled(h) = 0
  BY <1>1, <1>2 DEF Settled
<1>4. PICK setup \in Setups :
        /\ dialect = setup.dialect /\ config = setup.config
        /\ tables = [n \in Idents |->
                       IF setup.first[n] = NoTable THEN NoTable
                       ELSE [NewTable(setup.first[n].cols) EXCEPT !.strict = setup.first[n].strict,
                                                                  !.rows = setup.first[n].rows]]
  BY Zenon DEF Init
<1> DEFINE first == setup.first
<1>a. dialect \in Dialects /\ config \in [Handles -> Configs]
  BY Zenon, <1>4, RegistrationAssumption
<1>b. ASSUME NEW n \in Idents, first[n] # NoTable
      PROVE  /\ first[n] \in [strict : BOOLEAN, rows : BOOLEAN, cols : Seq(ColumnDef) \ {<< >>}]
             /\ DistinctNames(first[n].cols)
  BY Zenon, <1>b, RegistrationAssumption DEF DistinctNames
<1>5. ASSUME NEW n \in Idents, tables[n] # NoTable
      PROVE  tables[n] \in Tables /\ DistinctNames(tables[n].cols)
  <2> DEFINE cols == first[n].cols
             t == NewTable(cols)
             b == first[n].strict
             c == first[n].rows
  <2>1. first[n] # NoTable
    BY Zenon, <1>4, <1>5
  <2>2. /\ cols \in Seq(ColumnDef) /\ cols # << >> /\ DistinctNames(cols)
        /\ b \in BOOLEAN /\ c \in BOOLEAN
    BY Zenon, <1>b, <2>1
  <2>3. t \in Tables /\ Len(t.cols) = Len(cols) /\ \A i \in DOMAIN cols : t.cols[i].name = cols[i].name
    BY Zenon, <2>2, NewTableType
  <2>4. tables[n] = [t EXCEPT !.strict = b, !.rows = c]
    BY Zenon, <1>4, <2>1
  <2> HIDE DEF t, b, c, cols
  <2>5. tables[n] \in Tables /\ tables[n].cols = t.cols
    BY Zenon, <2>2, <2>3, <2>4 DEF Tables
  <2>6. DOMAIN t.cols = DOMAIN cols
    BY <2>2, <2>3, ColsType
  <2>7. DistinctNames(t.cols)
    BY SMTT(20), <2>2, <2>3, <2>6 DEF DistinctNames
  <2>8. QED
    BY Zenon, <2>5, <2>7
<1>6. RegType
  <2>1. tables \in [Idents -> Tables \cup {NoTable}]
    <3>1. DOMAIN tables = Idents /\ tables = [n \in Idents |-> tables[n]]
      BY Zenon, <1>4
    <3>2. QED
      BY Zenon, <1>5, <3>1
  <2>2. restarts \in [Handles -> 0..MaxRestarts]
    BY <1>1, RequestsType
  <2>3. /\ reg \in [Handles -> Registries]
        /\ \A h \in Handles : Len(reg[h].entries) <= reg[h].capacity
        /\ frame \in [Handles -> Frames \cup {Idle}]
        /\ answered \in [Handles -> SUBSET Requests]
    BY SMTT(20), <1>1, <1>2, <1>3
  <2>4. QED
    BY Zenon, <1>1, <1>3, <1>a, <2>1, <2>2, <2>3 DEF RegType
<1>7. ItersType
  BY SMTT(20), <1>1, FS_EmptySet, RequestsType DEF ItersType
<1>8. PendingInv
  BY Zenon, <1>3 DEF PendingInv, DistinctNames
<1>9. KeepInv
  <2>1. \A h \in Handles : answered[h] = {}
    BY Zenon, <1>1
  <2>2. ASSUME NEW h \in Handles
        PROVE  /\ {reg[h].entries[i] : i \in 1..Settled(h)} = {}
               /\ {Schema(q.name, q.cols) : q \in answered[h]} = {}
               /\ IsFiniteSet(answered[h]) /\ Cardinality(answered[h]) = Settled(h)
    <3>1. answered[h] = {} /\ Settled(h) = 0 /\ 1..Settled(h) = {}
      BY <1>3, <2>1
    <3>2. IsFiniteSet({}) /\ Cardinality({}) = 0
      BY Zenon, FS_EmptySet
    <3>3. QED
      BY Zenon, <3>1, <3>2, Zenon
  <2>3. QED
    BY Zenon, <2>2, Zenon DEF KeepInv
<1>10. IterInv
  BY Zenon, <1>1 DEF IterInv
<1>11. PrefixInv
  BY <1>3 DEF PrefixInv
<1>12. SnapshotInv
  BY <1>3, <1>5 DEF SnapshotInv, ColumnsRead, Idle
<1>13. QED
  BY Zenon, <1>6, <1>7, <1>8, <1>9, <1>10, <1>11, <1>12 DEF RegInv

\* Every step of every handle keeps the invariant.
LEMMA RegInvStep == RegInv /\ [Next]_vars => RegInv'
<1>1. ASSUME RegInv, Next PROVE RegInv'
  <2>1. RegType /\ ItersType /\ PendingInv /\ KeepInv /\ IterInv /\ PrefixInv /\ SnapshotInv
    BY Zenon, <1>1 DEF RegInv
  <2>2. RegType' /\ TablesGrow
    BY Zenon, <1>1, <2>1, TypeStep
  <2>3. PendingInv' /\ ItersType'
    BY Zenon, <1>1, <2>1, PendingStep, ItersTypeStep
  <2>4. KeepInv' /\ IterInv'
    BY Zenon, <1>1, <2>1, <2>2, <2>3, KeepStep, IterStep
  <2>5. PrefixInv' /\ SnapshotInv'
    BY Zenon, <1>1, <2>1, <2>2, <2>3, PrefixStep, SnapshotStep
  <2>6. QED
    BY Zenon, <2>2, <2>3, <2>4, <2>5 DEF RegInv
<1>2. ASSUME RegInv, UNCHANGED vars PROVE RegInv'
  <2>1. /\ dialect' = dialect /\ tables' = tables /\ config' = config /\ reg' = reg
        /\ frame' = frame /\ iters' = iters /\ answered' = answered
        /\ restarts' = restarts
    BY Zenon, <1>2 DEF vars
  <2>2. RegType'
    BY SMTT(20), <1>2, <2>1, SameDialect DEF RegInv, RegType
  <2>3. ItersType' /\ PendingInv'
    BY <1>2, <2>1 DEF RegInv, ItersType, PendingInv, DistinctNames
  <2>4. \A h : Settled(h)' = Settled(h)
    BY SMTT(20), <2>1 DEF Settled
  <2>5. KeepInv'
    BY SMTT(20), <1>2, <2>1, <2>4 DEF RegInv, KeepInv
  <2>6. IterInv'
    BY ZenonT(30), <1>2, <2>1, <2>4 DEF RegInv, IterInv
  <2>7. PrefixInv'
    <3>1. /\ \A t : type_to_sql_str(t)' = type_to_sql_str(t)
          /\ \A n : CatalogTable(n)' = CatalogTable(n)
      BY <2>1 DEF type_to_sql_str, CatalogTable
    <3>2. SUFFICES ASSUME NEW h \in Handles, NEW i \in 1..Settled(h)'
                   PROVE  Prefix(reg[h].entries[i])'
      BY Zenon DEF PrefixInv
    <3>3. Prefix(reg[h].entries[i])
      BY Zenon, <1>2, <2>4 DEF RegInv, PrefixInv
    <3>4. QED
      BY Zenon, <2>1, <3>1, <3>3 DEF Prefix, PrefixOf, Agrees, AgreeKeys
  <2>8. SnapshotInv'
    <3>1. \A n : CatalogTable(n)' = CatalogTable(n) /\ UniqueColumns(n)' = UniqueColumns(n)
      BY Zenon, <2>1 DEF CatalogTable, UniqueColumns
    <3>2. \A f : Snapshot(f)' = Snapshot(f)
      BY ZenonT(30), <2>1, <3>1 DEF Snapshot, SnapshotOf, Described
    <3>3. QED
      BY ZenonT(30), <1>2, <2>1, <3>1, <3>2 DEF RegInv, SnapshotInv, DistinctNames
  <2>9. QED
    BY Zenon, <2>2, <2>3, <2>5, <2>6, <2>7, <2>8 DEF RegInv
<1>3. QED
  BY Zenon, <1>1, <1>2

\* The invariant holds in every reachable state.
LEMMA RegInvHolds == Spec => []RegInv
BY RegInvInit, RegInvStep, PTL DEF Spec

-----------------------------------------------------------------------------
(* What follows *)

\* The registry, the frames, the tables and the answers keep their types: the array
\* has room for its entries, every entry is a schema some client asked for, and a
\* table that was created is never without columns.
THEOREM RegistrationTypeCorrect == Spec => []TypeOK
<1>1. RegInv => TypeOK
  <2> SUFFICES ASSUME RegInv PROVE TypeOK
    OBVIOUS
  <2>1. RegType /\ ItersType
    BY Zenon DEF RegInv
  <2>2. ASSUME NEW n \in Idents, tables[n] # NoTable
        PROVE  IsTable(tables[n])
    <3>1. tables[n] \in Tables
      BY Zenon, <2>1, <2>2 DEF RegType
    <3>2. /\ tables[n].cols \in Seq(TableCols) /\ tables[n].cols # << >>
          /\ tables[n].strict \in BOOLEAN /\ tables[n].rows \in BOOLEAN
      BY Zenon, <3>1 DEF Tables
    <3>3. \A i \in DOMAIN tables[n].cols : tables[n].cols[i].name \in Idents
      <4>1. \A i \in DOMAIN tables[n].cols : tables[n].cols[i] \in TableCols
        BY <3>2
      <4>2. QED
        BY Zenon, <4>1 DEF TableCols
    <3>4. QED
      BY Zenon, <3>2, <3>3, Zenon DEF IsTable
  <2>3. ASSUME NEW h \in Handles
        PROVE  \A i \in DOMAIN reg[h].entries :
                  \E q \in Requests : reg[h].entries[i] = Schema(q.name, q.cols)
    <3>1. reg[h].entries \in Seq(Schemas)
      BY Zenon, <2>1 DEF RegType, Registries
    <3>2. QED
      BY <3>1 DEF Schemas
  <2>4. ASSUME NEW h \in Handles, frame[h].pc # "idle"
        PROVE  /\ frame[h].pc \in {"create", "info", "keys", "uniques", "index_list", "index_info",
                                   "validate", "alter", "revalidate"}
               /\ frame[h].req \in Requests
               /\ frame[h].next \in 1..(Len(frame[h].req.cols) + 1)
               /\ \A i \in DOMAIN frame[h].db_cols : frame[h].db_cols[i] \in DbColumn
               /\ frame[h].idx \subseteq Idents
    <3>1. frame[h] \in Frames /\ frame[h] # Idle
      BY Zenon, <2>1, <2>4, IdleOrFrame
    <3>2. frame[h].next \in 1..(Len(frame[h].req.cols) + 1)
      BY Zenon, <2>1, <3>1 DEF RegType
    <3>3. frame[h].db_cols \in Seq(DbColumn)
      BY Zenon, <3>1 DEF Frames
    <3>4. QED
      BY <3>1, <3>2, <3>3 DEF Frames
  <2>5. ASSUME NEW h \in Handles
        PROVE  /\ Len(reg[h].entries) <= reg[h].capacity /\ Cardinality(iters[h]) <= MaxIters
               /\ answered[h] \subseteq Requests /\ restarts[h] \in 0..MaxRestarts
    BY Zenon, <2>1 DEF RegType, ItersType
  <2>6. dialect \in Dialects /\ config \in [Handles -> Configs]
    BY Zenon, <2>1 DEF RegType
  <2>7. QED
    BY Zenon, <2>2, <2>3, <2>4, <2>5, <2>6 DEF TypeOK
<1>2. QED
  BY <1>1, RegInvHolds, PTL

\* Whatever statement a registration fails at, and wherever the other handles are,
\* SqlRDBRegisterStruct leaves the registry with exactly the structs it answered OK
\* for: schema_unregister takes back the entry it appended and no other.
THEOREM RegistryMatchesAnswers == Spec => []AnswersAreKept
<1>1. RegInv => AnswersAreKept
  <2> SUFFICES ASSUME RegInv, NEW h \in Handles, frame[h].pc = "idle"
               PROVE  /\ {reg[h].entries[i] : i \in DOMAIN reg[h].entries}
                           = {Schema(q.name, q.cols) : q \in answered[h]}
                      /\ Cardinality(answered[h]) = Len(reg[h].entries)
    BY Zenon DEF AnswersAreKept
  <2>1. RegType /\ PendingInv /\ KeepInv
    BY Zenon DEF RegInv
  <2>2. DOMAIN reg[h].entries = 1..Settled(h) /\ Len(reg[h].entries) = Settled(h)
    BY SMTT(20), <2>1, IdleOrFrame, SettledType
  <2>3. QED
    BY Zenon, <2>1, <2>2 DEF KeepInv
<1>2. QED
  BY <1>1, RegInvHolds, PTL

\* The position an iterator has in the registry's array stays that of its struct,
\* whatever is registered and taken back while it is open.
THEOREM IteratorsKeepTheirEntry == Spec => []IteratorEntryStays
<1>1. RegInv => IteratorEntryStays
  <2> SUFFICES ASSUME RegInv, NEW h \in Handles, NEW it \in iters[h]
               PROVE  it.idx \in DOMAIN reg[h].entries /\ reg[h].entries[it.idx].name = it.name
    BY Zenon DEF IteratorEntryStays
  <2>1. RegType /\ PendingInv /\ IterInv
    BY Zenon DEF RegInv
  <2>2. /\ DOMAIN reg[h].entries = 1..Len(reg[h].entries) /\ Len(reg[h].entries) \in Nat
        /\ Settled(h) \in Nat /\ Settled(h) <= Len(reg[h].entries)
    BY Zenon, <2>1, SettledType
  <2>3. QED
    BY <2>1, <2>2 DEF IterInv
<1>2. QED
  BY <1>1, RegInvHolds, PTL

\* A struct that is registered describes the first columns of its table, for any
\* number of handles that create and migrate tables at the same time, their keys and
\* UNIQUE flags included unless PostgreSQL folds the name: what migrate_table has read of
\* a table stays true of it, because statements only append columns, and the flags that
\* later statements find by name go to the right columns.
THEOREM RegisteredStructsFit == Spec => []RegisteredIsPrefix
<1>1. RegInv => RegisteredIsPrefix
  <2> SUFFICES ASSUME RegInv, NEW h \in Handles, NEW i \in DOMAIN reg[h].entries,
                      frame[h].pc = "idle"
               PROVE  Prefix(reg[h].entries[i])
    BY Zenon DEF RegisteredIsPrefix, Prefix, PrefixOf
  <2>1. RegType /\ PendingInv /\ PrefixInv
    BY Zenon DEF RegInv
  <2>2. DOMAIN reg[h].entries = 1..Settled(h)
    BY Zenon, <2>1, IdleOrFrame, SettledType
  <2>3. QED
    BY Zenon, <2>1, <2>2 DEF PrefixInv
<1>2. QED
  BY <1>1, RegInvHolds, PTL

=============================================================================
