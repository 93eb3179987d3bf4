--------------------------- MODULE SchemaRegistry ---------------------------
(***************************************************************************)
(* schema_registry.c: the structs one handle knows.  A registry is         *)
(*   entries   the schemas, in the order they were registered;             *)
(*   capacity  the room in the array.                                      *)
(* Where the array is in memory is left out: realloc may move it.          *)
(* A name is a model value with a length; BadIdents are the names with a   *)
(* character that is not allowed, and the reserved words.                  *)
(***************************************************************************)
EXTENDS Naturals, Sequences, FiniteSetsExt

CONSTANTS
  Idents,         \* names of structs and columns
  Length,         \* how long each is
  BadIdents,
  MAX_IDENT_LEN,
  MAX_COLUMNS,    \* C2SQL_MAX_COLUMNS
  FirstCapacity,  \* of the entries array: 8
  NoMemory        \* memory may run out

ASSUME RegistryAssumption ==
  /\ BadIdents \subseteq Idents
  /\ Length \in [Idents -> Nat]
  /\ MAX_IDENT_LEN \in Nat \ {0} /\ MAX_COLUMNS \in Nat \ {0}
  /\ FirstCapacity \in Nat \ {0}
  /\ NoMemory \in BOOLEAN

OK               == "OK"
INVALID_ARG      == "ERR_INVALID_ARG"
INVALID_NAME     == "ERR_INVALID_NAME"
TOO_MANY_COLUMNS == "ERR_TOO_MANY_COLUMNS"
DUPLICATE_SCHEMA == "ERR_DUPLICATE_SCHEMA"
DUPLICATE_COLUMN == "ERR_DUPLICATE_COLUMN"
NO_MEMORY        == "ERR_NO_MEMORY"

Types == {"INT32", "INT64", "REAL", "TEXT", "BLOB"}

\* SqlRDBColumnDef without the offset; the flags as Booleans.
ColumnDef == [name : Idents, type : Types, size : Nat,
              nullable : BOOLEAN, pk : BOOLEAN, unique : BOOLEAN]

identifier_valid(name) ==
  name \notin BadIdents /\ Length[name] \in 1..MAX_IDENT_LEN

\* schema_registry_init, and what schema_registry_destroy leaves.
EmptyRegistry == [entries |-> << >>, capacity |-> 0]

Names(reg) == {reg.entries[i].name : i \in DOMAIN reg.entries}

\* What the validation of column i finds first.
ColumnError(cols, i) ==
  LET col == cols[i]
  IN  CASE ~identifier_valid(col.name) -> INVALID_NAME
        [] identifier_valid(col.name) /\ (\E j \in 1..(i-1) : cols[j].name = col.name) ->
             DUPLICATE_COLUMN
        [] OTHER -> IF \/ col.type = "INT32" /\ col.size # 4
                       \/ col.type = "INT64" /\ col.size # 8
                    THEN INVALID_ARG ELSE OK

\* The error the first failing test reports, in the order of the code.
RegisterError(reg, name, cols) ==
  LET wrong == {i \in DOMAIN cols : ColumnError(cols, i) # OK}
  IN  IF cols = << >>                THEN INVALID_ARG
      ELSE IF Len(cols) > MAX_COLUMNS    THEN TOO_MANY_COLUMNS
      ELSE IF ~identifier_valid(name)    THEN INVALID_NAME
      ELSE IF name \in Names(reg)        THEN DUPLICATE_SCHEMA
      ELSE IF wrong # {}                 THEN ColumnError(cols, Min(wrong))
      ELSE OK

\* The first primary key column; 0 is the code's -1.
PkIndex(cols) ==
  LET pks == {i \in DOMAIN cols : cols[i].pk} IN IF pks = {} THEN 0 ELSE Min(pks)

Schema(name, cols) == [name |-> name, cols |-> cols, pk_index |-> PkIndex(cols)]

\* The array doubles.
registry_grow(reg) == [reg EXCEPT !.capacity = IF @ = 0 THEN FirstCapacity ELSE 2 * @]

\* Faulty variant: the array is not grown when it is full.
RoomFor_Not(reg) == reg

RoomFor(reg) == IF Len(reg.entries) = reg.capacity THEN registry_grow(reg) ELSE reg

\* The possible results [r, reg].  Memory may run out growing the array, or after
\* that copying the name or the columns.
schema_register(reg, name, cols) ==
  LET err   == RegisterError(reg, name, cols)
      roomy == RoomFor(reg)
  IN  IF err # OK THEN {[r |-> err, reg |-> reg]}
      ELSE {[r |-> OK, reg |-> [roomy EXCEPT !.entries = Append(@, Schema(name, cols))]]}
             \cup {[r |-> NO_MEMORY, reg |-> g] : g \in IF NoMemory THEN {roomy, reg} ELSE {}}

\* The position of the entry, as a set of at most one.
schema_lookup(reg, name) == {i \in DOMAIN reg.entries : reg.entries[i].name = name}

\* The array when entry i is gone and the ones behind it have moved down.
Without(entries, i) == SubSeq(entries, 1, i - 1) \o SubSeq(entries, i + 1, Len(entries))

\* Faulty variant: the count goes down twice.
schema_unregister_Twice(reg, name) ==
  LET found == schema_lookup(reg, name)
      left  == Without(reg.entries, Min(found))
  IN  IF found = {} THEN reg ELSE [reg EXCEPT !.entries = SubSeq(left, 1, Len(left) - 1)]

\* The first entry with the name goes.
schema_unregister(reg, name) ==
  LET found == schema_lookup(reg, name)
  IN  IF found = {} THEN reg ELSE [reg EXCEPT !.entries = Without(@, Min(found))]

=============================================================================
