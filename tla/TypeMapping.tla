----------------------------- MODULE TypeMapping -----------------------------
(***************************************************************************)
(* type_mapping.c: struct members to bound values and column values back   *)
(* to struct members, with the NULL bitmap.                                *)
(*                                                                         *)
(* A struct is the sequence of its registered members; an integer member   *)
(* is an integer, a TEXT or BLOB member the sequence of its col.size       *)
(* bytes, 0 being NUL.  A stored TEXT or BLOB is the sequence of its       *)
(* bytes.  A bitmap is the set of the columns whose bit is set, or NULL    *)
(* when the caller passes none.                                            *)
(***************************************************************************)
EXTENDS QueryBuilder, FiniteSetsExt

CONSTANTS
  Int32Bits,   \* the width of an INT32 member
  NaN          \* a REAL member that is not a number

ASSUME WidthAssumption == Int32Bits \in Nat \ {0}

WARN_TRUNCATED == "WARN_TRUNCATED"
NOT_NULL       == "ERR_NOT_NULL_VIOLATION"
NO_MEMORY      == "ERR_NO_MEMORY"

INT32_MIN == -(2^(Int32Bits - 1))
INT32_MAX == 2^(Int32Bits - 1) - 1

\* Faulty variant: the value is stored as it came.
cast_int32_NoWrap(v) == v

\* (int32_t)v: the value modulo the width.
cast_int32(v) == ((v - INT32_MIN) % 2^Int32Bits) + INT32_MIN

null_bit_get(map, i) == map # NULL /\ i \in map
null_bit_set(map, S) == IF map = NULL THEN NULL ELSE map \cup S

\* The bytes before the first NUL, all maxlen of them when there is none.
bounded_strlen(s, maxlen) ==
  Min({n \in 0..(maxlen - 1) : s[n + 1] = 0} \cup {maxlen})

\* The value the driver receives.  SQLite stores a REAL that is not a number as NULL.
bind_one(d, col, member) ==
  CASE col.type \in {"INT32", "INT64"} -> member
    [] col.type = "REAL" -> IF d = "SQLITE" /\ member = NaN THEN NULL ELSE member
    [] col.type = "TEXT" -> SubSeq(member, 1, bounded_strlen(member, col.size))
    [] col.type = "BLOB" -> member

\* Faulty variant: a NULL column is skipped, its parameter keeps the last call's value.
tm_bind_row_SkipsNull(d, schema, row, null_map) ==
  [r     |-> OK,
   binds |-> SelectSeq([i \in DOMAIN schema.cols |-> [idx |-> i, v |-> bind_one(d, schema.cols[i], row[i])]],
                       LAMBDA b : ~null_bit_get(null_map, b.idx))]

\* Column i is parameter i.  The first column that may not be NULL and has its
\* bit set ends the call with the columns before it already bound.
tm_bind_row(d, schema, row, null_map) ==
  LET bad   == {i \in DOMAIN schema.cols :
                  null_bit_get(null_map, i) /\ ~schema.cols[i].nullable}
      binds == [i \in DOMAIN schema.cols |->
                  [idx |-> i, v |-> IF null_bit_get(null_map, i) THEN NULL
                                    ELSE bind_one(d, schema.cols[i], row[i])]]
  IN  IF bad = {} THEN [r |-> OK, binds |-> binds]
                  ELSE [r |-> NOT_NULL, binds |-> SubSeq(binds, 1, Min(bad) - 1)]

\* The first n bytes of v laid over the member.
Overlay(v, n, member) == [i \in DOMAIN member |-> IF i <= n THEN v[i] ELSE member[i]]

\* Faulty variant: the terminator's byte is not kept free.
read_one_NoTerminator(col, v, member) ==
  CASE col.type = "INT32" -> [r |-> IF v \in INT32_MIN..INT32_MAX THEN OK ELSE WARN_TRUNCATED,
                              member |-> cast_int32(v)]
    [] col.type \in {"INT64", "REAL"} -> [r |-> OK, member |-> v]
    [] OTHER -> LET n == Min({Len(v), col.size})
                IN  [r |-> IF Len(v) > col.size THEN WARN_TRUNCATED ELSE OK,
                     member |-> Overlay(v, n, member)]

\* One column that is not NULL into its member.  TEXT keeps a byte for the NUL;
\* a BLOB shorter than the member leaves the rest of it as it was.
read_one(col, v, member) ==
  CASE col.type = "INT32" -> [r |-> IF v \in INT32_MIN..INT32_MAX THEN OK ELSE WARN_TRUNCATED,
                              member |-> cast_int32(v)]
    [] col.type \in {"INT64", "REAL"} -> [r |-> OK, member |-> v]
    [] col.type = "TEXT" /\ col.size = 0 -> [r |-> WARN_TRUNCATED, member |-> member]
    [] col.type = "TEXT" /\ col.size > 0 ->
         LET n == Min({Len(v), col.size - 1})
         IN  [r |-> IF Len(v) > col.size - 1 THEN WARN_TRUNCATED ELSE OK,
              member |-> [Overlay(v, n, member) EXCEPT ![n + 1] = 0]]
    [] col.type = "BLOB" ->
         LET n == Min({Len(v), col.size})
         IN  [r |-> IF Len(v) > col.size THEN WARN_TRUNCATED ELSE OK,
              member |-> Overlay(v, n, member)]

\* A result row into a struct and a bitmap: bits are set and never cleared, the
\* member of a NULL column is left alone.  fail is the BLOB column for which the
\* driver runs out of memory, 0 for none: the columns before it are read.
tm_read_row(schema, values, fail, row, map) ==
  LET read  == {i \in DOMAIN schema.cols : fail = 0 \/ i < fail}
      nulls == {i \in read : values[i] = NULL}
      one   == [i \in read \ nulls |-> read_one(schema.cols[i], values[i], row[i])]
  IN  [r   |-> CASE fail # 0 -> NO_MEMORY
                 [] fail = 0 /\ \E i \in DOMAIN one : one[i].r = WARN_TRUNCATED -> WARN_TRUNCATED
                 [] OTHER -> OK,
       row |-> [i \in DOMAIN row |-> IF i \in DOMAIN one THEN one[i].member ELSE row[i]],
       map |-> null_bit_set(map, nulls)]

=============================================================================
