---------------------------- MODULE MCDataCalls -----------------------------
(* Three schemas: a key and a TEXT, a key and a BLOB, and no key at all. *)
EXTENDS DataCalls, TLC

Col(name, type, size, nullable) ==
  [name |-> name, type |-> type, size |-> size, nullable |-> nullable]

TextSchema  == [cols |-> <<Col("id", "INT32", 4, FALSE), Col("x", "TEXT", 2, TRUE)>>, pk_index |-> 1]
BlobSchema  == [cols |-> <<Col("x", "BLOB", 2, TRUE), Col("id", "INT64", 8, FALSE)>>, pk_index |-> 2]
PlainSchema == [cols |-> <<Col("id", "INT64", 8, FALSE), Col("x", "REAL", 8, TRUE)>>, pk_index |-> 0]

MCSchemas == {TextSchema, BlobSchema, PlainSchema}

\* Members of x: text with its NUL and without room for it, bytes, numbers.
Xs(s) == CASE s = TextSchema  -> {<<1, 0>>, <<1, 1>>}
           [] s = BlobSchema  -> {<<1, 1>>}
           [] s = PlainSchema -> {0, 1}

MakeRow(s, id, x) == IF s = BlobSchema THEN <<x, id>> ELSE <<id, x>>

\* A row with no bitmap, with x NULL, and with a NULL key; one row of each key,
\* the second with x NULL, while an iterator is open.
MCInputs(s, iterating) ==
  LET x0 == CHOOSE x \in Xs(s) : TRUE
      xi == CHOOSE i \in 1..2 : s.cols[i].name = "x"
  IN  IF iterating THEN {[row |-> MakeRow(s, 0, x0), map |-> NULL], [row |-> MakeRow(s, 1, x0), map |-> {xi}]}
      ELSE {[row |-> MakeRow(s, id, x), map |-> m] : id \in {0, 1}, x \in Xs(s), m \in {NULL, {1}, {2}}}

\* Text that is too long for the member, a key that is too large for it; a row
\* that matches while a WriteBlobField is under way.
MCForeign(s, iterating) ==
  CASE s = TextSchema /\ ~iterating -> {<<1, <<1, 1, 1>>>>, <<2, NULL>>}
    [] s = BlobSchema /\ ~iterating -> {<<<<1, 1>>, 1>>}
    [] OTHER -> {}

IdIs(n) == CondInt("id", "EQ", n)

\* Every operator, over the three schemas.
SomeId(s) == CASE s = TextSchema  -> CondInt("id", "GT", 0)
               [] s = BlobSchema  -> CondInt("id", "LE", 0)
               [] s = PlainSchema -> CondInt("id", "LT", 1)
SomeX(s) == CASE s = TextSchema  -> CondText("x", "EQ", <<1>>)
              [] s = BlobSchema  -> CondBlob("x", "NE", <<1, 1>>)
              [] s = PlainSchema -> CondReal("x", "GE", 1)

Pairs(s)  == {CondAnd(IdIs(0), SomeX(s)), CondAnd(SomeX(s), IdIs(0)),
              CondOr(IdIs(0), SomeX(s)), CondOr(SomeX(s), IdIs(0))}
Nested(s) == {CondAnd(CondOr(IdIs(0), IdIs(1)), SomeX(s)), CondAnd(SomeX(s), CondOr(IdIs(1), IdIs(0))),
              CondOr(CondAnd(IdIs(0), SomeX(s)), IdIs(1)), CondOr(IdIs(1), CondAnd(SomeX(s), IdIs(0)))}

MCConds(s, iterating) ==
  IF iterating THEN IF s = BlobSchema THEN {IdIs(0)} ELSE {}
  ELSE {NULL, CondAll, IdIs(0), SomeId(s), SomeX(s), CondInt("nocol", "EQ", 0),
        CondAnd(CondAll, IdIs(0)), CondOr(IdIs(0), CondAll)}
       \cup Pairs(s) \cup Nested(s)

\* Every row, some of them, and a text the engine refuses.
MCIterConds(s) ==
  IF s = PlainSchema THEN {CondAnd(CondAll, IdIs(0))} ELSE {NULL, CondOr(IdIs(0), SomeX(s))}

\* Zeroed buffers with a clear bitmap, used ones with a used bitmap, no bitmap.
MCBuffers(s, iterating) ==
  LET zero == MakeRow(s, 0, IF s = PlainSchema THEN 0 ELSE <<0, 0>>)
      used == MakeRow(s, 1, IF s = PlainSchema THEN 1 ELSE <<2, 2>>)
  IN  {[row |-> used, map |-> {1}]}
      \cup IF iterating THEN {} ELSE {[row |-> zero, map |-> {}], [row |-> used, map |-> NULL]}

MCBytes == {<< >>, <<1, 2, 3>>}
=============================================================================
