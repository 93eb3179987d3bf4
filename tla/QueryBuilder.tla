---------------------------- MODULE QueryBuilder ----------------------------
(***************************************************************************)
(* Conditions (condition_ast.c), the SQL text qb_build makes of them       *)
(* (query_builder.c), the values bind_cond_values sends after it           *)
(* (c2sql.c), and what the engine reads in that text.                      *)
(*                                                                         *)
(* A text is its statement kind with the lists the builder writes one      *)
(* element at a time: columns, value placeholders, the columns of the ON   *)
(* CONFLICT clause and the tokens after WHERE.  Quotes, commas and the     *)
(* fixed words between the lists are left out; every parenthesis, operator *)
(* and placeholder of the WHERE clause is a token.  The two tree walks,    *)
(* one writing placeholders and one numbering the values, are separate, as *)
(* in the code: that they agree is a property and not an assumption.       *)
(***************************************************************************)
EXTENDS Integers, Sequences, FiniteSets

CONSTANTS
  NULL,      \* SQL NULL, and the NULL pointer
  Unbound    \* a parameter this call has not bound

OK             == "OK"
DRIVER         == "ERR_DRIVER"
INVALID_ARG    == "ERR_INVALID_ARG"
UNKNOWN_COLUMN == "ERR_UNKNOWN_COLUMN"

-----------------------------------------------------------------------------
(* Conditions.  A constructor given NULL, or without memory, answers NULL. *)

\* val is a union, read by the type of the leaf.
CondLeaf(col, op, type, v) ==
  [kind |-> "LEAF", col |-> col, op |-> op, type |-> type, val |-> [t \in {type} |-> v]]
LeafValue(cond) == cond.val[cond.type]

CondInt(col, op, v)  == CondLeaf(col, op, "INT", v)
CondText(col, op, v) == CondLeaf(col, op, "TEXT", v)
CondReal(col, op, v) == CondLeaf(col, op, "REAL", v)
CondBlob(col, op, v) == CondLeaf(col, op, "BLOB", v)
CondAll == [kind |-> "ALL"]
CondAnd(a, b) == IF a = NULL \/ b = NULL THEN NULL
                 ELSE [kind |-> "AND", left |-> a, right |-> b]
CondOr(a, b)  == IF a = NULL \/ b = NULL THEN NULL
                 ELSE [kind |-> "OR", left |-> a, right |-> b]

-----------------------------------------------------------------------------
(* The builder.  A schema is [cols, pk_index]: a sequence of columns       *)
(* [name, type, size, nullable] and the 1-based key column, 0 for none.    *)

op_to_sql_str(op) ==
  CASE op = "NE" -> "!=" [] op = "LT" -> "<" [] op = "LE" -> "<="
    [] op = "GT" -> ">"  [] op = "GE" -> ">=" [] OTHER -> "="

Column(c)      == <<"column", c>>
Word(w)        == <<"word", w>>
Placeholder(n) == <<"param", n>>

\* '$N' for PostgreSQL, '?' (written 0) for SQLite, as the n-th placeholder.
append_placeholder(d, n) == Placeholder(IF d = "POSTGRES" THEN n ELSE 0)

ColNames(schema) == [i \in DOMAIN schema.cols |-> schema.cols[i].name]

schema_has_column(schema, col) == \E i \in DOMAIN schema.cols : schema.cols[i].name = col

RECURSIVE validate_cond_columns(_, _)
validate_cond_columns(cond, schema) ==
  CASE cond.kind = "ALL"  -> TRUE
    [] cond.kind = "LEAF" -> schema_has_column(schema, cond.col)
    [] OTHER -> /\ validate_cond_columns(cond.left, schema)
                /\ validate_cond_columns(cond.right, schema)

RECURSIVE append_cond(_, _, _)

\* Faulty variant: composites are written without parentheses.
append_cond_NoParens(cond, d, n) ==
  CASE cond.kind = "ALL"  -> [toks |-> << >>, n |-> n]
    [] cond.kind = "LEAF" -> [toks |-> <<Column(cond.col), Word(op_to_sql_str(cond.op)),
                                         append_placeholder(d, n + 1)>>,
                              n |-> n + 1]
    [] OTHER -> LET l == append_cond(cond.left, d, n)
                    r == append_cond(cond.right, d, l.n)
                IN  [toks |-> Append(l.toks, Word(cond.kind)) \o r.toks, n |-> r.n]

\* The tokens of cond, after n placeholders, and the placeholders then written.
append_cond(cond, d, n) ==
  CASE cond.kind = "ALL"  -> [toks |-> << >>, n |-> n]
    [] cond.kind = "LEAF" -> [toks |-> <<Column(cond.col), Word(op_to_sql_str(cond.op)),
                                         append_placeholder(d, n + 1)>>,
                              n |-> n + 1]
    [] OTHER -> LET l == append_cond(cond.left, d, n)
                    r == append_cond(cond.right, d, l.n)
                IN  [toks |-> <<Word("(")>> \o Append(l.toks, Word(cond.kind))
                                \o Append(r.toks, Word(")")),
                     n |-> r.n]

cond_needs_where(cond) == cond # NULL /\ cond # CondAll

Built(sql) == [r |-> OK, sql |-> sql]

\* The WHERE clause that ends sql, which has n placeholders so far.
WithWhere(sql, spec, n) ==
  CASE ~cond_needs_where(spec.cond) -> Built(sql)
    [] cond_needs_where(spec.cond) /\ ~validate_cond_columns(spec.cond, spec.schema) ->
         [r |-> UNKNOWN_COLUMN, sql |-> NULL]
    [] OTHER -> Built([sql EXCEPT !.where = append_cond(spec.cond, spec.dialect, n).toks])

Text(op, cols, vals) ==
  [op |-> op, cols |-> cols, vals |-> vals, conflict |-> NULL, set |-> << >>, where |-> << >>]

build_insert(spec) ==
  LET cols == ColNames(spec.schema)
  IN  Text("INSERT", cols, [i \in DOMAIN cols |-> append_placeholder(spec.dialect, i)])

\* Every column but the key is taken from the row that was refused.
build_upsert(spec) ==
  LET cols == ColNames(spec.schema)
      pk   == cols[spec.schema.pk_index]
  IN  [build_insert(spec) EXCEPT !.conflict = pk,
                                 !.set = SelectSeq(cols, LAMBDA c : c # pk)]

build_select(spec) == WithWhere(Text("SELECT", ColNames(spec.schema), << >>), spec, 0)
build_count(spec)  == WithWhere(Text("COUNT", << >>, << >>), spec, 0)
build_delete(spec) == WithWhere(Text("DELETE", << >>, << >>), spec, 0)

\* The new value is the first placeholder, the condition's follow.
build_update_field(spec) ==
  IF schema_has_column(spec.schema, spec.target_col)
  THEN WithWhere(Text("UPDATE", <<spec.target_col>>, <<append_placeholder(spec.dialect, 1)>>), spec, 1)
  ELSE [r |-> UNKNOWN_COLUMN, sql |-> NULL]

build_select_field(spec) ==
  IF schema_has_column(spec.schema, spec.target_col)
  THEN WithWhere(Text("SELECT", <<spec.target_col>>, << >>), spec, 0)
  ELSE [r |-> UNKNOWN_COLUMN, sql |-> NULL]

qb_build(spec) ==
  CASE spec.op = "INSERT"       -> Built(build_insert(spec))
    [] spec.op = "UPSERT"       -> Built(build_upsert(spec))
    [] spec.op = "SELECT"       -> build_select(spec)
    [] spec.op = "COUNT"        -> build_count(spec)
    [] spec.op = "DELETE"       -> build_delete(spec)
    [] spec.op = "UPDATE_FIELD" -> build_update_field(spec)
    [] spec.op = "SELECT_FIELD" -> build_select_field(spec)

-----------------------------------------------------------------------------
(* The values of the leaves, in the order and under the numbers they are   *)
(* bound: a sequence of [idx, v].                                          *)

RECURSIVE bind_cond_values(_, _)

bind_cond_values(cond, idx) ==
  CASE cond = NULL \/ cond = CondAll -> << >>
    [] cond # NULL /\ cond # CondAll /\ cond.kind = "LEAF" -> <<[idx |-> idx, v |-> LeafValue(cond)]>>
    [] OTHER -> LET l == bind_cond_values(cond.left, idx)
                IN  l \o bind_cond_values(cond.right, idx + Len(l))

-----------------------------------------------------------------------------
(* The engine's reading of a text. *)

IsParam(tok) == tok[1] = "param"

\* How many placeholders come before position i of toks, and at it.
ParamsUpTo(toks, i) == Cardinality({j \in 1..i : IsParam(toks[j])})

\* A '?' is numbered by its place in the text; '$N' carries its number.
Numbered(sql) ==
  LET before == Len(sql.vals)
  IN  [i \in DOMAIN sql.where |->
         IF sql.where[i] = Placeholder(0)
         THEN Placeholder(before + ParamsUpTo(sql.where, i))
         ELSE sql.where[i]]

\* The parameters a statement has: pg_count_params takes the largest number.
NumParams(d, sql) ==
  LET all == sql.vals \o Numbered(sql)
      nums == {all[i][2] : i \in {j \in DOMAIN all : IsParam(all[j])}}
  IN  IF d = "POSTGRES"
      THEN CHOOSE n \in nums \cup {0} : \A m \in nums : m <= n
      ELSE ParamsUpTo(all, Len(all))

Depth(toks, i) ==
  Cardinality({j \in 1..i : toks[j] = Word("(")}) - Cardinality({j \in 1..i : toks[j] = Word(")")})

\* Where the word w stands outside every parenthesis: OR binds loosest, then AND.
TopLevel(toks, w) == {i \in DOMAIN toks : toks[i] = Word(w) /\ Depth(toks, i) = 0}
Loosest(toks) == IF TopLevel(toks, "OR") # {} THEN TopLevel(toks, "OR") ELSE TopLevel(toks, "AND")
Before(toks, i) == SubSeq(toks, 1, i - 1)
After(toks, i)  == SubSeq(toks, i + 1, Len(toks))
Inside(toks)    == SubSeq(toks, 2, Len(toks) - 1)

RECURSIVE Parses(_)
Parses(toks) ==
  CASE Loosest(toks) # {} ->
         LET i == CHOOSE i \in Loosest(toks) : TRUE
         IN  Parses(Before(toks, i)) /\ Parses(After(toks, i))
    [] Loosest(toks) = {} /\ toks # << >> /\ toks[1] = Word("(") ->
         toks[Len(toks)] = Word(")") /\ Parses(Inside(toks))
    [] OTHER -> Len(toks) = 3 /\ toks[1][1] = "column" /\ IsParam(toks[3])

\* Text the engine accepts: a condition after WHERE, a column after SET.
Accepted(sql) ==
  /\ sql.where # << >> => Parses(sql.where)
  /\ sql.conflict # NULL => sql.set # << >>

\* A comparison with NULL is never true.  A parameter that was not bound keeps
\* an earlier call's value in a cached statement, taken to be one that matches.
Compare(a, word, b) ==
  CASE a = NULL \/ b = NULL -> FALSE
    [] a # NULL /\ b = Unbound -> TRUE
    [] OTHER -> CASE word = "="  -> a = b [] word = "!=" -> a # b
                  [] word = "<"  -> a < b [] word = "<=" -> a <= b
                  [] word = ">"  -> a > b [] word = ">=" -> a >= b

RECURSIVE Holds(_, _, _)
\* row maps column names to values, params numbers to bound values.
Holds(toks, params, row) ==
  CASE TopLevel(toks, "OR") # {} ->
         LET i == CHOOSE i \in TopLevel(toks, "OR") : TRUE
         IN  Holds(Before(toks, i), params, row) \/ Holds(After(toks, i), params, row)
    [] TopLevel(toks, "OR") = {} /\ TopLevel(toks, "AND") # {} ->
         LET i == CHOOSE i \in TopLevel(toks, "AND") : TRUE
         IN  Holds(Before(toks, i), params, row) /\ Holds(After(toks, i), params, row)
    [] Loosest(toks) = {} /\ toks[1] = Word("(") -> Holds(Inside(toks), params, row)
    [] OTHER -> Compare(row[toks[1][2]], toks[2][2], params[toks[3][2]])

-----------------------------------------------------------------------------
(* The reference: what a condition says about a row, from the tree alone.  *)

RECURSIVE Means(_, _)
Means(cond, row) ==
  CASE cond.kind = "ALL" -> TRUE
    [] cond.kind = "AND" -> Means(cond.left, row) /\ Means(cond.right, row)
    [] cond.kind = "OR"  -> Means(cond.left, row) \/ Means(cond.right, row)
    [] cond.kind = "LEAF" ->
         /\ cond.col \in DOMAIN row /\ row[cond.col] # NULL
         /\ LET a == row[cond.col]
                b == LeafValue(cond)
            IN  CASE cond.op = "EQ" -> a = b
                  [] cond.op = "NE" -> a # b
                  [] cond.op = "LT" -> a < b
                  [] cond.op = "LE" -> a < b \/ a = b
                  [] cond.op = "GT" -> b < a
                  [] cond.op = "GE" -> b < a \/ a = b

=============================================================================
