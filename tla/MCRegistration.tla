--------------------------- MODULE MCRegistration ---------------------------
(* Structs, databases and configurations for Registration.                   *)
EXTENDS Registration, TLC

CONSTANTS persons, orders, Orders, longest, id, nm, ex, select, long

MCIdents    == {persons, orders, Orders, longest, id, nm, ex, select, long}
MCBadIdents == {select}

\* Names, the longest a column may have, and one for which a UNIQUE column's index has
\* a name that fills its buffer.
MCLength == [n \in MCIdents |-> CASE n = long -> MAX_IDENT_LEN [] n = longest -> INDEX_NAME - 19
                                  [] OTHER -> 6]
MCFold   == [n \in MCIdents |-> IF n = Orders THEN orders ELSE n]

Col(name, type, nullable, pk, unique) ==
  [name |-> name, type |-> type, nullable |-> nullable, pk |-> pk, unique |-> unique,
   size |-> IF type = "INT32" THEN 4 ELSE 8]

Id  == Col(id, "INT64", FALSE, TRUE, FALSE)
IdN == Col(id, "INT64", FALSE, FALSE, FALSE)
Nm  == Col(nm, "TEXT", TRUE, FALSE, FALSE)
Ex  == Col(ex, "REAL", TRUE, FALSE, FALSE)
ExN == Col(ex, "INT32", FALSE, FALSE, FALSE)
ExR == Col(ex, "REAL", FALSE, FALSE, FALSE)
ExB == Col(ex, "BLOB", TRUE, FALSE, FALSE)
ExU == Col(ex, "BLOB", TRUE, FALSE, TRUE)
Pk2 == Col(nm, "TEXT", FALSE, TRUE, TRUE)
Pk3 == Col(nm, "TEXT", TRUE, TRUE, FALSE)
Lng == Col(long, "INT64", TRUE, FALSE, FALSE)
Odd == [Id EXCEPT !.size = 4]

Req(name, cols) == [name |-> name, cols |-> cols]

Cfg(auto_migrate, require_strict, structs) ==
  [auto_migrate |-> auto_migrate, require_strict |-> require_strict, structs |-> structs]

\* Databases with no table, or with one or two.
Empty == [n \in MCIdents |-> NoTable]
With(name, cols, strict, rows) == name :> [cols |-> cols, strict |-> strict, rows |-> rows]

\* Versions of one struct that differ in length or in a flag.
Versions == {Req(persons, <<Id>>), Req(persons, <<Id, Nm, Ex>>), Req(persons, <<Id, Nm, ExR>>)}

Races ==
  [dialect : Dialects,
   first   : {Empty, With(persons, <<Id>>, TRUE, TRUE) @@ Empty,
              With(persons, <<Id>>, FALSE, FALSE) @@ Empty},
   config  : [Handles -> {Cfg(TRUE, FALSE, Versions), Cfg(FALSE, TRUE, Versions)}]]

\* A table gets a UNIQUE column and, in PostgreSQL, a key.
KeyVersions == {Req(orders, <<Ex>>), Req(orders, <<Ex, Pk2>>), Req(orders, <<Ex, Pk3>>)}
UniqueVersions == {Req(persons, <<Id>>), Req(persons, <<Id, ExU>>)}

KeyRaces ==
  [dialect : Dialects, first : {Empty},
   config  : [Handles -> {Cfg(TRUE, FALSE, KeyVersions)}] \cup [Handles -> {Cfg(TRUE, FALSE, UniqueVersions)}]]

\* PostgreSQL folds Orders to orders; one of the two has a key.
FoldRaces ==
  [dialect : {"POSTGRES"},
   first   : {Empty, With(orders, <<Id>>, TRUE, FALSE) @@ Empty,
              With(orders, <<Id>>, TRUE, FALSE) @@ With(Orders, <<IdN>>, TRUE, FALSE) @@ Empty},
   config  : [Handles -> {Cfg(TRUE, FALSE, {Req(Orders, <<Id>>), Req(Orders, <<IdN>>)})}]]

\* Several structs of one client, and what validation refuses; the other is idle.
Registry ==
  {Req(persons, <<Id, ExU>>), Req(orders, <<Id, ExN>>), Req(orders, <<Id, Pk2>>),
   Req(longest, <<ExU>>), Req(nm, <<Id, Lng>>), Req(ex, <<Pk3>>),
   Req(select, <<Id>>), Req(nm, <<Id, Id>>), Req(nm, <<Odd>>), Req(nm, << >>),
   Req(nm, <<Id, Nm, Ex, Pk2>>), Req(id, <<Id, Col(select, "TEXT", TRUE, FALSE, FALSE)>>)}

OneClient ==
  [dialect : {"SQLITE"}, first : {Empty},
   config  : {[k \in Handles |-> Cfg(TRUE, FALSE, IF k = h THEN Registry ELSE {})] : h \in Handles}]

RaceSetups == Races \cup KeyRaces \cup FoldRaces \cup OneClient

\* Two clients bring the same table up to date.
RetryStructs == {Req(persons, <<Id, Nm, ExB>>)}
RetrySetups ==
  [dialect : Dialects, first : {With(persons, <<Id>>, TRUE, TRUE) @@ Empty},
   config  : [Handles -> {Cfg(TRUE, FALSE, RetryStructs)}]]

ConfigsOf(setups)  == {s.config[h] : s \in setups, h \in Handles}
RequestsOf(setups) == UNION {c.structs : c \in ConfigsOf(setups)}

RaceConfigs   == ConfigsOf(RaceSetups)
RaceRequests  == RequestsOf(RaceSetups)
RetryConfigs  == ConfigsOf(RetrySetups)
RetryRequests == RequestsOf(RetrySetups)

HandleSymmetry == Permutations(Handles)

=============================================================================
