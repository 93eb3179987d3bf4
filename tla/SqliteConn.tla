----------------------------- MODULE SqliteConn -----------------------------
(***************************************************************************)
(* One SQLite connection as sqlite_driver.c drives it: the transaction and *)
(* savepoint state of the engine and the rows it makes visible.  The       *)
(* engine itself is external.  A driver call is an operator that maps a    *)
(* connection to the set of its possible outcomes [r, c]: the result code  *)
(* the caller gets and the connection afterwards.  ERR_DRIVER stands for   *)
(* both failure codes of map_error(): SQLITE_NOMEM is ERR_NO_MEMORY there, *)
(* and no caller of the transaction operations treats the two apart.       *)
(*                                                                         *)
(* A connection is                                                         *)
(*   dialect  the driver that owns it (PostgresConn has the other one);    *)
(*   db     the committed rows, what survives a crash;                     *)
(*   view   the rows this connection sees;                                 *)
(*   open   a transaction is open (the engine is not in autocommit mode);  *)
(*   spTx   that transaction was opened by SAVEPOINT instead of BEGIN, so  *)
(*          releasing its outermost savepoint commits;                     *)
(*   marks  the savepoints, outermost first: name and the rows to go back  *)
(*          to;                                                            *)
(*   failed a statement failed and the transaction takes no other until it *)
(*          is rolled back (PostgreSQL only).                              *)
(*                                                                         *)
(* Faults says which failures the engine may answer with:                  *)
(*   "exec"    BEGIN, ROLLBACK, SAVEPOINT, RELEASE or ROLLBACK TO fails    *)
(*             and changes nothing;                                        *)
(*   "commit"  COMMIT answers SQLITE_BUSY: the transaction stays open;     *)
(*   "step"    a writing statement fails and only it is undone             *)
(*             (SQLITE_CONSTRAINT, SQLITE_BUSY);                           *)
(*   "abort"   a writing statement fails and the engine rolls the whole    *)
(*             transaction back (SQLITE_FULL, SQLITE_IOERR, SQLITE_NOMEM); *)
(*   "pg_exec", "pg_step", "pg_commit"  as PostgresConn says.              *)
(***************************************************************************)
EXTENDS Naturals, Sequences

CONSTANTS
  Keys,     \* primary key values
  Vals,     \* values of the other columns
  NoRow,    \* no row has this key
  Names,    \* savepoint names
  Faults    \* the failures the engine may answer with

ASSUME ConnAssumption ==
  /\ NoRow \notin Vals
  /\ Faults \subseteq {"exec", "commit", "step", "abort", "pg_exec", "pg_step", "pg_commit"}

\* What map_error makes of the engine's codes.
OK     == "OK"
DRIVER == "ERR_DRIVER"

Rows == [Keys -> Vals \cup {NoRow}]
Mark == [name : Names, rows : Rows]
Conn == [dialect : {"SQLITE", "POSTGRES"}, db : Rows, view : Rows, open : BOOLEAN,
         spTx : BOOLEAN, marks : Seq(Mark), failed : BOOLEAN]

Outcome(r, c) == [r |-> r, c |-> c]

\* A failure the engine answers only when the fault is enabled; c is what is left.
Failure(fault, c) == IF fault \in Faults THEN {Outcome(DRIVER, c)} ELSE {}

\* A connection outside any transaction: it sees the committed rows.
Idle(dialect, rows) ==
  [dialect |-> dialect, db |-> rows, view |-> rows, open |-> FALSE, spTx |-> FALSE,
   marks |-> << >>, failed |-> FALSE]

-----------------------------------------------------------------------------
(* Transaction control, each one sqlite3_exec of a fixed text. *)

sqlite_begin(c) ==
  Failure("exec", c) \cup
  { IF c.open THEN Outcome(DRIVER, c)
              ELSE Outcome(OK, [c EXCEPT !.open = TRUE, !.spTx = FALSE]) }

sqlite_commit(c) ==
  Failure("commit", c) \cup
  { IF c.open THEN Outcome(OK, Idle(c.dialect, c.view)) ELSE Outcome(DRIVER, c) }

sqlite_rollback(c) ==
  Failure("exec", c) \cup
  { IF c.open THEN Outcome(OK, Idle(c.dialect, c.db)) ELSE Outcome(DRIVER, c) }

\* Outside a transaction SAVEPOINT opens one.
sqlite_savepoint(c, name) ==
  Failure("exec", c) \cup
  { Outcome(OK, [c EXCEPT !.open  = TRUE,
                          !.spTx  = c.spTx \/ ~c.open,
                          !.marks = Append(c.marks, [name |-> name, rows |-> c.view])]) }

\* The position of the most recent savepoint called name, as a set of at most one.
Newest(c, name) ==
  { i \in 1..Len(c.marks) : /\ c.marks[i].name = name
                            /\ \A j \in (i+1)..Len(c.marks) : c.marks[j].name # name }

sqlite_release_sp(c, name) ==
  Failure("exec", c) \cup
  (IF Newest(c, name) = {} THEN {Outcome(DRIVER, c)} ELSE {}) \cup
  UNION { IF i = 1 /\ c.spTx
          THEN sqlite_commit(c)
          ELSE {Outcome(OK, [c EXCEPT !.marks = SubSeq(c.marks, 1, i - 1)])}
          : i \in Newest(c, name) }

\* Rewinds to the savepoint and keeps it; the ones opened after it are gone.
sqlite_rollback_sp(c, name) ==
  Failure("exec", c) \cup
  (IF Newest(c, name) = {} THEN {Outcome(DRIVER, c)} ELSE {}) \cup
  { Outcome(OK, [c EXCEPT !.view  = c.marks[i].rows,
                          !.marks = SubSeq(c.marks, 1, i)]) : i \in Newest(c, name) }

-----------------------------------------------------------------------------
(* A statement that writes. *)

\* The rows become rows: at once in the database when no transaction is open.
Changed(c, rows) ==
  IF c.open THEN [c EXCEPT !.view = rows] ELSE Idle(c.dialect, rows)

\* How the statement can fail.
sqlite_step_fails(c) == Failure("step", c) \cup Failure("abort", Idle(c.dialect, c.db))

=============================================================================
