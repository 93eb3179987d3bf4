---------------------------- MODULE PostgresConn ----------------------------
(***************************************************************************)
(* One PostgreSQL connection as postgres_driver.c drives it, and the       *)
(* choice between the two drivers that h->driver stands for.  A statement  *)
(* that fails inside a transaction leaves the transaction failed: every    *)
(* statement is refused until ROLLBACK or ROLLBACK TO, and COMMIT rolls    *)
(* back instead; pg_exec looks at the command status only, which is        *)
(* PGRES_COMMAND_OK for that COMMIT too.                                   *)
(*                                                                         *)
(* Faults: "pg_exec"    BEGIN, SAVEPOINT or RELEASE fails;                 *)
(*         "pg_step"    a writing statement fails (a constraint, a lock);  *)
(*         "pg_commit"  COMMIT fails, and the transaction is over.         *)
(***************************************************************************)
EXTENDS SqliteConn

\* c after a statement that failed.
Failed(c) == [c EXCEPT !.failed = c.open]

\* BEGIN inside a transaction is only a warning.
pg_begin(c) ==
  Failure("pg_exec", Failed(c)) \cup
  { IF c.failed THEN Outcome(DRIVER, c) ELSE Outcome(OK, [c EXCEPT !.open = TRUE]) }

\* COMMIT outside a transaction is only a warning, too.
pg_commit(c) ==
  Failure("pg_commit", Idle(c.dialect, c.db)) \cup
  { Outcome(OK, Idle(c.dialect, IF c.failed THEN c.db ELSE c.view)) }

pg_rollback(c) == { Outcome(OK, Idle(c.dialect, c.db)) }

pg_savepoint(c, name) ==
  Failure("pg_exec", Failed(c)) \cup
  { IF c.open /\ ~c.failed
    THEN Outcome(OK, [c EXCEPT !.marks = Append(c.marks, [name |-> name, rows |-> c.view])])
    ELSE Outcome(DRIVER, c) }

pg_release_sp(c, name) ==
  Failure("pg_exec", Failed(c)) \cup
  (IF c.failed \/ Newest(c, name) = {} THEN {Outcome(DRIVER, Failed(c))} ELSE
   { Outcome(OK, [c EXCEPT !.marks = SubSeq(c.marks, 1, i - 1)]) : i \in Newest(c, name) })

\* The way out of a failed transaction that keeps its outer levels.
pg_rollback_sp(c, name) ==
  (IF Newest(c, name) = {} THEN {Outcome(DRIVER, Failed(c))} ELSE {}) \cup
  { Outcome(OK, [c EXCEPT !.view  = c.marks[i].rows,
                          !.marks = SubSeq(c.marks, 1, i),
                          !.failed = FALSE]) : i \in Newest(c, name) }

pg_step_fails(c) ==
  IF c.failed THEN {Outcome(DRIVER, c)} ELSE Failure("pg_step", Failed(c))

-----------------------------------------------------------------------------
(* SqlRDBDriver: the operations the library calls *)

begin(c)    == IF c.dialect = "SQLITE" THEN sqlite_begin(c) ELSE pg_begin(c)
commit(c)   == IF c.dialect = "SQLITE" THEN sqlite_commit(c) ELSE pg_commit(c)
rollback(c) == IF c.dialect = "SQLITE" THEN sqlite_rollback(c) ELSE pg_rollback(c)

savepoint(c, name) ==
  IF c.dialect = "SQLITE" THEN sqlite_savepoint(c, name) ELSE pg_savepoint(c, name)
release_sp(c, name) ==
  IF c.dialect = "SQLITE" THEN sqlite_release_sp(c, name) ELSE pg_release_sp(c, name)
rollback_sp(c, name) ==
  IF c.dialect = "SQLITE" THEN sqlite_rollback_sp(c, name) ELSE pg_rollback_sp(c, name)

step_fails(c) == IF c.dialect = "SQLITE" THEN sqlite_step_fails(c) ELSE pg_step_fails(c)

\* One statement that makes the rows rows.
step(c, rows) ==
  (IF c.failed THEN {} ELSE {Outcome(OK, Changed(c, rows))}) \cup step_fails(c)

\* sqlite3_close_v2, PQfinish, or the end of the process: an open transaction is undone.
close(c) == Idle(c.dialect, c.db)

=============================================================================
