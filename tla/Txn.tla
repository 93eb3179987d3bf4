-------------------------------- MODULE Txn ---------------------------------
(***************************************************************************)
(* The transaction manager of one handle and the calls that write through  *)
(* it.  Each API call holds the handle mutex from entry to exit, so it is  *)
(* one action; what threads may do around the mutex is in HandleThreads.   *)
(*                                                                         *)
(* A condition is abstracted to the set of keys it selects, a batch of     *)
(* WriteMany to the rows it leaves behind (the last write of a key wins),  *)
(* a savepoint name "sp_<n>" to n: the format is injective and fits its    *)
(* 32 bytes for every depth.                                               *)
(***************************************************************************)
EXTENDS PostgresConn

CONSTANTS
  MaxTxDepth,   \* C2SQL_MAX_TX_DEPTH
  Dialects      \* the drivers a handle may have

ASSUME TxnAssumption ==
  /\ MaxTxDepth \in Nat \ {0}
  /\ Names = 0..MaxTxDepth
  /\ Dialects \subseteq {"SQLITE", "POSTGRES"}

VARIABLES
  up,      \* the handle is open
  txn,     \* h->txn: depth and sp_names
  conn,    \* h->driver_ctx and the database behind it
  error,   \* h->error.code, what SqlRDBLastError reports
  ret      \* the last call and the code it returned

vars == <<up, txn, conn, error, ret>>

NESTED_TX      == "ERR_NESTED_TX"
NO_ACTIVE_TX   == "ERR_NO_ACTIVE_TX"
NOT_FOUND      == "ERR_NOT_FOUND"
MULTIPLE_ROWS  == "ERR_MULTIPLE_ROWS"
INVALID_ARG    == "ERR_INVALID_ARG"
UNKNOWN_STRUCT == "ERR_UNKNOWN_STRUCT"
NOT_NULL       == "ERR_NOT_NULL_VIOLATION"
NO_MEMORY      == "ERR_NO_MEMORY"
UNKNOWN_COLUMN == "ERR_UNKNOWN_COLUMN"

Codes == {OK, DRIVER, NESTED_TX, NO_ACTIVE_TX, NOT_FOUND, MULTIPLE_ROWS,
          INVALID_ARG, UNKNOWN_STRUCT, NOT_NULL, NO_MEMORY, UNKNOWN_COLUMN}

Calls == {"Init", "Close", "Crash", "BeginTx", "CommitTx", "RollbackTx",
          "Write", "WriteMany", "Delete", "WriteBlobField"}

\* sp_names[i] of the model is the slot i - 1 of the code; 0 is the empty string.
NoTxn == [depth |-> 0, sp_names |-> [i \in 1..MaxTxDepth |-> 0]]

Txns == [depth : 0..MaxTxDepth, sp_names : [1..MaxTxDepth -> Names]]

TypeOK ==
  /\ up \in BOOLEAN
  /\ txn \in Txns
  /\ conn \in Conn
  /\ error \in Codes
  /\ ret \in [call : Calls, r : Codes]

Returns(call, r) == ret' = [call |-> call, r |-> r]

Init ==
  /\ up = TRUE
  /\ txn = NoTxn
  /\ \E d \in Dialects : conn = Idle(d, [k \in Keys |-> NoRow])
  /\ error = OK
  /\ ret = [call |-> "Init", r |-> OK]

-----------------------------------------------------------------------------
(* SqlRDBBeginTx, SqlRDBCommitTx, SqlRDBRollbackTx *)

\* Faulty variant: RollbackTx forgets to go down one level.
Finish_RollbackKeepsDepth(call, o, depth, sp_names) ==
  /\ conn' = o.c
  /\ Returns(call, o.r)
  /\ error' = IF o.r = OK THEN error ELSE o.r
  /\ txn' = [depth    |-> IF o.r = OK /\ call # "RollbackTx" THEN depth ELSE txn.depth,
             sp_names |-> sp_names]

\* The driver's answer o ends the call: on success the depth moves by one level.
Finish(call, o, depth, sp_names) ==
  /\ conn' = o.c
  /\ Returns(call, o.r)
  /\ error' = IF o.r = OK THEN error ELSE o.r
  /\ txn' = [depth    |-> IF o.r = OK THEN depth ELSE txn.depth,
             sp_names |-> sp_names]

\* Faulty variant: the limit is tested with > instead of >=.
BeginTx_OffByOne ==
  /\ up
  /\ UNCHANGED up
  /\ \/ /\ txn.depth = 0
        /\ \E o \in begin(conn) : Finish("BeginTx", o, 1, txn.sp_names)
     \/ /\ txn.depth \in 1..MaxTxDepth
        /\ \E o \in savepoint(conn, txn.depth + 1) :
              Finish("BeginTx", o, txn.depth + 1, txn.sp_names)

SqlRDBBeginTx ==
  /\ up
  /\ UNCHANGED up
  /\ \/ /\ txn.depth >= MaxTxDepth
        /\ error' = NESTED_TX
        /\ Returns("BeginTx", NESTED_TX)
        /\ UNCHANGED <<txn, conn>>
     \/ /\ txn.depth = 0
        /\ \E o \in begin(conn) : Finish("BeginTx", o, 1, txn.sp_names)
     \/ /\ txn.depth \in 1..(MaxTxDepth - 1)
        /\ LET new_depth == txn.depth + 1
               sp_names  == [txn.sp_names EXCEPT ![new_depth] = new_depth]
           IN  \E o \in savepoint(conn, sp_names[new_depth]) :
                  Finish("BeginTx", o, new_depth, sp_names)

\* CommitTx and RollbackTx outside a transaction; the error context is left alone.
NoActiveTx(call) ==
  /\ txn.depth = 0
  /\ Returns(call, NO_ACTIVE_TX)
  /\ UNCHANGED <<txn, conn, error>>

\* Faulty variant: COMMIT is sent at every level.
CommitTx_Flat ==
  /\ up
  /\ UNCHANGED up
  /\ \/ NoActiveTx("CommitTx")
     \/ /\ txn.depth > 0
        /\ \E o \in commit(conn) : Finish("CommitTx", o, txn.depth - 1, txn.sp_names)

SqlRDBCommitTx ==
  /\ up
  /\ UNCHANGED up
  /\ \/ NoActiveTx("CommitTx")
     \/ /\ txn.depth = 1
        /\ \E o \in commit(conn) : Finish("CommitTx", o, 0, txn.sp_names)
     \/ /\ txn.depth > 1
        /\ \E o \in release_sp(conn, txn.sp_names[txn.depth]) :
              Finish("CommitTx", o, txn.depth - 1, txn.sp_names)

\* Faulty variants: one of the two statements is left out.
RollbackAndRelease_NoRelease(c, name) == rollback_sp(c, name)
RollbackAndRelease_NoRollback(c, name) == release_sp(c, name)

\* ROLLBACK TO keeps the savepoint, so RELEASE follows when it succeeded.
RollbackAndRelease(c, name) ==
  UNION { IF o.r = OK THEN release_sp(o.c, name) ELSE {o}
          : o \in rollback_sp(c, name) }

SqlRDBRollbackTx ==
  /\ up
  /\ UNCHANGED up
  /\ \/ NoActiveTx("RollbackTx")
     \/ /\ txn.depth = 1
        /\ \E o \in rollback(conn) : Finish("RollbackTx", o, 0, txn.sp_names)
     \/ /\ txn.depth > 1
        /\ \E o \in RollbackAndRelease(conn, txn.sp_names[txn.depth]) :
              Finish("RollbackTx", o, txn.depth - 1, txn.sp_names)

-----------------------------------------------------------------------------
(* The calls that write rows *)

\* The call ends before it reaches the database: bad arguments, a name that is
\* not registered (the only one recorded in the error context), the query
\* builder, prepare or bind failing.
Refused(call, errs) ==
  /\ \E r \in errs : /\ Returns(call, r)
                     /\ error' = IF r = UNKNOWN_STRUCT THEN r ELSE error
  /\ UNCHANGED <<txn, conn>>

RefusedErrors == {INVALID_ARG, UNKNOWN_STRUCT, NO_MEMORY, DRIVER}

SqlRDBWrite ==
  /\ up
  /\ UNCHANGED up
  /\ \/ Refused("Write", RefusedErrors \cup {NOT_NULL})
     \/ \E k \in Keys, v \in Vals :
        \E o \in step(conn, [conn.view EXCEPT ![k] = v]) :
           /\ conn' = o.c
           /\ Returns("Write", o.r)
           /\ error' = IF o.r = OK THEN error ELSE o.r
           /\ UNCHANGED txn

\* The rows after the batch m was written over rows; NoRow marks an untouched key.
Over(m, rows) == [k \in Keys |-> IF m[k] = NoRow THEN rows[k] ELSE m[k]]

\* How the loop over the batch can end: every row was stepped, or a bind or a
\* step failed after the rows m (perhaps none) had been.
BatchLoop(c, m) ==
  LET done == Changed(c, Over(m, c.view))
  IN  IF c.failed THEN {Outcome(NOT_NULL, c)} \cup step_fails(c)
      ELSE (IF \E k \in Keys : m[k] # NoRow THEN {Outcome(OK, done)} ELSE {})
             \cup {Outcome(NOT_NULL, done)} \cup step_fails(done)

\* Faulty variants: no ROLLBACK after a failed row; COMMIT after it.
EndImplicit_NoRollback(l) == IF l.r = OK THEN commit(l.c) ELSE {l}
EndImplicit_CommitsAll(l) == commit(l.c)

\* What the implicit transaction does after the loop: its result is dropped.
EndImplicit(l) == IF l.r = OK THEN commit(l.c) ELSE rollback(l.c)

SqlRDBWriteMany ==
  /\ up
  /\ UNCHANGED up
  /\ \/ Refused("WriteMany", RefusedErrors)
     \/ /\ txn.depth = 0
        /\ UNCHANGED <<txn, error>>
        /\ \E b \in begin(conn) :
              \/ /\ b.r # OK
                 /\ conn' = b.c
                 /\ Returns("WriteMany", b.r)
              \/ /\ b.r = OK
                 /\ \E m \in Rows : \E l \in BatchLoop(b.c, m) : \E e \in EndImplicit(l) :
                       /\ conn' = e.c
                       /\ Returns("WriteMany", l.r)
     \/ /\ txn.depth > 0
        /\ UNCHANGED <<txn, error>>
        /\ \E m \in Rows : \E l \in BatchLoop(conn, m) :
              /\ conn' = l.c
              /\ Returns("WriteMany", l.r)

SqlRDBDelete ==
  /\ up
  /\ UNCHANGED up
  /\ \/ Refused("Delete", RefusedErrors \cup {UNKNOWN_COLUMN})
     \/ \E S \in SUBSET Keys :
        \E o \in step(conn, [k \in Keys |-> IF k \in S THEN NoRow ELSE conn.view[k]]) :
           /\ conn' = o.c
           /\ Returns("Delete", o.r)
           /\ UNCHANGED <<txn, error>>

\* count_matching_rows: the rows the condition selects.
Matching(S) == {k \in S : conn.view[k] # NoRow}

\* Writes only when the condition selects exactly one row.
SqlRDBWriteBlobField ==
  /\ up
  /\ UNCHANGED <<up, txn>>
  /\ \/ Refused("WriteBlobField", RefusedErrors \cup {UNKNOWN_COLUMN})
     \/ \* the column exists and is not a BLOB
        /\ Returns("WriteBlobField", INVALID_ARG)
        /\ error' = INVALID_ARG
        /\ UNCHANGED conn
     \/ \* the SELECT that counts fails
        \E o \in step_fails(conn) :
           /\ conn' = o.c
           /\ Returns("WriteBlobField", o.r)
           /\ UNCHANGED error
     \/ \E S \in SUBSET Keys :
        /\ ~conn.failed
        /\ \/ /\ Matching(S) = {}
              /\ Returns("WriteBlobField", NOT_FOUND)
              /\ UNCHANGED <<conn, error>>
           \/ /\ \E j, k \in Matching(S) : j # k
              /\ Returns("WriteBlobField", MULTIPLE_ROWS)
              /\ UNCHANGED <<conn, error>>
           \/ \E k \in Matching(S), v \in Vals :
              /\ Matching(S) = {k}
              /\ \E o \in step(conn, [conn.view EXCEPT ![k] = v]) :
                    /\ conn' = o.c
                    /\ Returns("WriteBlobField", o.r)
                    /\ error' = IF o.r = OK THEN error ELSE o.r

-----------------------------------------------------------------------------
(* Opening and closing *)

\* Close rolls an explicit transaction back, drops the result, and closes the
\* connection, which undoes whatever is still open.
SqlRDBClose ==
  /\ up
  /\ up' = FALSE
  /\ \E o \in IF txn.depth > 0 THEN rollback(conn) ELSE {Outcome(OK, conn)} :
        conn' = close(o.c)
  /\ txn' = NoTxn
  /\ Returns("Close", OK)
  /\ UNCHANGED error

\* The process ends between two calls.
Crash ==
  /\ up
  /\ up' = FALSE
  /\ conn' = close(conn)
  /\ txn' = NoTxn
  /\ Returns("Crash", OK)
  /\ UNCHANGED error

\* A fresh handle on the same database: err_clear and memset of txn.
SqlRDBInit ==
  /\ ~up
  /\ up' = TRUE
  /\ txn' = NoTxn
  /\ error' = OK
  /\ Returns("Init", OK)
  /\ UNCHANGED conn

Next ==
  \/ SqlRDBBeginTx \/ SqlRDBCommitTx \/ SqlRDBRollbackTx
  \/ SqlRDBWrite \/ SqlRDBWriteMany \/ SqlRDBDelete \/ SqlRDBWriteBlobField
  \/ SqlRDBClose \/ Crash \/ SqlRDBInit

Spec == Init /\ [][Next]_vars

-----------------------------------------------------------------------------
(* Properties *)

\* While depth > 0 the engine has a transaction opened by BEGIN, and exactly the
\* savepoints sp_2 .. sp_<depth> that BeginTx created are open, in that order and
\* under the names recorded in sp_names; at depth 0 there is no savepoint.  What
\* CommitTx and RollbackTx send therefore always names the innermost level.
SavepointStack ==
  /\ ~conn.spTx
  /\ txn.depth > 0 => conn.open
  /\ Len(conn.marks) = IF txn.depth = 0 THEN 0 ELSE txn.depth - 1
  /\ \A i \in 1..Len(conn.marks) : conn.marks[i].name = i + 1
  /\ \A i \in 2..txn.depth : txn.sp_names[i] = i

\* c2sql.c's state model: depth == 0 means that no transaction is active.
NoTxAtDepthZero == txn.depth = 0 => ~conn.open

\* A call that reports failure has not changed the committed rows: whichever row
\* of a WriteMany failed and whatever the engine answered to the ROLLBACK that
\* follows, and also when COMMIT itself failed.
FailureKeepsDatabase ==
  [][ret'.r # OK => conn'.db = conn.db]_vars

\* Committed rows change only by a call that ends outside every transaction: no
\* write, inner commit or rollback inside a transaction leaks to the database,
\* and closing the handle or losing the process keeps them as they were.
CommitsOnlyAtDepthZero ==
  [][conn'.db # conn.db => up' /\ txn'.depth = 0 /\ ret'.call \notin {"RollbackTx", "BeginTx"}]_vars

\* A CommitTx that reports success at the outermost level has made the rows of the
\* transaction the committed ones.
CommitKeeps ==
  [][ret'.call = "CommitTx" /\ ret'.r = OK /\ txn.depth = 1 => conn'.db = conn.view]_vars

\* The nested transactions of NestedTx, with the rows saved at each level read
\* off the committed rows (level 1) and the savepoints (the deeper levels).
Saved ==
  IF txn.depth = 0 THEN << >>
  ELSE <<conn.db>> \o [i \in 1..Len(conn.marks) |-> conn.marks[i].rows]

Done ==
  CASE ret.r # OK -> IF ret.call = "WriteMany" THEN "FailBatch" ELSE "Fail"
    [] ret.r = OK /\ ret.call = "BeginTx"    -> "Begin"
    [] ret.r = OK /\ ret.call = "CommitTx"   -> "Commit"
    [] ret.r = OK /\ ret.call = "RollbackTx" -> "Rollback"
    [] ret.r = OK /\ ret.call \in {"Write", "WriteMany", "Delete", "WriteBlobField"} -> "Update"
    [] ret.r = OK /\ ret.call \in {"Init", "Close", "Crash"} -> "Abandon"

Nested == INSTANCE NestedTx
  WITH MaxDepth <- MaxTxDepth, committed <- conn.db, saved <- Saved,
       current <- conn.view, done <- Done

\* BeginTx/CommitTx/RollbackTx and the writes between them implement NestedTx.
RefinesNestedTx == Nested!Spec

=============================================================================
