----------------------------- MODULE TxnProofs ------------------------------
(***************************************************************************)
(* Proofs about Txn, for every set of keys and values, every nesting limit *)
(* and every set of faults that the theorem allows.                        *)
(***************************************************************************)
EXTENDS Txn, TLAPS

-----------------------------------------------------------------------------
(* What the driver calls return *)

\* A connection outside any transaction is a connection.
LEMMA IdleConn ==
  ASSUME NEW d \in {"SQLITE", "POSTGRES"}, NEW rows \in Rows
  PROVE  Idle(d, rows) \in Conn
BY DEF Idle, Conn, Mark

\* The same, for the rows of a connection.
LEMMA IdleAgain ==
  ASSUME NEW c \in Conn
  PROVE  /\ Idle(c.dialect, c.db) \in Conn /\ Idle(c.dialect, c.view) \in Conn
         /\ \A rows \in Rows : Idle(c.dialect, rows) \in Conn
<1>1. c.dialect \in {"SQLITE", "POSTGRES"} /\ c.db \in Rows /\ c.view \in Rows
  BY Zenon DEF Conn
<1>2. QED
  BY Zenon, <1>1, IdleConn

\* What a failing call leaves: the connection as it was, or the same transaction
\* marked as failed.
Kept(c, d) ==
  /\ d \in Conn /\ d.dialect = c.dialect /\ d.db = c.db /\ d.view = c.view
  /\ d.open = c.open /\ d.spTx = c.spTx /\ d.marks = c.marks

\* These are the two.
LEMMA KeptIs ==
  ASSUME NEW c \in Conn
  PROVE  Kept(c, c) /\ Kept(c, Failed(c))
<1>1. Kept(c, c)
  BY Zenon DEF Kept
<1>2. Kept(c, Failed(c))
  BY Zenon DEF Kept, Failed, Conn
<1>3. QED
  BY Zenon, <1>1, <1>2

\* BEGIN fails and changes nothing, or leaves a transaction open.
LEMMA BeginOutcome ==
  ASSUME NEW c \in Conn, NEW o \in begin(c)
  PROVE  \/ o.r = DRIVER /\ Kept(c, o.c)
         \/ /\ o.r = OK /\ o.c \in Conn
            /\ o.c.db = c.db /\ o.c.view = c.view /\ o.c.marks = c.marks
            /\ o.c.open /\ (o.c.spTx => c.spTx)
<1> DEFINE d == [c EXCEPT !.open = TRUE, !.spTx = FALSE]
           e == [c EXCEPT !.open = TRUE]
<1>1. d \in Conn /\ d.db = c.db /\ d.view = c.view /\ d.marks = c.marks /\ d.open /\ ~d.spTx
  BY Zenon DEF Conn
<1>2. e \in Conn /\ e.db = c.db /\ e.view = c.view /\ e.marks = c.marks /\ e.open /\ e.spTx = c.spTx
  BY Zenon DEF Conn
<1>3. o \in {Outcome(DRIVER, c), Outcome(DRIVER, Failed(c)), Outcome(OK, d), Outcome(OK, e)}
  BY Zenon DEF begin, sqlite_begin, pg_begin, Failure
<1> HIDE DEF d, e
<1>4. QED
  BY <1>1, <1>2, <1>3, KeptIs DEF Outcome

\* COMMIT fails and changes nothing, or ends the transaction: with the visible rows
\* or, for a failed transaction of PostgreSQL or a COMMIT it refuses, without them.
LEMMA CommitOutcome ==
  ASSUME NEW c \in Conn, NEW o \in commit(c)
  PROVE  /\ o.r \in {OK, DRIVER} /\ o.c \in Conn
         /\ \/ o.r = DRIVER /\ Kept(c, o.c)
            \/ o.r = DRIVER /\ "pg_commit" \in Faults /\ o.c = Idle(c.dialect, c.db)
            \/ o.r = OK /\ o.c \in {Idle(c.dialect, c.view), Idle(c.dialect, c.db)}
<1>1. \/ o = Outcome(DRIVER, c)
      \/ "pg_commit" \in Faults /\ o = Outcome(DRIVER, Idle(c.dialect, c.db))
      \/ o = Outcome(OK, Idle(c.dialect, c.view))
      \/ o = Outcome(OK, Idle(c.dialect, c.db))
  BY Zenon DEF commit, sqlite_commit, pg_commit, Failure
<1>2. Kept(c, c) /\ Idle(c.dialect, c.db) \in Conn /\ Idle(c.dialect, c.view) \in Conn
  BY Zenon, KeptIs, IdleAgain
<1>3. QED
  BY <1>1, <1>2 DEF Outcome

\* ROLLBACK fails and changes nothing, or goes back to the committed rows.
LEMMA RollbackOutcome ==
  ASSUME NEW c \in Conn, NEW o \in rollback(c)
  PROVE  /\ o.r \in {OK, DRIVER} /\ o.c \in Conn
         /\ \/ o.r = DRIVER /\ Kept(c, o.c)
            \/ o.r = OK /\ o.c = Idle(c.dialect, c.db)
<1>1. o \in {Outcome(DRIVER, c), Outcome(OK, Idle(c.dialect, c.db))}
  BY Zenon DEF rollback, sqlite_rollback, pg_rollback, Failure
<1>2. Kept(c, c) /\ Idle(c.dialect, c.db) \in Conn
  BY Zenon, KeptIs, IdleAgain
<1>3. QED
  BY <1>1, <1>2 DEF Outcome

\* SAVEPOINT fails and changes nothing, or adds a savepoint to the others.
LEMMA SavepointOutcome ==
  ASSUME NEW c \in Conn, NEW name \in Names, NEW o \in savepoint(c, name)
  PROVE  \/ o.r = DRIVER /\ Kept(c, o.c)
         \/ /\ o.r = OK /\ o.c \in Conn
            /\ o.c.db = c.db /\ o.c.view = c.view /\ o.c.open
            /\ o.c.spTx = (c.spTx \/ ~c.open)
            /\ o.c.marks = Append(c.marks, [name |-> name, rows |-> c.view])
<1>1. [name |-> name, rows |-> c.view] \in Mark
  BY Zenon DEF Mark, Conn
<1>2. Append(c.marks, [name |-> name, rows |-> c.view]) \in Seq(Mark)
  BY <1>1 DEF Conn
<1> DEFINE more == Append(c.marks, [name |-> name, rows |-> c.view])
           d == [c EXCEPT !.open = TRUE, !.spTx = c.spTx \/ ~c.open, !.marks = more]
           e == [c EXCEPT !.marks = more]
<1>3. /\ d \in Conn /\ d.db = c.db /\ d.view = c.view /\ d.open
      /\ d.spTx = (c.spTx \/ ~c.open) /\ d.marks = more
  BY Zenon, <1>2 DEF Conn
<1>4. /\ e \in Conn /\ e.db = c.db /\ e.view = c.view /\ e.open = c.open
      /\ e.spTx = c.spTx /\ e.marks = more
  BY Zenon, <1>2 DEF Conn
<1>5. \/ o \in {Outcome(DRIVER, c), Outcome(DRIVER, Failed(c)), Outcome(OK, d)}
      \/ c.open /\ o = Outcome(OK, e)
  BY Zenon DEF savepoint, sqlite_savepoint, pg_savepoint, Failure
<1>6. c.open \in BOOLEAN /\ c.spTx \in BOOLEAN
  BY Zenon DEF Conn
<1> HIDE DEF more, d, e
<1>7. CASE o \in {Outcome(DRIVER, c), Outcome(DRIVER, Failed(c))}
  BY <1>7, KeptIs DEF Outcome
<1>8. CASE o = Outcome(OK, d)
  BY Zenon, <1>3, <1>8 DEF Outcome, more
<1>9. CASE c.open /\ o = Outcome(OK, e)
  BY Zenon, <1>4, <1>6, <1>9 DEF Outcome, more
<1>10. QED
  BY Zenon, <1>5, <1>7, <1>8, <1>9

\* When the savepoint is the innermost one and the transaction was opened by BEGIN.
LEMMA ReleaseOutcome ==
  ASSUME NEW c \in Conn, NEW name \in Names, NEW o \in release_sp(c, name),
         ~c.spTx, c.marks # << >>, c.marks[Len(c.marks)].name = name
  PROVE  \/ o.r = DRIVER /\ Kept(c, o.c)
         \/ /\ o.r = OK /\ o.c \in Conn
            /\ o.c.db = c.db /\ o.c.view = c.view /\ o.c.open = c.open /\ o.c.spTx = c.spTx
            /\ o.c.marks = SubSeq(c.marks, 1, Len(c.marks) - 1)
<1> DEFINE n == Len(c.marks)
<1>1. c.marks \in Seq(Mark) /\ n \in Nat /\ n # 0
  BY DEF Conn
<1>2. Newest(c, name) = {n}
  BY <1>1 DEF Newest
<1>3. SubSeq(c.marks, 1, n - 1) \in Seq(Mark)
  BY <1>1
<1> DEFINE d == [c EXCEPT !.marks = SubSeq(c.marks, 1, n - 1)]
<1>4. /\ d \in Conn /\ d.db = c.db /\ d.view = c.view /\ d.open = c.open /\ d.spTx = c.spTx
      /\ d.marks = SubSeq(c.marks, 1, Len(c.marks) - 1)
  BY Zenon, <1>3 DEF Conn
<1>5. o \in {Outcome(DRIVER, c), Outcome(DRIVER, Failed(c)), Outcome(OK, d)}
  BY Zenon, <1>2 DEF release_sp, sqlite_release_sp, pg_release_sp, Failure
<1> HIDE DEF d
<1>6. QED
  BY <1>4, <1>5, KeptIs DEF Outcome

\* ROLLBACK TO the innermost savepoint fails, or restores its rows and keeps it.
LEMMA RollbackToOutcome ==
  ASSUME NEW c \in Conn, NEW name \in Names, NEW o \in rollback_sp(c, name),
         c.marks # << >>, c.marks[Len(c.marks)].name = name
  PROVE  \/ o.r = DRIVER /\ Kept(c, o.c)
         \/ /\ o.r = OK /\ o.c \in Conn
            /\ o.c.db = c.db /\ o.c.open = c.open /\ o.c.spTx = c.spTx
            /\ o.c.marks = c.marks /\ o.c.view = c.marks[Len(c.marks)].rows
<1> DEFINE n == Len(c.marks)
<1>1. c.marks \in Seq(Mark) /\ n \in Nat /\ n # 0
  BY DEF Conn
<1>2. Newest(c, name) = {n}
  BY <1>1 DEF Newest
<1>3. SubSeq(c.marks, 1, n) = c.marks
  BY <1>1
<1>4. c.marks[n].rows \in Rows
  <2>1. n \in 1..Len(c.marks)
    BY <1>1
  <2>2. c.marks[n] \in Mark
    BY <1>1, <2>1
  <2>3. QED
    BY Zenon, <2>2 DEF Mark
<1> DEFINE d == [c EXCEPT !.view = c.marks[n].rows, !.marks = SubSeq(c.marks, 1, n)]
           e == [c EXCEPT !.view = c.marks[n].rows, !.marks = SubSeq(c.marks, 1, n), !.failed = FALSE]
<1>5. /\ d \in Conn /\ d.db = c.db /\ d.open = c.open /\ d.spTx = c.spTx
      /\ d.marks = c.marks /\ d.view = c.marks[Len(c.marks)].rows
  BY Zenon, <1>1, <1>3, <1>4 DEF Conn
<1>6. /\ e \in Conn /\ e.db = c.db /\ e.open = c.open /\ e.spTx = c.spTx
      /\ e.marks = c.marks /\ e.view = c.marks[Len(c.marks)].rows
  BY Zenon, <1>1, <1>3, <1>4 DEF Conn
<1>7. o \in {Outcome(DRIVER, c), Outcome(OK, d), Outcome(OK, e)}
  BY Zenon, <1>2 DEF rollback_sp, sqlite_rollback_sp, pg_rollback_sp, Failure
<1> HIDE DEF d, e
<1>8. QED
  BY <1>5, <1>6, <1>7, KeptIs DEF Outcome

\* A statement that writes keeps the transaction and its savepoints.
LEMMA ChangedConn ==
  ASSUME NEW c \in Conn, NEW rows \in Rows
  PROVE  /\ Changed(c, rows) \in Conn
         /\ c.open => /\ Changed(c, rows).open = c.open
                      /\ Changed(c, rows).spTx = c.spTx
                      /\ Changed(c, rows).marks = c.marks
                      /\ Changed(c, rows).db = c.db
         /\ ~c.open => Changed(c, rows) = Idle(c.dialect, rows)
<1>1. Idle(c.dialect, rows) \in Conn
  BY Zenon, IdleAgain
<1> DEFINE d == [c EXCEPT !.view = rows]
<1>2. d \in Conn /\ d.open = c.open /\ d.spTx = c.spTx /\ d.marks = c.marks /\ d.db = c.db
  BY Zenon DEF Conn
<1>3. CASE c.open
  <2>1. Changed(c, rows) = d
    BY Zenon, <1>3 DEF Changed
  <2> HIDE DEF d
  <2>2. QED
    BY Zenon, <1>2, <1>3, <2>1
<1>4. CASE ~c.open
  BY Zenon, <1>1, <1>4 DEF Changed
<1>5. QED
  BY Zenon, <1>3, <1>4

\* A failing statement keeps the transaction, unless SQLite rolls it back.
LEMMA StepFails ==
  ASSUME NEW c \in Conn, NEW o \in step_fails(c)
  PROVE  /\ o.r = DRIVER /\ o.c \in Conn
         /\ \/ Kept(c, o.c)
            \/ "abort" \in Faults /\ o.c = Idle(c.dialect, c.db)
<1>1. \/ o \in {Outcome(DRIVER, c), Outcome(DRIVER, Failed(c))}
      \/ "abort" \in Faults /\ o = Outcome(DRIVER, Idle(c.dialect, c.db))
  BY Zenon DEF step_fails, sqlite_step_fails, pg_step_fails, Failure
<1>2. Kept(c, c) /\ Kept(c, Failed(c)) /\ Idle(c.dialect, c.db) \in Conn
  BY Zenon, KeptIs, IdleAgain
<1>3. QED
  BY <1>1, <1>2 DEF Outcome, Kept

\* The statement of a writing call succeeds or fails.
LEMMA StepOutcome ==
  ASSUME NEW c \in Conn, NEW rows \in Rows, NEW o \in step(c, rows)
  PROVE  /\ o.r \in {OK, DRIVER} /\ o.c \in Conn
         /\ \/ o.r = OK /\ o.c = Changed(c, rows)
            \/ o.r = DRIVER /\ o \in step_fails(c)
<1>1. o = Outcome(OK, Changed(c, rows)) \/ o \in step_fails(c)
  BY Zenon DEF step
<1>2. QED
  BY <1>1, ChangedConn, StepFails DEF Outcome

\* Whatever the state of the savepoints, RELEASE and ROLLBACK TO yield a code and
\* a connection.
LEMMA SavepointTypes ==
  ASSUME NEW c \in Conn, NEW name \in Names,
         NEW o \in release_sp(c, name) \cup rollback_sp(c, name)
  PROVE  o.r \in {OK, DRIVER} /\ o.c \in Conn
<1> DEFINE cut(i)   == [c EXCEPT !.marks = SubSeq(c.marks, 1, i - 1)]
           back(i)  == [c EXCEPT !.view = c.marks[i].rows, !.marks = SubSeq(c.marks, 1, i)]
           clean(i) == [c EXCEPT !.view = c.marks[i].rows, !.marks = SubSeq(c.marks, 1, i),
                                 !.failed = FALSE]
<1>1. ASSUME NEW i \in Newest(c, name)
      PROVE  cut(i) \in Conn /\ back(i) \in Conn /\ clean(i) \in Conn
  <2>1. c.marks \in Seq(Mark) /\ i \in 1..Len(c.marks)
    BY Zenon DEF Newest, Conn
  <2>2. /\ SubSeq(c.marks, 1, i - 1) \in Seq(Mark)
        /\ SubSeq(c.marks, 1, i) \in Seq(Mark) /\ c.marks[i] \in Mark
    BY <2>1
  <2>3. c.marks[i].rows \in Rows
    BY Zenon, <2>2 DEF Mark
  <2>4. QED
    BY Zenon, <2>2, <2>3 DEF Conn
<1>2. Failed(c) \in Conn
  BY Zenon, KeptIs DEF Kept
<1>3. CASE o \in release_sp(c, name)
  <2>1. \/ o \in {Outcome(DRIVER, c), Outcome(DRIVER, Failed(c))}
        \/ o \in sqlite_commit(c) /\ c.dialect = "SQLITE"
        \/ \E i \in Newest(c, name) : o = Outcome(OK, cut(i))
    BY Zenon, <1>3 DEF release_sp, sqlite_release_sp, pg_release_sp, Failure
  <2> HIDE DEF cut
  <2>2. CASE o \in sqlite_commit(c) /\ c.dialect = "SQLITE"
    BY Zenon, <2>2, CommitOutcome DEF commit
  <2>3. CASE \E i \in Newest(c, name) : o = Outcome(OK, cut(i))
    <3>1. PICK i \in Newest(c, name) : o = Outcome(OK, cut(i))
      BY Zenon, <2>3
    <3>2. cut(i) \in Conn
      BY Zenon, <1>1
    <3>3. QED
      BY Zenon, <3>1, <3>2 DEF Outcome
  <2>4. QED
    BY <1>2, <2>1, <2>2, <2>3 DEF Outcome
<1>4. CASE o \in rollback_sp(c, name)
  <2>1. \/ o \in {Outcome(DRIVER, c), Outcome(DRIVER, Failed(c))}
        \/ \E i \in Newest(c, name) : o \in {Outcome(OK, back(i)), Outcome(OK, clean(i))}
    BY Zenon, <1>4 DEF rollback_sp, sqlite_rollback_sp, pg_rollback_sp, Failure
  <2> HIDE DEF back, clean
  <2>2. CASE \E i \in Newest(c, name) : o \in {Outcome(OK, back(i)), Outcome(OK, clean(i))}
    <3>1. PICK i \in Newest(c, name) : o \in {Outcome(OK, back(i)), Outcome(OK, clean(i))}
      BY Zenon, <2>2
    <3>2. back(i) \in Conn /\ clean(i) \in Conn
      BY Zenon, <1>1
    <3>3. QED
      BY <3>1, <3>2 DEF Outcome
  <2>3. QED
    BY SMTT(20), <1>2, <2>1, <2>2 DEF Outcome
<1>5. QED
  BY Zenon, <1>3, <1>4

-----------------------------------------------------------------------------
(* Types *)

\* How a transaction call ends keeps the types.
LEMMA FinishTypes ==
  ASSUME TypeOK, NEW call \in Calls, NEW o, o.r \in {OK, DRIVER}, o.c \in Conn,
         NEW depth \in 0..MaxTxDepth, NEW sp_names \in [1..MaxTxDepth -> Names],
         Finish(call, o, depth, sp_names), UNCHANGED up
  PROVE  TypeOK'
<1>1. txn' \in Txns
  BY Zenon DEF Finish, Txns, TypeOK
<1>2. ret' \in [call : Calls, r : Codes] /\ error' \in Codes
  BY Zenon DEF Finish, Returns, TypeOK, Codes
<1>3. QED
  BY Zenon, <1>1, <1>2 DEF Finish, TypeOK

\* SqlRDBBeginTx keeps the types.
LEMMA BeginTxTypes == TypeOK /\ SqlRDBBeginTx => TypeOK'
<1> SUFFICES ASSUME TypeOK, SqlRDBBeginTx PROVE TypeOK'
  OBVIOUS
<1>0. txn.depth \in 0..MaxTxDepth /\ txn.sp_names \in [1..MaxTxDepth -> Names]
      /\ conn \in Conn /\ MaxTxDepth \in Nat /\ Names = 0..MaxTxDepth /\ MaxTxDepth # 0
  BY Zenon, TxnAssumption DEF TypeOK, Txns
<1>1. CASE txn.depth >= MaxTxDepth /\ UNCHANGED <<up, txn, conn>>
           /\ error' = NESTED_TX /\ Returns("BeginTx", NESTED_TX)
  BY Zenon, <1>1 DEF TypeOK, Returns, Codes, Calls
<1>2. CASE \E o \in begin(conn) : Finish("BeginTx", o, 1, txn.sp_names)
  <2>1. PICK o \in begin(conn) : Finish("BeginTx", o, 1, txn.sp_names)
    BY Zenon, <1>2
  <2>2. o.r \in {OK, DRIVER} /\ o.c \in Conn
    BY Zenon, <1>0, BeginOutcome DEF Kept
  <2>3. QED
    BY <1>0, <2>1, <2>2, FinishTypes DEF SqlRDBBeginTx, Calls
<1>3. CASE /\ txn.depth \in 1..(MaxTxDepth - 1)
           /\ LET new_depth == txn.depth + 1
                  sp_names  == [txn.sp_names EXCEPT ![new_depth] = new_depth]
              IN  \E o \in savepoint(conn, sp_names[new_depth]) :
                     Finish("BeginTx", o, new_depth, sp_names)
  <2> DEFINE new_depth == txn.depth + 1
             sp_names  == [txn.sp_names EXCEPT ![new_depth] = new_depth]
  <2>1. new_depth \in 0..MaxTxDepth /\ sp_names \in [1..MaxTxDepth -> Names]
        /\ sp_names[new_depth] \in Names
    BY <1>0, <1>3
  <2>2. PICK o \in savepoint(conn, sp_names[new_depth]) :
               Finish("BeginTx", o, new_depth, sp_names)
    BY Zenon, <1>3
  <2> HIDE DEF new_depth, sp_names
  <2>3. o.r \in {OK, DRIVER} /\ o.c \in Conn
    BY Zenon, <1>0, <2>1, SavepointOutcome DEF Kept
  <2>4. QED
    BY <2>1, <2>2, <2>3, FinishTypes DEF SqlRDBBeginTx, Calls
<1>4. QED
  BY Zenon, <1>1, <1>2, <1>3 DEF SqlRDBBeginTx

\* CommitTx and RollbackTx outside a transaction keep the types.
LEMMA NoActiveTxTypes ==
  ASSUME TypeOK, NEW call \in Calls, NoActiveTx(call), UNCHANGED up
  PROVE  TypeOK'
BY Zenon DEF TypeOK, NoActiveTx, Returns, Codes

\* SqlRDBCommitTx keeps the types.
LEMMA CommitTxTypes == TypeOK /\ SqlRDBCommitTx => TypeOK'
<1> SUFFICES ASSUME TypeOK, SqlRDBCommitTx PROVE TypeOK'
  OBVIOUS
<1>0. txn.depth \in 0..MaxTxDepth /\ txn.sp_names \in [1..MaxTxDepth -> Names]
      /\ conn \in Conn /\ MaxTxDepth \in Nat /\ 0 \in 0..MaxTxDepth
      /\ UNCHANGED up /\ "CommitTx" \in Calls
  BY TxnAssumption DEF TypeOK, Txns, SqlRDBCommitTx, Calls
<1>1. CASE NoActiveTx("CommitTx")
  BY Zenon, <1>0, <1>1, NoActiveTxTypes
<1>2. CASE \E o \in commit(conn) : Finish("CommitTx", o, 0, txn.sp_names)
  <2>1. PICK o \in commit(conn) : Finish("CommitTx", o, 0, txn.sp_names)
    BY Zenon, <1>2
  <2>2. o.r \in {OK, DRIVER} /\ o.c \in Conn
    BY Zenon, <1>0, CommitOutcome
  <2>3. QED
    BY <1>0, <2>1, <2>2, FinishTypes
<1>3. CASE txn.depth > 1 /\ \E o \in release_sp(conn, txn.sp_names[txn.depth]) :
                               Finish("CommitTx", o, txn.depth - 1, txn.sp_names)
  <2>1. PICK o \in release_sp(conn, txn.sp_names[txn.depth]) :
               Finish("CommitTx", o, txn.depth - 1, txn.sp_names)
    BY Zenon, <1>3
  <2>2. txn.sp_names[txn.depth] \in Names /\ txn.depth - 1 \in 0..MaxTxDepth
    BY <1>0, <1>3
  <2>3. o.r \in {OK, DRIVER} /\ o.c \in Conn
    BY Zenon, <1>0, <2>2, SavepointTypes
  <2>4. QED
    BY <1>0, <2>1, <2>2, <2>3, FinishTypes
<1>4. QED
  BY Zenon, <1>1, <1>2, <1>3 DEF SqlRDBCommitTx

\* SqlRDBRollbackTx keeps the types.
LEMMA RollbackTxTypes == TypeOK /\ SqlRDBRollbackTx => TypeOK'
<1> SUFFICES ASSUME TypeOK, SqlRDBRollbackTx PROVE TypeOK'
  OBVIOUS
<1>0. txn.depth \in 0..MaxTxDepth /\ txn.sp_names \in [1..MaxTxDepth -> Names]
      /\ conn \in Conn /\ MaxTxDepth \in Nat /\ 0 \in 0..MaxTxDepth
      /\ UNCHANGED up /\ "RollbackTx" \in Calls
  BY TxnAssumption DEF TypeOK, Txns, SqlRDBRollbackTx, Calls
<1>1. CASE NoActiveTx("RollbackTx")
  BY Zenon, <1>0, <1>1, NoActiveTxTypes
<1>2. CASE \E o \in rollback(conn) : Finish("RollbackTx", o, 0, txn.sp_names)
  <2>1. PICK o \in rollback(conn) : Finish("RollbackTx", o, 0, txn.sp_names)
    BY Zenon, <1>2
  <2>2. o.r \in {OK, DRIVER} /\ o.c \in Conn
    BY Zenon, <1>0, RollbackOutcome
  <2>3. QED
    BY <1>0, <2>1, <2>2, FinishTypes
<1>3. CASE txn.depth > 1 /\ \E o \in RollbackAndRelease(conn, txn.sp_names[txn.depth]) :
                               Finish("RollbackTx", o, txn.depth - 1, txn.sp_names)
  <2>1. PICK o \in RollbackAndRelease(conn, txn.sp_names[txn.depth]) :
               Finish("RollbackTx", o, txn.depth - 1, txn.sp_names)
    BY Zenon, <1>3
  <2>2. txn.sp_names[txn.depth] \in Names /\ txn.depth - 1 \in 0..MaxTxDepth
    BY <1>0, <1>3
  <2>3. PICK p \in rollback_sp(conn, txn.sp_names[txn.depth]) :
               IF p.r = OK THEN o \in release_sp(p.c, txn.sp_names[txn.depth]) ELSE o = p
    BY Zenon DEF RollbackAndRelease
  <2>4. p.r \in {OK, DRIVER} /\ p.c \in Conn
    BY Zenon, <1>0, <2>2, SavepointTypes
  <2>5. o.r \in {OK, DRIVER} /\ o.c \in Conn
    BY Zenon, <2>2, <2>3, <2>4, SavepointTypes
  <2>6. QED
    BY <1>0, <2>1, <2>2, <2>5, FinishTypes
<1>4. QED
  BY Zenon, <1>1, <1>2, <1>3 DEF SqlRDBRollbackTx

\* A call that leaves the nesting alone keeps the types when the connection does.
LEMMA WriteTypes ==
  ASSUME TypeOK, NEW call \in Calls, NEW r \in Codes, Returns(call, r),
         conn' \in Conn, error' \in Codes, UNCHANGED <<up, txn>>
  PROVE  TypeOK'
BY Zenon DEF TypeOK, Returns

\* A call refused before it reaches the database keeps the types.
LEMMA RefusedTypes ==
  ASSUME TypeOK, NEW call \in Calls, NEW errs \in SUBSET Codes,
         Refused(call, errs), UNCHANGED up
  PROVE  TypeOK'
<1>1. PICK r \in errs : Returns(call, r) /\ error' = IF r = UNKNOWN_STRUCT THEN r ELSE error
  BY Zenon DEF Refused
<1>2. error' \in Codes /\ conn' \in Conn /\ r \in Codes
  BY Zenon, <1>1 DEF TypeOK, Refused
<1>3. QED
  BY Zenon, <1>1, <1>2, WriteTypes DEF Refused

\* SqlRDBWrite keeps the types.
LEMMA WriteCallTypes == TypeOK /\ SqlRDBWrite => TypeOK'
<1> SUFFICES ASSUME TypeOK, SqlRDBWrite PROVE TypeOK'
  OBVIOUS
<1>1. CASE Refused("Write", RefusedErrors \cup {NOT_NULL})
  BY Zenon, <1>1, RefusedTypes DEF SqlRDBWrite, RefusedErrors, Codes, Calls
<1>2. ASSUME NEW k \in Keys, NEW v \in Vals,
             NEW o \in step(conn, [conn.view EXCEPT ![k] = v]),
             conn' = o.c, Returns("Write", o.r), UNCHANGED txn,
             error' = IF o.r = OK THEN error ELSE o.r
      PROVE  TypeOK'
  <2>1. [conn.view EXCEPT ![k] = v] \in Rows
    BY Zenon DEF TypeOK, Conn, Rows
  <2>2. o.r \in {OK, DRIVER} /\ o.c \in Conn
    BY Zenon, <2>1, StepOutcome DEF TypeOK
  <2>3. o.r \in Codes /\ error' \in Codes /\ "Write" \in Calls /\ UNCHANGED up
    BY Zenon, <1>2, <2>2 DEF TypeOK, Codes, Calls, SqlRDBWrite
  <2>4. QED
    BY Zenon, <1>2, <2>2, <2>3, WriteTypes
<1>3. QED
  BY Zenon, <1>1, <1>2 DEF SqlRDBWrite

\* SqlRDBDelete keeps the types.
LEMMA DeleteTypes == TypeOK /\ SqlRDBDelete => TypeOK'
<1> SUFFICES ASSUME TypeOK, SqlRDBDelete PROVE TypeOK'
  OBVIOUS
<1>1. CASE Refused("Delete", RefusedErrors \cup {UNKNOWN_COLUMN})
  BY Zenon, <1>1, RefusedTypes DEF SqlRDBDelete, RefusedErrors, Codes, Calls
<1>2. ASSUME NEW S \in SUBSET Keys,
             NEW o \in step(conn, [k \in Keys |-> IF k \in S THEN NoRow ELSE conn.view[k]]),
             conn' = o.c, Returns("Delete", o.r), UNCHANGED <<txn, error>>
      PROVE  TypeOK'
  <2>1. [k \in Keys |-> IF k \in S THEN NoRow ELSE conn.view[k]] \in Rows
    BY Zenon DEF TypeOK, Conn, Rows
  <2>2. o.r \in {OK, DRIVER} /\ o.c \in Conn
    BY Zenon, <2>1, StepOutcome DEF TypeOK
  <2>3. o.r \in Codes /\ error' \in Codes /\ "Delete" \in Calls /\ UNCHANGED up
    BY Zenon, <1>2, <2>2 DEF TypeOK, Codes, Calls, SqlRDBDelete
  <2>4. QED
    BY Zenon, <1>2, <2>2, <2>3, WriteTypes
<1>3. QED
  BY Zenon, <1>1, <1>2 DEF SqlRDBDelete

\* SqlRDBWriteBlobField keeps the types.
LEMMA WriteBlobTypes == TypeOK /\ SqlRDBWriteBlobField => TypeOK'
<1> SUFFICES ASSUME TypeOK, SqlRDBWriteBlobField PROVE TypeOK'
  OBVIOUS
<1>0. UNCHANGED <<up, txn>> /\ "WriteBlobField" \in Calls /\ conn \in Conn
      /\ {INVALID_ARG, NOT_FOUND, MULTIPLE_ROWS} \subseteq Codes
  BY Zenon DEF SqlRDBWriteBlobField, Calls, Codes, TypeOK
<1>1. CASE Refused("WriteBlobField", RefusedErrors \cup {UNKNOWN_COLUMN})
  BY Zenon, <1>0, <1>1, RefusedTypes DEF RefusedErrors, Codes
<1>2. CASE Returns("WriteBlobField", INVALID_ARG) /\ error' = INVALID_ARG /\ UNCHANGED conn
  BY Zenon, <1>0, <1>2, WriteTypes
<1>3. ASSUME NEW S \in SUBSET Keys, NEW r \in {NOT_FOUND, MULTIPLE_ROWS},
             Returns("WriteBlobField", r), UNCHANGED <<conn, error>>
      PROVE  TypeOK'
  BY Zenon, <1>0, <1>3, WriteTypes DEF TypeOK
<1>4. ASSUME NEW S \in SUBSET Keys, NEW k \in Matching(S), NEW v \in Vals,
             NEW o \in step(conn, [conn.view EXCEPT ![k] = v]),
             conn' = o.c, Returns("WriteBlobField", o.r),
             error' = IF o.r = OK THEN error ELSE o.r
      PROVE  TypeOK'
  <2>1. [conn.view EXCEPT ![k] = v] \in Rows
    BY Zenon DEF TypeOK, Conn, Rows, Matching
  <2>2. o.r \in {OK, DRIVER} /\ o.c \in Conn
    BY Zenon, <1>0, <2>1, StepOutcome
  <2>3. o.r \in Codes /\ error' \in Codes
    BY Zenon, <1>4, <2>2 DEF TypeOK, Codes
  <2>4. QED
    BY Zenon, <1>0, <1>4, <2>2, <2>3, WriteTypes
<1>5. ASSUME NEW o \in step_fails(conn), conn' = o.c, Returns("WriteBlobField", o.r),
             UNCHANGED error
      PROVE  TypeOK'
  <2>1. o.r \in Codes /\ o.c \in Conn /\ error' \in Codes
    BY Zenon, <1>0, <1>5, StepFails DEF Codes, TypeOK
  <2>2. QED
    BY Zenon, <1>0, <1>5, <2>1, WriteTypes
<1>6. QED
  BY Zenon, <1>1, <1>2, <1>3, <1>4, <1>5 DEF SqlRDBWriteBlobField

\* The loop of WriteMany over its batch: the rows done are written, and then all
\* of it succeeded, or a row was refused, or its statement failed.
LEMMA BatchOutcome ==
  ASSUME NEW c \in Conn, NEW m \in Rows, NEW l \in BatchLoop(c, m)
  PROVE  \E d \in {c, Changed(c, Over(m, c.view))} :
           /\ d \in Conn
           /\ l \in {Outcome(OK, d), Outcome(NOT_NULL, d)} \cup step_fails(d)
<1>1. Over(m, c.view) \in Rows
  BY Zenon DEF Over, Rows, Conn
<1>2. Changed(c, Over(m, c.view)) \in Conn
  BY Zenon, <1>1, ChangedConn
<1>3. CASE c.failed
  BY Zenon, <1>3 DEF BatchLoop
<1>4. CASE ~c.failed
  <2>1. l \in {Outcome(OK, Changed(c, Over(m, c.view))), Outcome(NOT_NULL, Changed(c, Over(m, c.view)))}
              \cup step_fails(Changed(c, Over(m, c.view)))
    BY Zenon, <1>4 DEF BatchLoop
  <2>2. QED
    BY Zenon, <1>2, <2>1
<1>5. QED
  BY Zenon, <1>3, <1>4

\* The types of what the loop leaves.
LEMMA BatchTypes ==
  ASSUME NEW c \in Conn, NEW m \in Rows, NEW l \in BatchLoop(c, m)
  PROVE  l.r \in {OK, NOT_NULL, DRIVER} /\ l.c \in Conn
<1>1. PICK d \in {c, Changed(c, Over(m, c.view))} :
           /\ d \in Conn
           /\ l \in {Outcome(OK, d), Outcome(NOT_NULL, d)} \cup step_fails(d)
  BY Zenon, BatchOutcome
<1>2. QED
  BY <1>1, StepFails DEF Outcome

\* SqlRDBWriteMany keeps the types.
LEMMA WriteManyTypes == TypeOK /\ SqlRDBWriteMany => TypeOK'
<1> SUFFICES ASSUME TypeOK, SqlRDBWriteMany PROVE TypeOK'
  OBVIOUS
<1>0. UNCHANGED up /\ "WriteMany" \in Calls /\ conn \in Conn /\ error \in Codes
      /\ {OK, NOT_NULL, DRIVER} \subseteq Codes
  BY Zenon DEF SqlRDBWriteMany, Calls, Codes, TypeOK
<1>1. CASE Refused("WriteMany", RefusedErrors)
  BY Zenon, <1>0, <1>1, RefusedTypes DEF RefusedErrors, Codes
<1>2. ASSUME NEW b \in begin(conn), b.r # OK, conn' = b.c,
             Returns("WriteMany", b.r), UNCHANGED <<txn, error>>
      PROVE  TypeOK'
  <2>1. b.r \in Codes /\ b.c \in Conn
    BY Zenon, <1>0, BeginOutcome DEF Kept
  <2>2. QED
    BY Zenon, <1>0, <1>2, <2>1, WriteTypes
<1>3. ASSUME NEW b \in begin(conn), NEW m \in Rows, NEW l \in BatchLoop(b.c, m),
             NEW e \in EndImplicit(l), conn' = e.c, Returns("WriteMany", l.r),
             UNCHANGED <<txn, error>>
      PROVE  TypeOK'
  <2>1. b.c \in Conn
    BY Zenon, <1>0, BeginOutcome DEF Kept
  <2>2. l.r \in Codes /\ l.c \in Conn
    BY Zenon, <1>0, <2>1, BatchTypes
  <2>3. e.c \in Conn
    BY Zenon, <2>2, CommitOutcome, RollbackOutcome DEF EndImplicit
  <2>4. QED
    BY Zenon, <1>0, <1>3, <2>2, <2>3, WriteTypes
<1>4. ASSUME NEW m \in Rows, NEW l \in BatchLoop(conn, m), conn' = l.c,
             Returns("WriteMany", l.r), UNCHANGED <<txn, error>>
      PROVE  TypeOK'
  <2>1. l.r \in Codes /\ l.c \in Conn
    BY Zenon, <1>0, BatchTypes
  <2>2. QED
    BY Zenon, <1>0, <1>4, <2>1, WriteTypes
<1>5. QED
  BY Zenon, <1>1, <1>2, <1>3, <1>4 DEF SqlRDBWriteMany

\* Closing, losing the process and opening keep the types.
LEMMA LifecycleTypes == TypeOK /\ (SqlRDBClose \/ Crash \/ SqlRDBInit) => TypeOK'
<1> SUFFICES ASSUME TypeOK, SqlRDBClose \/ Crash \/ SqlRDBInit PROVE TypeOK'
  OBVIOUS
<1>1. NoTxn \in Txns
  BY TxnAssumption DEF NoTxn, Txns
<1>2. ASSUME NEW c \in Conn
      PROVE  close(c) \in Conn
  BY Zenon, IdleAgain DEF close
<1>3. {"Close", "Crash", "Init"} \subseteq Calls /\ OK \in Codes
  BY Zenon DEF Calls, Codes
<1>4. CASE SqlRDBClose
  <2>1. PICK o \in IF txn.depth > 0 THEN rollback(conn) ELSE {Outcome(OK, conn)} :
               conn' = close(o.c)
    BY Zenon, <1>4 DEF SqlRDBClose
  <2>2. o.c \in Conn
    BY <2>1, RollbackOutcome DEF Outcome, TypeOK
  <2>3. QED
    BY Zenon, <1>1, <1>2, <1>3, <1>4, <2>1, <2>2 DEF SqlRDBClose, Returns, TypeOK
<1>5. CASE Crash
  BY Zenon, <1>1, <1>2, <1>3, <1>5 DEF Crash, Returns, TypeOK
<1>6. CASE SqlRDBInit
  BY Zenon, <1>1, <1>3, <1>6 DEF SqlRDBInit, Returns, TypeOK
<1>7. QED
  BY Zenon, <1>4, <1>5, <1>6

\* The first state has the types.
LEMMA InitTypes == Init => TypeOK
<1> SUFFICES ASSUME Init PROVE TypeOK
  OBVIOUS
<1>1. [k \in Keys |-> NoRow] \in Rows
  BY Zenon DEF Rows
<1>2. conn \in Conn
  BY Zenon, <1>1, IdleConn, TxnAssumption DEF Init
<1>3. txn \in Txns
  BY TxnAssumption DEF Init, NoTxn, Txns
<1>4. QED
  BY Zenon, <1>2, <1>3 DEF Init, TypeOK, Calls, Codes

\* Every step keeps the types.
LEMMA NextTypes == TypeOK /\ [Next]_vars => TypeOK'
<1> SUFFICES ASSUME TypeOK, [Next]_vars PROVE TypeOK'
  OBVIOUS
<1>1. CASE UNCHANGED vars
  BY Zenon, <1>1 DEF vars, TypeOK
<1>2. CASE Next
  BY Zenon, <1>2, BeginTxTypes, CommitTxTypes, RollbackTxTypes, WriteCallTypes, WriteManyTypes,
     DeleteTypes, WriteBlobTypes, LifecycleTypes DEF Next
<1>3. QED
  BY Zenon, <1>1, <1>2

\* The variables of the transaction manager keep their types, whatever fails: the
\* depth stays between 0 and C2SQL_MAX_TX_DEPTH, so sp_names is never indexed
\* outside its array.
THEOREM TypeCorrect == Spec => []TypeOK
<1>1. QED
  BY InitTypes, NextTypes, PTL DEF Spec

-----------------------------------------------------------------------------
(* The savepoint stack *)

\* SavepointStack is not inductive alone: SqlRDBInit starts at depth 0 on the
\* connection it finds, and a closed handle has left no transaction behind on it.
ClosedIsIdle == ~up => ~conn.open

\* SavepointStack for a connection, a depth and the recorded names.
StackOf(c, depth, sp_names) ==
  /\ ~c.spTx
  /\ depth > 0 => c.open
  /\ Len(c.marks) = IF depth = 0 THEN 0 ELSE depth - 1
  /\ \A i \in 1..Len(c.marks) : c.marks[i].name = i + 1
  /\ \A i \in 2..depth : sp_names[i] = i

\* StackOf is SavepointStack as a predicate of a connection and a depth.
LEMMA StackIs == SavepointStack <=> StackOf(conn, txn.depth, txn.sp_names)
BY Zenon DEF SavepointStack, StackOf

\* Idle connections are the ones of depth 0.
LEMMA IdleStack ==
  ASSUME NEW d, NEW rows, NEW sp_names
  PROVE  StackOf(Idle(d, rows), 0, sp_names)
<1>1. Idle(d, rows).spTx = FALSE /\ Idle(d, rows).marks = << >>
  BY Zenon DEF Idle
<1>2. QED
  BY <1>1 DEF StackOf

\* A failing call keeps the stack.
LEMMA KeptStack ==
  ASSUME NEW c, NEW d, NEW depth, NEW sp_names, StackOf(c, depth, sp_names), Kept(c, d)
  PROVE  StackOf(d, depth, sp_names)
BY Zenon DEF Kept, StackOf

\* A write keeps the stack.
LEMMA ChangedStack ==
  ASSUME NEW c \in Conn, NEW rows \in Rows, NEW depth \in Nat, NEW sp_names,
         StackOf(c, depth, sp_names)
  PROVE  StackOf(Changed(c, rows), depth, sp_names)
<1>1. CASE c.open
  BY Zenon, <1>1, ChangedConn DEF StackOf
<1>2. CASE ~c.open
  <2>1. depth = 0
    BY <1>2 DEF StackOf
  <2>2. QED
    BY <1>2, <2>1, ChangedConn, IdleStack
<1>3. QED
  BY Zenon, <1>1, <1>2

\* The statement of a writing call keeps the stack, also when it fails.
LEMMA StepStack ==
  ASSUME "abort" \notin Faults, NEW c \in Conn, NEW rows \in Rows, NEW depth \in Nat,
         NEW sp_names, StackOf(c, depth, sp_names), NEW o \in step(c, rows) \cup step_fails(c)
  PROVE  StackOf(o.c, depth, sp_names)
<1>1. CASE o \in step_fails(c)
  BY Zenon, <1>1, StepFails, KeptStack
<1>2. CASE o.c = Changed(c, rows)
  BY Zenon, <1>2, ChangedStack
<1>3. QED
  BY Zenon, <1>1, <1>2, StepOutcome

\* The loop of WriteMany keeps the stack, however it ends.
LEMMA BatchStack ==
  ASSUME "abort" \notin Faults, NEW c \in Conn, NEW m \in Rows, NEW depth \in Nat,
         NEW sp_names, StackOf(c, depth, sp_names), NEW l \in BatchLoop(c, m)
  PROVE  StackOf(l.c, depth, sp_names)
<1>1. Over(m, c.view) \in Rows
  BY Zenon DEF Over, Rows, Conn
<1>2. PICK d \in {c, Changed(c, Over(m, c.view))} :
           /\ d \in Conn
           /\ l \in {Outcome(OK, d), Outcome(NOT_NULL, d)} \cup step_fails(d)
  BY Zenon, BatchOutcome
<1>3. StackOf(d, depth, sp_names)
  BY Zenon, <1>1, <1>2, ChangedStack
<1>4. CASE l \in step_fails(d)
  BY Zenon, <1>2, <1>3, <1>4, StepFails, KeptStack
<1>5. QED
  BY <1>2, <1>3, <1>4 DEF Outcome

\* SqlRDBBeginTx keeps the stack: the new savepoint is named after the new depth.
LEMMA BeginTxStack ==
  ASSUME TypeOK, SavepointStack, SqlRDBBeginTx
  PROVE  SavepointStack'
<1>0. txn.depth \in 0..MaxTxDepth /\ txn.sp_names \in [1..MaxTxDepth -> Names]
      /\ conn \in Conn /\ MaxTxDepth \in Nat /\ Names = 0..MaxTxDepth
      /\ StackOf(conn, txn.depth, txn.sp_names) /\ conn.marks \in Seq(Mark)
  BY Zenon, TxnAssumption, StackIs DEF TypeOK, Txns, Conn
<1>1. CASE UNCHANGED <<txn, conn>>
  BY Zenon, <1>1 DEF SavepointStack
<1>2. CASE txn.depth = 0 /\ \E o \in begin(conn) : Finish("BeginTx", o, 1, txn.sp_names)
  <2>1. PICK o \in begin(conn) : Finish("BeginTx", o, 1, txn.sp_names)
    BY Zenon, <1>2
  <2>2. CASE o.r = DRIVER /\ Kept(conn, o.c)
    <3>1. conn' = o.c /\ txn'.depth = txn.depth /\ txn'.sp_names = txn.sp_names
      BY Zenon, <2>1, <2>2 DEF Finish, OK, DRIVER
    <3>2. StackOf(o.c, txn.depth, txn.sp_names)
      BY Zenon, <1>0, <2>2, KeptStack
    <3>3. QED
      BY Zenon, <3>1, <3>2 DEF SavepointStack, StackOf
  <2>3. CASE /\ o.r = OK /\ o.c \in Conn
             /\ o.c.db = conn.db /\ o.c.view = conn.view /\ o.c.marks = conn.marks
             /\ o.c.open /\ (o.c.spTx => conn.spTx)
    <3>1. conn' = o.c /\ txn'.depth = 1 /\ txn'.sp_names = txn.sp_names
      BY Zenon, <2>1, <2>3 DEF Finish
    <3>2. StackOf(o.c, 1, txn.sp_names)
      BY <1>0, <1>2, <2>3 DEF StackOf
    <3>3. QED
      BY Zenon, <3>1, <3>2 DEF SavepointStack, StackOf
  <2>4. QED
    BY Zenon, <1>0, <2>2, <2>3, BeginOutcome
<1>3. CASE /\ txn.depth \in 1..(MaxTxDepth - 1)
           /\ LET new_depth == txn.depth + 1
                  sp_names  == [txn.sp_names EXCEPT ![new_depth] = new_depth]
              IN  \E o \in savepoint(conn, sp_names[new_depth]) :
                     Finish("BeginTx", o, new_depth, sp_names)
  <2> DEFINE new_depth == txn.depth + 1
             sp_names  == [txn.sp_names EXCEPT ![new_depth] = new_depth]
  <2>1. /\ new_depth \in Names /\ sp_names[new_depth] = new_depth
        /\ new_depth \in Nat /\ new_depth = txn.depth + 1 /\ new_depth \in 2..MaxTxDepth
        /\ \A i \in 2..txn.depth : sp_names[i] = i
    <3>1. txn.depth \in Nat /\ txn.depth >= 1 /\ txn.depth + 1 <= MaxTxDepth
      BY <1>0, <1>3
    <3>2. \A i \in 2..txn.depth : txn.sp_names[i] = i
      BY Zenon, <1>0 DEF StackOf
    <3>3. QED
      BY <1>0, <3>1, <3>2
  <2>2. PICK o \in savepoint(conn, new_depth) : Finish("BeginTx", o, new_depth, sp_names)
    BY Zenon, <1>3, <2>1
  <2> HIDE DEF new_depth, sp_names
  <2>3. CASE o.r = DRIVER /\ Kept(conn, o.c)
    <3>1. conn' = o.c /\ txn'.depth = txn.depth /\ txn'.sp_names = sp_names
      BY Zenon, <2>2, <2>3 DEF Finish, OK, DRIVER
    <3>2. StackOf(conn, txn.depth, sp_names)
      BY Zenon, <1>0, <2>1 DEF StackOf
    <3>3. StackOf(o.c, txn.depth, sp_names)
      BY Zenon, <2>3, <3>2, KeptStack
    <3>4. QED
      BY Zenon, <3>1, <3>3 DEF SavepointStack, StackOf
  <2>4. CASE /\ o.r = OK /\ o.c \in Conn
             /\ o.c.db = conn.db /\ o.c.view = conn.view /\ o.c.open
             /\ o.c.spTx = (conn.spTx \/ ~conn.open)
             /\ o.c.marks = Append(conn.marks, [name |-> new_depth, rows |-> conn.view])
    <3>1. conn' = o.c /\ txn'.depth = new_depth /\ txn'.sp_names = sp_names
      BY Zenon, <2>2, <2>4 DEF Finish
    <3>0. /\ txn.depth > 0 /\ conn.open /\ ~conn.spTx
          /\ Len(conn.marks) = txn.depth - 1
          /\ \A i \in 1..Len(conn.marks) : conn.marks[i].name = i + 1
      <4>1. txn.depth > 0 /\ txn.depth # 0
        BY <1>0, <1>3
      <4>2. /\ ~conn.spTx
            /\ txn.depth > 0 => conn.open
            /\ Len(conn.marks) = IF txn.depth = 0 THEN 0 ELSE txn.depth - 1
            /\ \A i \in 1..Len(conn.marks) : conn.marks[i].name = i + 1
        BY Zenon, <1>0, Zenon DEF StackOf
      <4>3. QED
        BY Zenon, <4>1, <4>2, Zenon
    <3>2. ~o.c.spTx
      BY Zenon, <2>4, <3>0, Zenon
    <3> DEFINE new == [name |-> new_depth, rows |-> conn.view]
    <3>3. /\ Len(o.c.marks) = new_depth - 1
          /\ \A i \in 1..Len(o.c.marks) : o.c.marks[i].name = i + 1
      <4>0. new.name = new_depth /\ o.c.marks = Append(conn.marks, new)
        BY Zenon, <2>4
      <4> HIDE DEF new
      <4>1. /\ Len(o.c.marks) = Len(conn.marks) + 1
            /\ \A i \in 1..Len(conn.marks) : o.c.marks[i] = conn.marks[i]
            /\ o.c.marks[Len(conn.marks) + 1] = new
        BY <1>0, <4>0
      <4>2. ASSUME NEW i \in 1..Len(o.c.marks)
            PROVE  o.c.marks[i].name = i + 1
        <5>1. CASE i \in 1..Len(conn.marks)
          BY Zenon, <3>0, <4>1, <5>1
        <5>2. CASE i = Len(conn.marks) + 1
          <6>1. o.c.marks[i].name = new_depth
            BY Zenon, <4>0, <4>1, <5>2
          <6>2. i = new_depth - 1
            BY <1>0, <2>1, <3>0, <5>2
          <6>3. QED
            BY <2>1, <6>1, <6>2
        <5>3. QED
          BY <1>0, <4>1, <5>1, <5>2
      <4>3. Len(o.c.marks) = new_depth - 1
        BY <1>0, <2>1, <3>0, <4>1
      <4>4. QED
        BY Zenon, <4>2, <4>3
    <3>4. \A i \in 2..new_depth : sp_names[i] = i
      BY <1>0, <2>1
    <3>5. StackOf(o.c, new_depth, sp_names)
      BY <2>1, <2>4, <3>2, <3>3, <3>4 DEF StackOf
    <3>6. QED
      BY Zenon, <3>1, <3>5 DEF SavepointStack, StackOf
  <2>5. QED
    BY <1>0, <2>1, <2>3, <2>4, SavepointOutcome
<1>4. QED
  BY Zenon, <1>1, <1>2, <1>3 DEF SqlRDBBeginTx

\* Closing the innermost savepoint leaves the stack of one level less.
LEMMA PoppedStack ==
  ASSUME NEW c \in Conn, NEW d \in Conn, NEW depth \in Nat, depth > 1, NEW sp_names,
         StackOf(c, depth, sp_names), d.open = c.open, d.spTx = c.spTx,
         d.marks = SubSeq(c.marks, 1, Len(c.marks) - 1)
  PROVE  StackOf(d, depth - 1, sp_names)
<1>1. /\ c.marks \in Seq(Mark) /\ Len(c.marks) = depth - 1 /\ c.open /\ ~c.spTx
      /\ \A i \in 1..Len(c.marks) : c.marks[i].name = i + 1
      /\ \A i \in 2..depth : sp_names[i] = i
  BY DEF StackOf, Conn
<1>2. /\ Len(d.marks) = depth - 2
      /\ \A i \in 1..(depth - 2) : d.marks[i] = c.marks[i]
  BY <1>1
<1>3. d.open /\ ~d.spTx
  BY Zenon, <1>1
<1>4. QED
  BY <1>1, <1>2, <1>3 DEF StackOf

\* The name recorded for the current level is the innermost savepoint's.
LEMMA InnermostName ==
  ASSUME TypeOK, SavepointStack, txn.depth > 1
  PROVE  /\ txn.sp_names[txn.depth] \in Names
         /\ ~conn.spTx /\ conn.marks # << >>
         /\ conn.marks[Len(conn.marks)].name = txn.sp_names[txn.depth]
<1>1. /\ txn.depth \in Nat /\ txn.depth \in 1..MaxTxDepth
      /\ txn.sp_names \in [1..MaxTxDepth -> Names]
      /\ conn.marks \in Seq(Mark) /\ StackOf(conn, txn.depth, txn.sp_names)
  BY TxnAssumption, StackIs DEF TypeOK, Txns, Conn
<1>2. Len(conn.marks) = txn.depth - 1 /\ Len(conn.marks) \in 1..Len(conn.marks)
  BY <1>1 DEF StackOf
<1>3. conn.marks[Len(conn.marks)].name = txn.depth
  BY <1>1, <1>2 DEF StackOf
<1>4. txn.sp_names[txn.depth] = txn.depth
  BY <1>1 DEF StackOf
<1>5. conn.marks # << >>
  BY <1>1, <1>2
<1>6. ~conn.spTx
  BY Zenon, <1>1 DEF StackOf
<1>7. txn.sp_names[txn.depth] \in Names
  BY Zenon, <1>1
<1>8. QED
  BY Zenon, <1>3, <1>4, <1>5, <1>6, <1>7

\* What the driver left is a stack for the depth the call records.
LEMMA FinishStack ==
  ASSUME NEW call, NEW o, NEW depth, NEW sp_names, Finish(call, o, depth, sp_names),
         StackOf(o.c, IF o.r = OK THEN depth ELSE txn.depth, sp_names)
  PROVE  SavepointStack'
<1>1. /\ conn' = o.c /\ txn'.sp_names = sp_names
      /\ txn'.depth = IF o.r = OK THEN depth ELSE txn.depth
  BY Zenon DEF Finish
<1>2. QED
  BY <1>1 DEF SavepointStack, StackOf

\* A call that leaves the depth alone only has to leave a stack for it.
LEMMA SameTxnStack ==
  ASSUME UNCHANGED txn, StackOf(conn', txn.depth, txn.sp_names)
  PROVE  SavepointStack'
BY Zenon DEF SavepointStack, StackOf

\* SqlRDBCommitTx keeps the stack.
LEMMA CommitTxStack ==
  ASSUME "pg_commit" \notin Faults, TypeOK, SavepointStack, SqlRDBCommitTx
  PROVE  SavepointStack'
<1>0. /\ txn.depth \in Nat /\ conn \in Conn /\ StackOf(conn, txn.depth, txn.sp_names)
      /\ conn.view \in Rows
  BY TxnAssumption, StackIs DEF TypeOK, Txns, Conn
<1>1. CASE NoActiveTx("CommitTx")
  BY Zenon, <1>0, <1>1, SameTxnStack DEF NoActiveTx
<1>2. CASE txn.depth = 1 /\ \E o \in commit(conn) : Finish("CommitTx", o, 0, txn.sp_names)
  <2>1. PICK o \in commit(conn) : Finish("CommitTx", o, 0, txn.sp_names)
    BY Zenon, <1>2
  <2>2. StackOf(o.c, IF o.r = OK THEN 0 ELSE txn.depth, txn.sp_names)
    BY <1>0, CommitOutcome, IdleStack, KeptStack DEF OK, DRIVER
  <2>3. QED
    BY Zenon, <2>1, <2>2, FinishStack
<1>3. CASE /\ txn.depth > 1
           /\ \E o \in release_sp(conn, txn.sp_names[txn.depth]) :
                 Finish("CommitTx", o, txn.depth - 1, txn.sp_names)
  <2>1. PICK o \in release_sp(conn, txn.sp_names[txn.depth]) :
               Finish("CommitTx", o, txn.depth - 1, txn.sp_names)
    BY Zenon, <1>3
  <2>2. StackOf(o.c, IF o.r = OK THEN txn.depth - 1 ELSE txn.depth, txn.sp_names)
    <3>1. CASE o.r = DRIVER /\ Kept(conn, o.c)
      BY Zenon, <1>0, <3>1, KeptStack DEF OK, DRIVER
    <3>2. CASE o.r = OK /\ o.c \in Conn
               /\ o.c.db = conn.db /\ o.c.view = conn.view
               /\ o.c.open = conn.open /\ o.c.spTx = conn.spTx
               /\ o.c.marks = SubSeq(conn.marks, 1, Len(conn.marks) - 1)
      BY SMTT(20), <1>0, <1>3, <3>2, PoppedStack
    <3>3. QED
      BY Zenon, <1>0, <1>3, <3>1, <3>2, InnermostName, ReleaseOutcome
  <2>3. QED
    BY Zenon, <2>1, <2>2, FinishStack
<1>4. QED
  BY Zenon, <1>1, <1>2, <1>3 DEF SqlRDBCommitTx

\* SqlRDBRollbackTx keeps the stack, also when RELEASE fails after ROLLBACK TO.
LEMMA RollbackTxStack ==
  ASSUME TypeOK, SavepointStack, SqlRDBRollbackTx
  PROVE  SavepointStack'
<1>0. /\ txn.depth \in Nat /\ conn \in Conn /\ StackOf(conn, txn.depth, txn.sp_names)
      /\ conn.db \in Rows
  BY TxnAssumption, StackIs DEF TypeOK, Txns, Conn
<1>1. CASE NoActiveTx("RollbackTx")
  BY Zenon, <1>0, <1>1, SameTxnStack DEF NoActiveTx
<1>2. CASE txn.depth = 1 /\ \E o \in rollback(conn) : Finish("RollbackTx", o, 0, txn.sp_names)
  <2>1. PICK o \in rollback(conn) : Finish("RollbackTx", o, 0, txn.sp_names)
    BY Zenon, <1>2
  <2>2. StackOf(o.c, IF o.r = OK THEN 0 ELSE txn.depth, txn.sp_names)
    BY <1>0, RollbackOutcome, IdleStack, KeptStack DEF OK, DRIVER
  <2>3. QED
    BY Zenon, <2>1, <2>2, FinishStack
<1>3. CASE /\ txn.depth > 1
           /\ \E o \in RollbackAndRelease(conn, txn.sp_names[txn.depth]) :
                 Finish("RollbackTx", o, txn.depth - 1, txn.sp_names)
  <2> DEFINE name == txn.sp_names[txn.depth]
  <2>0. /\ name \in Names /\ ~conn.spTx /\ conn.marks # << >>
        /\ conn.marks[Len(conn.marks)].name = name
    BY Zenon, <1>3, InnermostName
  <2>1. PICK o \in RollbackAndRelease(conn, name) :
               Finish("RollbackTx", o, txn.depth - 1, txn.sp_names)
    BY Zenon, <1>3
  <2>2. PICK b \in rollback_sp(conn, name) :
               o \in IF b.r = OK THEN release_sp(b.c, name) ELSE {b}
    BY Zenon, <2>1 DEF RollbackAndRelease
  <2> HIDE DEF name
  <2>3. \/ b.r = DRIVER /\ Kept(conn, b.c)
        \/ /\ b.r = OK /\ b.c \in Conn
           /\ b.c.db = conn.db /\ b.c.open = conn.open /\ b.c.spTx = conn.spTx
           /\ b.c.marks = conn.marks /\ b.c.view = conn.marks[Len(conn.marks)].rows
    BY Zenon, <1>0, <2>0, <2>2, RollbackToOutcome
  <2>4. StackOf(o.c, IF o.r = OK THEN txn.depth - 1 ELSE txn.depth, txn.sp_names)
    <3>1. CASE b.r = DRIVER /\ Kept(conn, b.c)
      BY SMTT(20), <1>0, <2>2, <3>1, KeptStack DEF OK, DRIVER
    <3>2. CASE /\ b.r = OK /\ b.c \in Conn
               /\ b.c.db = conn.db /\ b.c.open = conn.open /\ b.c.spTx = conn.spTx
               /\ b.c.marks = conn.marks /\ b.c.view = conn.marks[Len(conn.marks)].rows
      <4>1. o \in release_sp(b.c, name)
        BY Zenon, <2>2, <3>2
      <4>2. StackOf(b.c, txn.depth, txn.sp_names)
        BY Zenon, <1>0, <1>3, <3>2 DEF StackOf
      <4>3. CASE o.r = DRIVER /\ Kept(b.c, o.c)
        BY SMTT(20), <4>2, <4>3, KeptStack DEF OK, DRIVER
      <4>4. CASE o.r = OK /\ o.c \in Conn
                 /\ o.c.db = b.c.db /\ o.c.view = b.c.view
                 /\ o.c.open = b.c.open /\ o.c.spTx = b.c.spTx
                 /\ o.c.marks = SubSeq(b.c.marks, 1, Len(b.c.marks) - 1)
        BY Zenon, <1>0, <1>3, <3>2, <4>2, <4>4, PoppedStack
      <4>5. QED
        <5>1. /\ b.c \in Conn /\ ~b.c.spTx /\ b.c.marks # << >>
              /\ b.c.marks[Len(b.c.marks)].name = name
          BY Zenon, <2>0, <3>2
        <5>2. QED
          BY Zenon, <2>0, <4>1, <4>3, <4>4, <5>1, ReleaseOutcome
    <3>3. QED
      BY Zenon, <2>3, <3>1, <3>2
  <2>5. QED
    BY Zenon, <2>1, <2>4, FinishStack
<1>4. QED
  BY Zenon, <1>1, <1>2, <1>3 DEF SqlRDBRollbackTx

\* Write, Delete and WriteBlobField keep the stack.
LEMMA WritesStack ==
  ASSUME "abort" \notin Faults, TypeOK, SavepointStack,
         SqlRDBWrite \/ SqlRDBDelete \/ SqlRDBWriteBlobField
  PROVE  SavepointStack'
<1>0. /\ txn.depth \in Nat /\ conn \in Conn /\ StackOf(conn, txn.depth, txn.sp_names)
      /\ conn.view \in Rows
  BY TxnAssumption, StackIs DEF TypeOK, Txns, Conn
<1>1. CASE UNCHANGED <<txn, conn>>
  BY Zenon, <1>0, <1>1, SameTxnStack
<1>2. CASE UNCHANGED txn /\ \E rows \in Rows : \E o \in step(conn, rows) \cup step_fails(conn) : conn' = o.c
  BY Zenon, <1>0, <1>2, StepStack, SameTxnStack
<1>3. \A k \in Keys, v \in Vals : [conn.view EXCEPT ![k] = v] \in Rows
  BY Zenon, <1>0 DEF Rows
<1>4. \A S \in SUBSET Keys : [k \in Keys |-> IF k \in S THEN NoRow ELSE conn.view[k]] \in Rows
  BY Zenon, <1>0 DEF Rows
<1>5. CASE SqlRDBWrite
  BY Zenon, <1>1, <1>2, <1>3, <1>5 DEF SqlRDBWrite, Refused
<1>6. CASE SqlRDBDelete
  BY Zenon, <1>1, <1>2, <1>4, <1>6 DEF SqlRDBDelete, Refused
<1>7. CASE SqlRDBWriteBlobField
  BY Zenon, <1>0, <1>1, <1>2, <1>3, <1>7 DEF SqlRDBWriteBlobField, Refused, Matching
<1>8. QED
  BY Zenon, <1>5, <1>6, <1>7

\* WriteMany keeps the stack, also when the COMMIT it ignores fails.
LEMMA WriteManyStack ==
  ASSUME {"abort", "pg_commit"} \cap Faults = {}, TypeOK, SavepointStack, SqlRDBWriteMany
  PROVE  SavepointStack'
<1>0. /\ txn.depth \in Nat /\ conn \in Conn /\ StackOf(conn, txn.depth, txn.sp_names)
      /\ UNCHANGED txn
  BY TxnAssumption, StackIs DEF TypeOK, Txns, SqlRDBWriteMany, Refused
<1>1. CASE Refused("WriteMany", RefusedErrors)
  BY Zenon, <1>0, <1>1, SameTxnStack DEF Refused
<1>2. CASE txn.depth = 0 /\ \E b \in begin(conn) : b.r # OK /\ conn' = b.c
  BY Zenon, <1>0, <1>2, BeginOutcome, KeptStack, SameTxnStack
<1>3. CASE /\ txn.depth = 0
           /\ \E b \in begin(conn) :
                 /\ b.r = OK
                 /\ \E m \in Rows : \E l \in BatchLoop(b.c, m) : \E e \in EndImplicit(l) : conn' = e.c
  <2>1. PICK b \in begin(conn) :
               /\ b.r = OK
               /\ \E m \in Rows : \E l \in BatchLoop(b.c, m) : \E e \in EndImplicit(l) : conn' = e.c
    BY Zenon, <1>3
  <2>2. b.c \in Conn /\ b.c.open /\ (b.c.spTx => conn.spTx) /\ b.c.marks = conn.marks
    BY Zenon, <1>0, <2>1, BeginOutcome DEF OK, DRIVER
  <2>3. StackOf(b.c, 0, txn.sp_names)
    BY Zenon, <1>0, <1>3, <2>2 DEF StackOf
  <2>m. PICK m \in Rows : \E l \in BatchLoop(b.c, m) : \E e \in EndImplicit(l) : conn' = e.c
    BY Zenon, <2>1
  <2>l. PICK l \in BatchLoop(b.c, m) : \E e \in EndImplicit(l) : conn' = e.c
    BY Zenon, <2>m
  <2>4. PICK e \in EndImplicit(l) : conn' = e.c
    BY Zenon, <2>l
  <2>5. StackOf(l.c, 0, txn.sp_names)
    BY Zenon, <2>2, <2>3, BatchStack
  <2>6. l.c \in Conn /\ l.c.db \in Rows /\ l.c.view \in Rows
    BY Zenon, <2>2, BatchTypes DEF Conn
  <2>7. e \in commit(l.c) \/ e \in rollback(l.c)
    BY Zenon DEF EndImplicit
  <2>8. StackOf(e.c, 0, txn.sp_names)
    BY <2>5, <2>6, <2>7, CommitOutcome, RollbackOutcome, IdleStack, KeptStack
  <2>9. QED
    BY Zenon, <1>0, <1>3, <2>4, <2>8, SameTxnStack
<1>4. CASE txn.depth > 0 /\ \E m \in Rows : \E l \in BatchLoop(conn, m) : conn' = l.c
  BY Zenon, <1>0, <1>4, BatchStack, SameTxnStack
<1>5. QED
  BY Zenon, <1>1, <1>2, <1>3, <1>4 DEF SqlRDBWriteMany

\* Closing, losing the process and opening keep the stack.
LEMMA LifecycleStack ==
  ASSUME TypeOK, SavepointStack, ClosedIsIdle, SqlRDBClose \/ Crash \/ SqlRDBInit
  PROVE  SavepointStack' /\ ClosedIsIdle'
<1>0. txn' = NoTxn /\ StackOf(conn, txn.depth, txn.sp_names) /\ txn.depth \in Nat
  BY StackIs, TxnAssumption DEF TypeOK, Txns, SqlRDBClose, Crash, SqlRDBInit
<1>1. txn'.depth = 0
  BY Zenon, <1>0 DEF NoTxn
<1>2. CASE SqlRDBClose \/ Crash
  <2>1. PICK d, rows : conn' = Idle(d, rows)
    BY Zenon, <1>2 DEF SqlRDBClose, Crash, close
  <2>2. StackOf(conn', 0, txn'.sp_names) /\ ~conn'.open
    BY Zenon, <2>1, IdleStack DEF Idle
  <2>3. QED
    BY Zenon, <1>1, <2>2 DEF SavepointStack, StackOf, ClosedIsIdle
<1>3. CASE SqlRDBInit
  <2>1. ~conn.open /\ conn' = conn /\ up'
    BY Zenon, <1>3 DEF SqlRDBInit, ClosedIsIdle
  <2>2. txn.depth = 0
    BY <1>0, <2>1 DEF StackOf
  <2>3. QED
    BY <1>0, <1>1, <2>1, <2>2 DEF SavepointStack, StackOf, ClosedIsIdle
<1>4. QED
  BY Zenon, <1>2, <1>3

\* What the stack theorem carries through every step.
StackIInv == TypeOK /\ SavepointStack /\ ClosedIsIdle

\* The invariant holds in the first state.
LEMMA InitStack == Init => StackIInv
<1> SUFFICES ASSUME Init PROVE StackIInv
  OBVIOUS
<1>1. PICK d, rows : conn = Idle(d, rows)
  BY Zenon DEF Init
<1>2. txn.depth = 0 /\ up
  BY Zenon DEF Init, NoTxn
<1>3. StackOf(conn, txn.depth, txn.sp_names)
  BY Zenon, <1>1, <1>2, IdleStack
<1>4. QED
  BY Zenon, <1>2, <1>3, InitTypes, StackIs DEF StackIInv, ClosedIsIdle

\* Transaction and write calls leave the handle open.
LEMMA CallsKeepUp ==
  ASSUME \/ SqlRDBBeginTx \/ SqlRDBCommitTx \/ SqlRDBRollbackTx \/ SqlRDBWrite
         \/ SqlRDBWriteMany \/ SqlRDBDelete \/ SqlRDBWriteBlobField
  PROVE  up'
<1>1. SqlRDBBeginTx => up'
  BY DEF SqlRDBBeginTx
<1>2. SqlRDBCommitTx => up'
  BY DEF SqlRDBCommitTx
<1>3. SqlRDBRollbackTx => up'
  BY DEF SqlRDBRollbackTx
<1>4. SqlRDBWrite => up'
  BY DEF SqlRDBWrite
<1>5. SqlRDBWriteMany => up'
  BY DEF SqlRDBWriteMany
<1>6. SqlRDBDelete => up'
  BY SMTT(20) DEF SqlRDBDelete
<1>7. SqlRDBWriteBlobField => up'
  BY DEF SqlRDBWriteBlobField
<1>8. QED
  BY Zenon, <1>1, <1>2, <1>3, <1>4, <1>5, <1>6, <1>7

\* Every step keeps the invariant when the engine ends no transaction by itself.
LEMMA NextStack ==
  ASSUME {"abort", "pg_commit"} \cap Faults = {}, StackIInv, [Next]_vars
  PROVE  StackIInv'
<1>1. TypeOK /\ SavepointStack /\ ClosedIsIdle
  BY Zenon DEF StackIInv
<1>2. TypeOK'
  BY Zenon, <1>1, NextTypes
<1>3. CASE UNCHANGED vars
  BY Zenon, <1>1, <1>2, <1>3 DEF vars, StackIInv, SavepointStack, ClosedIsIdle
<1>4. CASE SqlRDBClose \/ Crash \/ SqlRDBInit
  BY Zenon, <1>1, <1>2, <1>4, LifecycleStack DEF StackIInv
<1>5. CASE \/ SqlRDBBeginTx \/ SqlRDBCommitTx \/ SqlRDBRollbackTx \/ SqlRDBWrite
           \/ SqlRDBWriteMany \/ SqlRDBDelete \/ SqlRDBWriteBlobField
  <2>1. SavepointStack'
    BY Zenon, <1>1, <1>5, BeginTxStack, CommitTxStack, RollbackTxStack, WritesStack, WriteManyStack
  <2>2. up'
    BY Zenon, <1>5, CallsKeepUp
  <2>3. QED
    BY Zenon, <1>2, <2>1, <2>2 DEF StackIInv, ClosedIsIdle
<1>6. QED
  BY Zenon, <1>3, <1>4, <1>5 DEF Next

\* As long as no failing statement or COMMIT makes the engine end the transaction
\* by itself, depth and sp_names describe the engine's transaction and savepoints
\* exactly, over both drivers, whatever else fails and at whichever call.
THEOREM StackCorrect ==
  ASSUME {"abort", "pg_commit"} \cap Faults = {}
  PROVE  Spec => []SavepointStack
<1>1. Init => StackIInv
  BY Zenon, InitStack
<1>2. StackIInv /\ [Next]_vars => StackIInv'
  BY Zenon, NextStack
<1>3. StackIInv => SavepointStack
  BY SMTT(20) DEF StackIInv
<1>4. QED
  BY <1>1, <1>2, <1>3, PTL DEF Spec

-----------------------------------------------------------------------------
(* No transaction outside the depth that records it *)

\* When COMMIT and ROLLBACK do what they are asked, a WriteMany that opened a
\* transaction of its own has closed it again.
LEMMA WriteManyCloses ==
  ASSUME {"commit", "exec"} \cap Faults = {}, TypeOK, NoTxAtDepthZero, SqlRDBWriteMany
  PROVE  NoTxAtDepthZero'
<1>0. conn \in Conn /\ UNCHANGED txn
  BY Zenon DEF TypeOK, SqlRDBWriteMany, Refused
<1>1. CASE txn.depth # 0 \/ UNCHANGED conn
  BY Zenon, <1>0, <1>1 DEF NoTxAtDepthZero
<1>2. CASE txn.depth = 0 /\ \E b \in begin(conn) : b.r # OK /\ conn' = b.c
  BY Zenon, <1>0, <1>2, BeginOutcome DEF NoTxAtDepthZero, Kept
<1>3. CASE \E b \in begin(conn) :
              /\ b.r = OK
              /\ \E m \in Rows : \E l \in BatchLoop(b.c, m) : \E e \in EndImplicit(l) : conn' = e.c
  <2>1. PICK b \in begin(conn) :
               /\ b.r = OK
               /\ \E m \in Rows : \E l \in BatchLoop(b.c, m) : \E e \in EndImplicit(l) : conn' = e.c
    BY Zenon, <1>3
  <2>2. b.c \in Conn
    BY Zenon, <1>0, <2>1, BeginOutcome DEF Kept
  <2>3. PICK m \in Rows : \E l \in BatchLoop(b.c, m) : \E e \in EndImplicit(l) : conn' = e.c
    BY Zenon, <2>1
  <2>4. PICK l \in BatchLoop(b.c, m) : \E e \in EndImplicit(l) : conn' = e.c
    BY Zenon, <2>3
  <2>5. PICK e \in EndImplicit(l) : conn' = e.c
    BY Zenon, <2>4
  <2>6. l.c \in Conn
    BY SMTT(20), <2>2, BatchTypes
  <2>7. \/ \E d, rows : e.c = Idle(d, rows)
        \/ ~l.c.open /\ e.c = l.c
    BY DEF EndImplicit, commit, sqlite_commit, pg_commit,
           rollback, sqlite_rollback, pg_rollback, Failure, Outcome
  <2>8. ~e.c.open
    <3>1. CASE \E d, rows : e.c = Idle(d, rows)
      BY <3>1 DEF Idle
    <3>2. QED
      BY Zenon, <2>7, <3>1
  <2>9. QED
    BY Zenon, <2>5, <2>8 DEF NoTxAtDepthZero
<1>4. QED
  BY SMTT(20), <1>1, <1>2, <1>3 DEF SqlRDBWriteMany, Refused

\* The calls that move the depth to 0 do so only after the engine answered OK.
LEMMA TxCallsClose ==
  ASSUME TypeOK, NoTxAtDepthZero, SqlRDBBeginTx \/ SqlRDBCommitTx \/ SqlRDBRollbackTx
  PROVE  NoTxAtDepthZero'
<1>0. conn \in Conn /\ txn.depth \in Nat
  BY TxnAssumption DEF TypeOK, Txns
<1>1. CASE UNCHANGED <<txn, conn>>
  BY Zenon, <1>1 DEF NoTxAtDepthZero
<1>2. CASE \E call \in Calls, depth \in Nat : \E o, sp_names :
              /\ Finish(call, o, depth, sp_names) /\ depth > 0 /\ txn.depth > 0
  BY <1>2 DEF Finish, NoTxAtDepthZero
<1>3. CASE /\ txn.depth = 0
           /\ \E o \in begin(conn) : Finish("BeginTx", o, 1, txn.sp_names)
  <2>1. PICK o \in begin(conn) : Finish("BeginTx", o, 1, txn.sp_names)
    BY Zenon, <1>3
  <2>2. CASE o.r = OK
    BY <2>1, <2>2 DEF Finish, NoTxAtDepthZero
  <2>3. CASE o.r # OK
    <3>1. conn'.open = conn.open
      BY Zenon, <1>0, <2>1, <2>3, BeginOutcome DEF Finish, Kept
    <3>2. QED
      BY Zenon, <1>3, <3>1 DEF NoTxAtDepthZero
  <2>4. QED
    BY Zenon, <2>2, <2>3
<1>4. CASE /\ txn.depth = 1
           /\ \E call \in Calls, o \in commit(conn) \cup rollback(conn) :
                 Finish(call, o, 0, txn.sp_names)
  <2>1. PICK call \in Calls, o \in commit(conn) \cup rollback(conn) :
               Finish(call, o, 0, txn.sp_names)
    BY Zenon, <1>4
  <2>2. CASE o.r = OK
    <3>1. \E d, rows : o.c = Idle(d, rows)
      BY Zenon, <1>0, <2>2, CommitOutcome, RollbackOutcome DEF OK, DRIVER
    <3>2. ~o.c.open
      BY <3>1 DEF Idle
    <3>3. QED
      BY Zenon, <2>1, <3>2 DEF Finish, NoTxAtDepthZero
  <2>3. CASE o.r # OK
    <3>1. txn'.depth = 1
      BY Zenon, <1>4, <2>1, <2>3 DEF Finish
    <3>2. QED
      BY <3>1 DEF NoTxAtDepthZero
  <2>4. QED
    BY Zenon, <2>2, <2>3
<1>5. "BeginTx" \in Calls /\ "CommitTx" \in Calls /\ "RollbackTx" \in Calls
  BY Zenon DEF Calls
<1>6. CASE SqlRDBBeginTx
  <2>1. CASE txn.depth > 0
    BY SMTT(20), <1>0, <1>1, <1>2, <1>5, <1>6, <2>1 DEF SqlRDBBeginTx
  <2>2. CASE txn.depth = 0
    BY SMTT(20), <1>0, <1>1, <1>3, <1>6, <2>2 DEF SqlRDBBeginTx
  <2>3. QED
    BY <1>0, <2>1, <2>2
<1>7. CASE SqlRDBCommitTx
  BY SMTT(20), <1>0, <1>1, <1>2, <1>4, <1>5, <1>7 DEF SqlRDBCommitTx, NoActiveTx
<1>8. CASE SqlRDBRollbackTx
  BY <1>0, <1>1, <1>2, <1>4, <1>5, <1>8 DEF SqlRDBRollbackTx, NoActiveTx
<1>9. QED
  BY Zenon, <1>6, <1>7, <1>8

\* A statement that writes opens no transaction, and closing leaves none.
LEMMA OthersClose ==
  ASSUME TypeOK, NoTxAtDepthZero,
         SqlRDBWrite \/ SqlRDBDelete \/ SqlRDBWriteBlobField \/ SqlRDBClose \/ Crash
  PROVE  NoTxAtDepthZero'
<1>0. conn \in Conn
  BY Zenon DEF TypeOK
<1>1. CASE UNCHANGED <<txn, conn>>
  BY Zenon, <1>1 DEF NoTxAtDepthZero
<1>2. CASE \E d, rows : conn' = Idle(d, rows)
  BY <1>2 DEF Idle, NoTxAtDepthZero
<1>3. CASE /\ UNCHANGED txn
           /\ \E rows \in Rows : \E o \in step(conn, rows) \cup step_fails(conn) : conn' = o.c
  <2>1. PICK rows \in Rows : \E o \in step(conn, rows) \cup step_fails(conn) : conn' = o.c
    BY Zenon, <1>3
  <2>2. \/ conn' = Changed(conn, rows) \/ Kept(conn, conn')
        \/ conn' = Idle(conn.dialect, conn.db)
    BY Zenon, <1>0, <2>1, StepOutcome, StepFails
  <2>3. ~conn.open => ~conn'.open
    BY <1>0, <2>2, ChangedConn DEF Idle, Kept
  <2>4. QED
    BY Zenon, <1>3, <2>3 DEF NoTxAtDepthZero
<1>4. \A k \in Keys, v \in Vals : [conn.view EXCEPT ![k] = v] \in Rows
  BY Zenon, <1>0 DEF Rows, Conn
<1>5. \A S \in SUBSET Keys : [k \in Keys |-> IF k \in S THEN NoRow ELSE conn.view[k]] \in Rows
  BY Zenon, <1>0 DEF Rows, Conn
<1>6. CASE SqlRDBWrite
  BY Zenon, <1>1, <1>3, <1>4, <1>6 DEF SqlRDBWrite, Refused
<1>7. CASE SqlRDBDelete
  BY Zenon, <1>1, <1>3, <1>5, <1>7 DEF SqlRDBDelete, Refused
<1>8. CASE SqlRDBWriteBlobField
  <2>1. CASE UNCHANGED txn /\ \E o \in step_fails(conn) : conn' = o.c
    BY Zenon, <1>0, <1>3, <2>1 DEF Conn
  <2>2. QED
    BY Zenon, <1>1, <1>3, <1>4, <1>8, <2>1 DEF SqlRDBWriteBlobField, Refused, Matching
<1>9. CASE SqlRDBClose \/ Crash
  BY Zenon, <1>2, <1>9 DEF SqlRDBClose, Crash, close
<1>10. QED
  BY Zenon, <1>6, <1>7, <1>8, <1>9

\* depth == 0 means that no transaction is active, as long as the engine executes
\* BEGIN, COMMIT and ROLLBACK when they are due; failing writes do not matter,
\* not even those that make the engine roll back by itself.
THEOREM DepthZeroCorrect ==
  ASSUME {"commit", "exec"} \cap Faults = {}
  PROVE  Spec => []NoTxAtDepthZero
<1> DEFINE IInv == TypeOK /\ NoTxAtDepthZero /\ ClosedIsIdle
<1>1. Init => IInv
  <2> SUFFICES ASSUME Init PROVE IInv
    OBVIOUS
  <2>1. PICK d, rows : conn = Idle(d, rows)
    BY Zenon DEF Init
  <2>2. ~conn.open
    BY Zenon, <2>1 DEF Idle
  <2>3. QED
    BY Zenon, <2>2, InitTypes DEF NoTxAtDepthZero, ClosedIsIdle
<1>2. IInv /\ [Next]_vars => IInv'
  <2> SUFFICES ASSUME TypeOK, NoTxAtDepthZero, ClosedIsIdle, [Next]_vars
               PROVE  TypeOK' /\ NoTxAtDepthZero' /\ ClosedIsIdle'
    OBVIOUS
  <2>1. TypeOK'
    BY Zenon, NextTypes
  <2>2. CASE UNCHANGED vars
    BY Zenon, <2>1, <2>2 DEF vars, NoTxAtDepthZero, ClosedIsIdle
  <2>3. CASE SqlRDBClose \/ Crash
    <3>1. NoTxAtDepthZero'
      BY Zenon, <2>3, OthersClose
    <3>2. \E d, rows : conn' = Idle(d, rows)
      BY Zenon, <2>3 DEF SqlRDBClose, Crash, close
    <3>3. ~conn'.open
      BY <3>2 DEF Idle
    <3>4. QED
      BY Zenon, <2>1, <3>1, <3>3 DEF ClosedIsIdle
  <2>4. CASE SqlRDBInit
    BY Zenon, <2>1, <2>4 DEF SqlRDBInit, ClosedIsIdle, NoTxAtDepthZero
  <2>5. CASE \/ SqlRDBBeginTx \/ SqlRDBCommitTx \/ SqlRDBRollbackTx \/ SqlRDBWrite
             \/ SqlRDBWriteMany \/ SqlRDBDelete \/ SqlRDBWriteBlobField
    <3>1. NoTxAtDepthZero'
      BY Zenon, <2>5, TxCallsClose, WriteManyCloses, OthersClose
    <3>2. up'
      BY Zenon, <2>5, CallsKeepUp
    <3>3. QED
      BY Zenon, <2>1, <3>1, <3>2 DEF ClosedIsIdle
  <2>6. QED
    BY Zenon, <2>2, <2>3, <2>4, <2>5 DEF Next
<1>3. QED
  BY <1>1, <1>2, PTL DEF Spec

=============================================================================
