--------------------------- MODULE CapacityGuard ----------------------------
(***************************************************************************)
(* The generated Write<Name>Guarded: count all rows, count the rows with   *)
(* the key, write.  Each of the three API calls holds its handle's mutex;  *)
(* clients interleave between them.  The clients want the limit to be      *)
(* strict, so they wrap the guarded write in BeginTx and CommitTx, as the  *)
(* API guide says, and answer any failure with RollbackTx.                 *)
(*                                                                         *)
(* Clients with handles of their own meet in the engine, clients that      *)
(* share a handle share its connection and its transaction stack.  The     *)
(* engine is external.  SQLite: no busy timeout is set, so a statement     *)
(* that cannot have its lock fails with SQLITE_BUSY at once.  PostgreSQL:  *)
(* pg_begin sends a plain BEGIN, so every statement sees what has been     *)
(* committed by then (READ COMMITTED), and a write waits for a transaction *)
(* that has written the same key.                                          *)
(*                                                                         *)
(* Every call of a client may fail.  A failed RollbackTx leaves its level  *)
(* on the stack: the client calls it again or gives up, and its next       *)
(* BeginTx then opens a savepoint.  Of PostgreSQL's transaction commands   *)
(* only BEGIN fails here; PostgresConn has what a failed statement makes   *)
(* of the transaction it is in.                                            *)
(***************************************************************************)
EXTENDS Naturals, Sequences, FiniteSets

CONSTANTS
  Clients, Conns,
  ConnOf,       \* the handle of each client
  Keys, NoKey,
  MaxRecords,   \* <NAME>_MAX_RECORDS
  MaxWrites,    \* guarded writes the clients make
  MaxTxDepth,   \* C2SQL_MAX_TX_DEPTH
  Engines       \* SQLite in journal mode "delete" (the default) or "wal", "postgres"

ASSUME GuardAssumption ==
  /\ ConnOf \in [Clients -> Conns]
  /\ \/ \A c, d \in Clients : ConnOf[c] = ConnOf[d] => c = d   \* a handle each,
     \/ Conns = {ConnOf[c] : c \in Clients} /\ Cardinality(Conns) = 1   \* or one for all
  /\ IsFiniteSet(Keys) /\ NoKey \notin Keys
  /\ IsFiniteSet(Clients) /\ Clients # {}
  /\ MaxRecords \in Nat /\ MaxWrites \in Nat /\ MaxTxDepth \in Nat \ {0}
  /\ Engines \subseteq {"delete", "wal", "postgres"}

VARIABLES
  rows,      \* keys of the committed rows
  conn,      \* each connection: transaction depth, lock, what it sees, savepoints
  client,    \* each client: program counter, key and counts
  acked,     \* keys whose guarded write was answered OK, commit included
  begun,     \* number of guarded writes begun
  engine,
  keyed      \* the table has a primary key

setup == <<engine, keyed>>
vars  == <<rows, conn, client, acked, begun, engine, keyed>>

\* lock: none, shared (it has read in a transaction), reserved (it has written);
\* stale: another connection has committed since it read, in WAL mode;
\* base: the rows there were when it first read, in SQLite; own: the rows it has
\* written; marks: what it had written at each savepoint.
NoTx ==
  [depth |-> 0, lock |-> "none", stale |-> FALSE, base |-> {}, own |-> {}, marks |-> << >>]

Idle == [pc |-> "idle", key |-> NoKey, total |-> 0, existing |-> 0]

TypeOK ==
  /\ rows \subseteq Keys /\ acked \subseteq Keys
  /\ begun \in 0..MaxWrites /\ engine \in Engines /\ keyed \in BOOLEAN
  /\ \A x \in Conns :
        /\ conn[x].depth \in 0..MaxTxDepth
        /\ conn[x].lock \in {"none", "shared", "reserved"}
        /\ conn[x].stale \in BOOLEAN
        /\ conn[x].base \subseteq Keys /\ conn[x].own \subseteq Keys
        /\ \A i \in DOMAIN conn[x].marks : conn[x].marks[i] \subseteq Keys
  /\ \A c \in Clients :
        /\ client[c].pc \in {"idle", "total", "existing", "write", "commit", "rollback"}
        /\ client[c].key \in Keys \cup {NoKey}
        /\ client[c].total \in 0..Cardinality(Keys) /\ client[c].existing \in 0..1

Init ==
  /\ rows = {}
  /\ conn = [x \in Conns |-> NoTx]
  /\ client = [c \in Clients |-> Idle]
  /\ acked = {} /\ begun = 0
  /\ engine \in Engines /\ keyed \in BOOLEAN

-----------------------------------------------------------------------------
(* The engine: what connection x sees, and when it gets a lock *)

Others(x, locks) == \E y \in Conns \ {x} : conn[y].lock \in locks

Reading(x) == conn[x].lock # "none"
View(x) ==
  conn[x].own \cup (IF engine # "postgres" /\ Reading(x) THEN conn[x].base ELSE rows)

\* Locks a statement needs to succeed; a committer needs the readers gone, too, in the
\* default mode.
CanWrite(x) == engine = "postgres" \/ (~Others(x, {"reserved"}) /\ ~conn[x].stale)
Waits(x, k) == engine = "postgres" /\ \E y \in Conns \ {x} : k \in conn[y].own
CanCommit(x) ==
  conn[x].lock = "reserved" /\ engine = "delete" => ~Others(x, {"shared", "reserved"})

\* The first read of a transaction fixes what it sees.
AfterRead(x) ==
  IF Reading(x) \/ engine = "postgres" THEN conn[x]
  ELSE [conn[x] EXCEPT !.lock = "shared", !.base = rows]

AfterWrite(x, k) == [conn[x] EXCEPT !.lock = "reserved", !.own = @ \cup {k}]

\* The connections after x committed what it wrote: other readers are out of date.
AfterCommit(x) ==
  [y \in Conns |-> IF y = x THEN NoTx
                   ELSE [conn[y] EXCEPT !.stale = @ \/ (/\ engine # "postgres"
                                                       /\ conn[x].lock = "reserved" /\ Reading(y))]]

\* One level more of the transaction stack: BEGIN, then savepoints.
Pushed(x) ==
  [conn[x] EXCEPT !.depth = @ + 1,
                  !.marks = IF conn[x].depth = 0 THEN @ ELSE Append(@, conn[x].own)]

\* One savepoint less; back to the innermost savepoint; and both, or out of the
\* transaction.
Popped(x)  == [conn[x] EXCEPT !.depth = @ - 1, !.marks = SubSeq(@, 1, Len(@) - 1)]
Rewound(x) == [conn[x] EXCEPT !.own = conn[x].marks[Len(conn[x].marks)]]
Unwound(x) ==
  IF conn[x].depth = 1 THEN NoTx ELSE [Popped(x) EXCEPT !.own = Rewound(x).own]

\* The commands of the transaction stack that may fail.
MayFail(x) == engine # "postgres" \/ conn[x].depth = 0

-----------------------------------------------------------------------------
(* The client *)

Goto(c, pc) == client' = [client EXCEPT ![c].pc = pc]

\* Without a primary key every write is a row of its own.
NewRow(k) ==
  /\ k \notin rows \cup acked
  /\ \A x \in Conns : k \notin conn[x].own
  /\ \A d \in Clients : client[d].pc # "idle" => client[d].key # k

\* Faulty variant: the limit is tested with > instead of >=.
BeginTx_OneTooDeep(c) ==
  LET x == ConnOf[c]
  IN  /\ client[c].pc = "idle"
      /\ begun < MaxWrites /\ begun' = begun + 1
      /\ conn[x].depth <= MaxTxDepth
      /\ \E k \in Keys : client' = [client EXCEPT ![c] =
            [pc |-> "total", key |-> k, total |-> 0, existing |-> 0]]
      /\ conn' = [conn EXCEPT ![x] = Pushed(x)]
      /\ UNCHANGED <<rows, acked, setup>>

\* SqlRDBBeginTx: BEGIN, or a savepoint when the handle is in a transaction.
BeginTx(c) ==
  LET x == ConnOf[c]
  IN  /\ client[c].pc = "idle"
      /\ begun < MaxWrites /\ begun' = begun + 1
      /\ conn[x].depth < MaxTxDepth
      /\ \E k \in Keys :
            /\ keyed \/ NewRow(k)
            /\ client' = [client EXCEPT ![c] =
                             [pc |-> "total", key |-> k, total |-> 0, existing |-> 0]]
      /\ conn' = [conn EXCEPT ![x] = Pushed(x)]
      /\ UNCHANGED <<rows, acked, setup>>

\* It fails: the stack is full, or the command fails.  The client writes nothing.
BeginTxFails(c) ==
  /\ client[c].pc = "idle"
  /\ begun < MaxWrites /\ begun' = begun + 1
  /\ conn[ConnOf[c]].depth >= MaxTxDepth \/ MayFail(ConnOf[c])
  /\ UNCHANGED <<rows, acked, conn, client, setup>>

\* One SqlRDBCount.
Count(c, from, counted) ==
  LET x == ConnOf[c]
  IN  /\ client[c].pc = from
      /\ conn' = [conn EXCEPT ![x] = AfterRead(x)]
      /\ client' = [client EXCEPT ![c] = counted]
      /\ UNCHANGED <<rows, acked, begun, setup>>

CountAll(c) ==
  Count(c, "total", [client[c] EXCEPT !.pc = IF keyed THEN "existing" ELSE "write",
                                      !.total = Cardinality(View(ConnOf[c]))])

CountKey(c) ==
  Count(c, "existing", [client[c] EXCEPT !.pc = "write",
          !.existing = Cardinality(View(ConnOf[c]) \cap {client[c].key})])

\* Faulty variant: the limit is tested with > instead of >=.
Exceeded_OffByOne(c) == (keyed => client[c].existing = 0) /\ client[c].total > MaxRecords

\* No room left, and the key is new; without a primary key every row is.
Exceeded(c) == (keyed => client[c].existing = 0) /\ client[c].total >= MaxRecords

\* The SqlRDBWrite of the guarded write.
GuardedWrite(c) ==
  LET x == ConnOf[c]
  IN  /\ client[c].pc = "write"
      /\ ~Exceeded(c) /\ ~Waits(x, client[c].key) /\ CanWrite(x)
      /\ conn' = [conn EXCEPT ![x] = AfterWrite(x, client[c].key)]
      /\ Goto(c, "commit")
      /\ UNCHANGED <<rows, acked, begun, setup>>

\* The guarded write returns an error: the limit, or a call that failed.
GuardedWriteFails(c) ==
  /\ client[c].pc \in {"total", "existing", "write"}
  /\ Goto(c, "rollback")
  /\ UNCHANGED <<rows, acked, conn, begun, setup>>

\* Faulty variant: the outermost commit answers OK when COMMIT was refused.
CommitTx_IgnoresBusy(c) ==
  LET x == ConnOf[c]
  IN  /\ client[c].pc = "commit"
      /\ Goto(c, "idle")
      /\ acked' = acked \cup {client[c].key}
      /\ conn' = AfterCommit(x)
      /\ rows' = IF CanCommit(x) THEN View(x) ELSE rows
      /\ UNCHANGED <<begun, setup>>

\* SqlRDBCommitTx: COMMIT at depth 1, else RELEASE of the innermost savepoint.
CommitTx(c) ==
  LET x == ConnOf[c]
  IN  /\ client[c].pc = "commit"
      /\ Goto(c, "idle")
      /\ acked' = acked \cup {client[c].key}
      /\ \/ conn[x].depth = 1 /\ CanCommit(x) /\ rows' = View(x) /\ conn' = AfterCommit(x)
         \/ conn[x].depth > 1 /\ conn' = [conn EXCEPT ![x] = Popped(x)] /\ UNCHANGED rows
      /\ UNCHANGED <<begun, setup>>

\* It fails, and the depth stays.
CommitTxFails(c) ==
  /\ client[c].pc = "commit"
  /\ MayFail(ConnOf[c])
  /\ Goto(c, "rollback")
  /\ UNCHANGED <<rows, acked, conn, begun, setup>>

\* SqlRDBRollbackTx: ROLLBACK at depth 1, else back to the innermost savepoint, which
\* is released.
RollbackTx(c) ==
  LET x == ConnOf[c]
  IN  /\ client[c].pc = "rollback"
      /\ Goto(c, "idle")
      /\ conn' = [conn EXCEPT ![x] = Unwound(x)]
      /\ UNCHANGED <<rows, acked, begun, setup>>

\* It fails, perhaps only in the RELEASE, and the depth stays: the client tries again or
\* gives up.
RollbackTxFails(c) ==
  LET x == ConnOf[c]
  IN  /\ client[c].pc = "rollback"
      /\ MayFail(x)
      /\ Goto(c, "rollback") \/ Goto(c, "idle")
      /\ \/ UNCHANGED conn
         \/ conn[x].depth > 1 /\ conn' = [conn EXCEPT ![x] = Rewound(x)]
      /\ UNCHANGED <<rows, acked, begun, setup>>

Next ==
  \E c \in Clients :
    \/ BeginTx(c) \/ CountAll(c) \/ CountKey(c) \/ GuardedWrite(c)
    \/ CommitTx(c) \/ RollbackTx(c)
    \/ BeginTxFails(c) \/ GuardedWriteFails(c) \/ CommitTxFails(c) \/ RollbackTxFails(c)

Spec == Init /\ [][Next]_vars

-----------------------------------------------------------------------------
(* Properties *)

\* The limit the guard gives a client that wraps it in BeginTx and CommitTx, however
\* many clients write at once: SQLite's locks make it strict, and PostgreSQL lets every
\* other client, having counted before the last place was taken, exceed it by one row
\* and no more.
CapacityBound ==
  Cardinality(rows) <= MaxRecords + (IF engine = "postgres" THEN Cardinality(Clients) - 1 ELSE 0)

\* A guarded write that was answered with OK, its CommitTx included, is in the database,
\* or in a transaction that a failed RollbackTx left open: no refused or rolled back
\* write, of the same client or of another, takes it away.
AcknowledgedStays == acked \subseteq rows \cup UNION {conn[x].own : x \in Conns}

=============================================================================
