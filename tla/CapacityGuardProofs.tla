------------------------ MODULE CapacityGuardProofs -------------------------
(***************************************************************************)
(* The limit of the guarded write, for any number of clients with a handle *)
(* each, any keys, writes and limit, whatever fails.  A transaction whose  *)
(* rollback failed stays open and never commits, so that what is said of   *)
(* counts and locks is said of the transactions of depth 1.  SqliteInv     *)
(* says what the locks give a client that counts, PostgresInv counts the   *)
(* clients that may still add a row.                                       *)
(***************************************************************************)
EXTENDS CapacityGuardTypes

-----------------------------------------------------------------------------
(* Clients with a handle each *)

OwnHandle == \A c, d \in Clients : ConnOf[c] = ConnOf[d] => c = d

Innermost(x) == conn[x].marks[Len(conn[x].marks)]

\* What the handle of c has written in transactions that c has left: it is there when
\* a rollback failed, and a rollback of c does not go back behind it.
Kept(c) ==
  IF client[c].pc = "idle" THEN conn[ConnOf[c]].own
  ELSE IF conn[ConnOf[c]].depth = 1 THEN {} ELSE Innermost(ConnOf[c])

\* A transaction has no locks and nothing of its own until the client counts, the
\* client that commits has written its key, and a savepoint has nothing more.
OwnLocal(c) ==
  LET x == ConnOf[c]
  IN  /\ client[c].pc = "total" /\ conn[x].depth = 1 => conn[x].lock = "none" /\ conn[x].own = {}
      /\ client[c].pc = "commit" => conn[x].lock = "reserved" /\ client[c].key \in conn[x].own
      /\ client[c].pc # "idle" /\ conn[x].depth > 1 => Innermost(x) \subseteq conn[x].own

\* What an OK promised is in the database, or in a transaction that was left open.
OwnInv ==
  /\ \A x \in Conns : conn[x].depth = 0 => conn[x].lock = "none" /\ conn[x].own = {}
  /\ \A c \in Clients : OwnLocal(c)
  /\ \A k \in acked : k \in rows \/ \E c \in Clients : k \in Kept(c)

\* SQLite: a client's counts are about what it sees, and the one that has written has
\* found room.
SqliteLocal(c) ==
  LET x == ConnOf[c]
  IN  /\ client[c].pc \in {"existing", "write"} => conn[x].lock # "none"
      /\ conn[x].depth = 1 =>
           /\ client[c].pc \in {"existing", "write"} =>
                 /\ conn[x].lock = "shared" /\ conn[x].own = {}
                 /\ client[c].total = Cardinality(conn[x].base)
           /\ client[c].pc = "write" /\ keyed /\ client[c].existing # 0 => client[c].key \in conn[x].base
           /\ client[c].pc = "commit" => Cardinality(conn[x].base \cup conn[x].own) <= MaxRecords

\* SQLite: there is one writer, and a reader that may still become it sees the database
\* as it is.
SqliteInv ==
  /\ \A x, y \in Conns : conn[x].lock = "reserved" /\ conn[y].lock = "reserved" => x = y
  /\ \A x \in Conns : /\ conn[x].lock # "none" /\ ~conn[x].stale => conn[x].base = rows
                      /\ conn[x].lock = "reserved" => ~conn[x].stale
  /\ \A c \in Clients : SqliteLocal(c)
  /\ Cardinality(rows) <= MaxRecords

\* The clients that may add a row to the database: they found room when they
\* counted, or have written a new key.
Adders ==
  {c \in Clients : \/ client[c].pc \in {"existing", "write"} /\ client[c].total < MaxRecords
                   \/ client[c].pc = "commit" /\ client[c].key \notin rows}

\* PostgreSQL: a client has written its key or nothing, and an existing key stays.
PostgresLocal(c) ==
  /\ client[c].pc \in {"existing", "write"} => conn[ConnOf[c]].own = {}
  /\ client[c].pc = "commit" => conn[ConnOf[c]].own = {client[c].key}
  /\ client[c].pc = "write" /\ keyed /\ client[c].existing # 0 => client[c].key \in rows

\* PostgreSQL: while there is room every client may be an adder; the last place is
\* taken by one of them, and from then on there are no new ones.
PostgresInv ==
  /\ \A c \in Clients : PostgresLocal(c)
  /\ Cardinality(rows) + Cardinality(Adders) <= MaxRecords + (Cardinality(Clients) - 1)

CapacityInv ==
  /\ OwnInv
  /\ engine # "postgres" => SqliteInv
  /\ engine = "postgres" => PostgresInv

\* The other handles, of which a commit only changes whether they are out of date.
ConnsKeep(c) ==
  \A y \in Conns \ {ConnOf[c]} :
    /\ conn'[y].depth = conn[y].depth /\ conn'[y].lock = conn[y].lock
    /\ conn'[y].base = conn[y].base /\ conn'[y].own = conn[y].own /\ conn'[y].marks = conn[y].marks

LEMMA ApartKeep ==
  ASSUME NEW c, ConnsApart(c)
  PROVE  ConnsKeep(c)
BY Zenon DEF ConnsApart, ConnsKeep

\* The handles of the other clients are others.
LEMMA OthersKeep ==
  ASSUME GuardInv, OwnHandle, NEW c \in Clients, NEW d \in Clients \ {c}, Apart(c), ConnsKeep(c)
  PROVE  /\ client'[d] = client[d] /\ ConnOf[d] \in Conns \ {ConnOf[c]}
         /\ conn'[ConnOf[d]].depth = conn[ConnOf[d]].depth /\ conn'[ConnOf[d]].lock = conn[ConnOf[d]].lock
         /\ conn'[ConnOf[d]].base = conn[ConnOf[d]].base /\ conn'[ConnOf[d]].own = conn[ConnOf[d]].own
         /\ conn'[ConnOf[d]].marks = conn[ConnOf[d]].marks
<1>1. ConnOf[d] \in Conns \ {ConnOf[c]}
  BY Zenon, GuardAssumption DEF OwnHandle
<1>2. QED
  BY Zenon, <1>1 DEF Apart, ConnsKeep

\* In PostgreSQL a handle of one client has no transaction but the client's.
LEMMA PostgresDepth ==
  ASSUME GuardInv, OwnHandle, engine = "postgres", NEW c \in Clients, client[c].pc # "idle"
  PROVE  conn[ConnOf[c]].depth = 1
<1>1. ConnOf[c] \in Conns /\ Active(ConnOf[c]) = {c}
  BY Zenon, GuardAssumption DEF OwnHandle, Active
<1>2. QED
  BY Zenon, <1>1, FS_Singleton DEF GuardInv, DepthInv

\* The first read of a transaction in SQLite, the later ones, and PostgreSQL's.
LEMMA ReadEffect ==
  ASSUME GuardType, NEW x \in Conns
  PROVE  /\ AfterRead(x).depth = conn[x].depth /\ AfterRead(x).marks = conn[x].marks
         /\ AfterRead(x).own = conn[x].own /\ AfterRead(x).stale = conn[x].stale
         /\ engine # "postgres" /\ conn[x].lock = "none" =>
              /\ View(x) = conn[x].own \cup rows
              /\ AfterRead(x).lock = "shared" /\ AfterRead(x).base = rows
         /\ engine # "postgres" /\ conn[x].lock # "none" =>
              View(x) = conn[x].own \cup conn[x].base /\ AfterRead(x) = conn[x]
         /\ engine = "postgres" => View(x) = conn[x].own \cup rows /\ AfterRead(x) = conn[x]
<1>1. conn[x] \in ConnType
  BY SMTT(20) DEF GuardType
<1>2. QED
  BY Zenon, <1>1 DEF View, AfterRead, Reading, ConnType

-----------------------------------------------------------------------------
(* What was acknowledged *)

\* A step of client c keeps OwnInv when it does for its handle.
LEMMA OwnFrame ==
  ASSUME GuardInv, OwnHandle, OwnInv, NEW c \in Clients, Apart(c), ConnsKeep(c), rows \subseteq rows',
         conn'[ConnOf[c]].depth = 0 => conn'[ConnOf[c]].lock = "none" /\ conn'[ConnOf[c]].own = {},
         OwnLocal(c)', Kept(c) \subseteq Kept(c)',
         \A k \in acked' : k \in acked \/ k \in rows' \/ k \in Kept(c)'
  PROVE  OwnInv'
<1>1. ASSUME NEW d \in Clients \ {c}
      PROVE  OwnLocal(d)' /\ Kept(d)' = Kept(d)
  <2>1. /\ client'[d] = client[d]
        /\ conn'[ConnOf[d]].depth = conn[ConnOf[d]].depth /\ conn'[ConnOf[d]].lock = conn[ConnOf[d]].lock
        /\ conn'[ConnOf[d]].own = conn[ConnOf[d]].own /\ conn'[ConnOf[d]].marks = conn[ConnOf[d]].marks
    BY Zenon, OthersKeep
  <2>2. OwnLocal(d)
    BY Zenon DEF OwnInv
  <2>3. QED
    BY Zenon, <2>1, <2>2 DEF OwnLocal, Kept, Innermost
<1>2. \A x \in Conns : conn'[x].depth = 0 => conn'[x].lock = "none" /\ conn'[x].own = {}
  BY Zenon DEF OwnInv, ConnsKeep
<1>3. \A d \in Clients : OwnLocal(d)' /\ Kept(d) \subseteq Kept(d)'
  BY Zenon, <1>1
<1>4. ASSUME NEW k \in acked'
      PROVE  k \in rows' \/ \E d \in Clients : k \in Kept(d)'
  <2>1. CASE k \in acked
    BY Zenon, <1>3, <2>1 DEF OwnInv
  <2>2. CASE k \notin acked
    BY Zenon, <1>4, <2>2
  <2>3. QED
    BY Zenon, <2>1, <2>2
<1>5. QED
  BY Zenon, <1>2, <1>3, <1>4 DEF OwnInv

\* Every step keeps OwnInv.
LEMMA OwnStep ==
  ASSUME GuardInv, OwnHandle, CapacityInv, [Next]_vars
  PROVE  OwnInv'
<1>1. GuardType /\ OwnInv /\ (engine # "postgres" => SqliteInv) /\ \A c \in Clients : OwnLocal(c)
  BY Zenon DEF GuardInv, CapacityInv, OwnInv
<1>2. ASSUME NEW c \in Clients
      PROVE  ConnOf[c] \in Conns /\ conn[ConnOf[c]].depth \in Nat /\ Len(conn[ConnOf[c]].marks) \in Nat
  <2>1. ConnOf[c] \in Conns
    BY Zenon, GuardAssumption
  <2>2. QED
    BY <1>1, <2>1 DEF GuardType, ConnType
<1>3. CASE UNCHANGED vars
  <2>1. UNCHANGED <<rows, conn, client, acked>>
    BY Zenon, <1>3 DEF vars
  <2>2. QED
    BY Zenon, <1>1, <2>1 DEF OwnInv, OwnLocal, Kept, Innermost
<1>4. ASSUME NEW c \in Clients, BeginTx(c)
      PROVE  OwnInv'
  <2> DEFINE x == ConnOf[c]
  <2>1. /\ Apart(c) /\ ConnsApart(c) /\ UNCHANGED <<rows, acked>>
        /\ client[c].pc = "idle" /\ client'[c].pc = "total" /\ conn'[x] = Pushed(x)
    BY Zenon, <1>4, BeginEffect
  <2>2. /\ conn'[x].depth = conn[x].depth + 1 /\ conn'[x].lock = conn[x].lock
        /\ conn'[x].own = conn[x].own
    BY Zenon, <1>1, <1>2, <2>1, PushedEffect
  <2>3. conn[x].depth # 0 => Innermost(x)' = conn[x].own
    <3>1. conn[x] \in ConnType
      BY Zenon, <1>1, <1>2 DEF GuardType
    <3>2. conn[x].marks \in Seq(SUBSET Keys) /\ conn[x].own \in SUBSET Keys
      BY Zenon, <3>1 DEF ConnType
    <3>3. conn[x].depth # 0 => Pushed(x).marks = Append(conn[x].marks, conn[x].own)
      BY Zenon, <3>1 DEF Pushed, ConnType
    <3>4. QED
      BY <2>1, <3>2, <3>3 DEF Innermost
  <2>4. conn[x].depth = 0 => conn[x].lock = "none" /\ conn[x].own = {}
    BY Zenon, <1>1, <1>2 DEF OwnInv
  <2>5. OwnLocal(c)'
    BY SMTT(20), <1>2, <2>1, <2>2, <2>3, <2>4 DEF OwnLocal
  <2>6. Kept(c) \subseteq Kept(c)'
    BY <1>2, <2>1, <2>2, <2>3, <2>4 DEF Kept
  <2>7. conn'[x].depth # 0
    BY <1>2, <2>2
  <2>8. QED
    BY Zenon, <1>1, <2>1, <2>5, <2>6, <2>7, ApartKeep, OwnFrame
<1>5. ASSUME NEW c \in Clients, CountAll(c) \/ CountKey(c)
      PROVE  OwnInv'
  <2> DEFINE x == ConnOf[c]
  <2>1. /\ Apart(c) /\ ConnsApart(c) /\ UNCHANGED <<rows, acked>>
        /\ client[c].pc \in {"total", "existing"} /\ client'[c].pc \in {"existing", "write"}
        /\ conn'[x] = AfterRead(x)
    BY Zenon, <1>5, CountAllEffect, CountKeyEffect
  <2>2. conn'[x].depth = conn[x].depth /\ conn'[x].own = conn[x].own /\ conn'[x].marks = conn[x].marks
    BY Zenon, <1>1, <1>2, <2>1, ReadEffect
  <2>3. conn[x].depth # 0
    BY Zenon, <2>1, InsideTx
  <2>4. OwnLocal(c)' /\ Kept(c)' = Kept(c)
    BY Zenon, <1>1, <2>1, <2>2 DEF OwnLocal, Kept, Innermost
  <2>5. QED
    BY Zenon, <1>1, <2>1, <2>2, <2>3, <2>4, ApartKeep, OwnFrame
<1>6. ASSUME NEW c \in Clients, GuardedWrite(c)
      PROVE  OwnInv'
  <2> DEFINE x == ConnOf[c]
             k == client[c].key
  <2>1. /\ Apart(c) /\ ConnsApart(c) /\ UNCHANGED <<rows, acked>> /\ k \in Keys
        /\ client[c].pc = "write" /\ client'[c].pc = "commit" /\ client'[c].key = k
        /\ conn'[x] = AfterWrite(x, k)
    BY Zenon, <1>6, GuardedWriteEffect
  <2>2. /\ conn'[x].depth = conn[x].depth /\ conn'[x].own = conn[x].own \cup {k}
        /\ conn'[x].marks = conn[x].marks /\ conn'[x].lock = "reserved"
    BY <1>1, <1>2, <2>1, WriteEffect
  <2>3. conn[x].depth # 0
    BY Zenon, <2>1, InsideTx
  <2>4. OwnLocal(c)' /\ Kept(c)' = Kept(c)
    BY Zenon, <1>1, <2>1, <2>2 DEF OwnLocal, Kept, Innermost
  <2>5. QED
    BY Zenon, <1>1, <2>1, <2>2, <2>3, <2>4, ApartKeep, OwnFrame
<1>7. ASSUME NEW c \in Clients, GuardedWriteFails(c) \/ CommitTxFails(c)
      PROVE  OwnInv'
  <2>1. /\ Apart(c) /\ UNCHANGED <<rows, acked, conn>>
        /\ client[c].pc # "idle" /\ client'[c].pc = "rollback"
    BY Zenon, <1>7, CallFailsEffect
  <2>2. ConnsKeep(c) /\ conn[ConnOf[c]].depth # 0
    BY Zenon, <2>1, InsideTx DEF ConnsKeep
  <2>3. OwnLocal(c)' /\ Kept(c)' = Kept(c)
    BY Zenon, <1>1, <2>1 DEF OwnLocal, Kept, Innermost
  <2>4. QED
    BY Zenon, <1>1, <2>1, <2>2, <2>3, OwnFrame
<1>8. ASSUME NEW c \in Clients, BeginTxFails(c)
      PROVE  OwnInv'
  <2>1. UNCHANGED <<rows, conn, client, acked>>
    BY Zenon, <1>8, BeginFailsEffect
  <2>2. QED
    BY Zenon, <1>1, <2>1 DEF OwnInv, OwnLocal, Kept, Innermost
<1>9. ASSUME NEW c \in Clients, CommitTx(c)
      PROVE  OwnInv'
  <2> DEFINE x == ConnOf[c]
             k == client[c].key
  <2>1. /\ Apart(c) /\ client[c].pc = "commit" /\ client'[c].pc = "idle" /\ acked' = acked \cup {k}
        /\ \/ conn[x].depth = 1 /\ rows' = View(x) /\ conn' = AfterCommit(x)
           \/ conn[x].depth > 1 /\ conn'[x] = Popped(x) /\ ConnsApart(c) /\ rows' = rows
    BY Zenon, <1>9, CommitEffect
  <2>2. x \in Conns /\ conn[x].lock = "reserved" /\ k \in conn[x].own
    BY Zenon, <1>1, <1>2, <2>1 DEF OwnLocal
  <2>3. OwnLocal(c)'
    BY Zenon, <2>1 DEF OwnLocal
  <2>4. CASE conn[x].depth = 1 /\ rows' = View(x) /\ conn' = AfterCommit(x)
    <3>1. conn'[x] = NoTx /\ ConnsKeep(c)
      BY Zenon, <1>1, <2>2, <2>4, AfterCommitType DEF ConnsKeep
    <3>2. conn'[x].lock = "none" /\ conn'[x].own = {}
      BY <3>1 DEF NoTx
    <3>3. rows \subseteq View(x) /\ k \in View(x)
      <4>1. CASE engine = "postgres"
        BY Zenon, <1>1, <2>2, <4>1, ReadEffect
      <4>2. CASE engine # "postgres"
        <5>1. conn[x].base = rows
          BY Zenon, <1>1, <2>2, <4>2 DEF SqliteInv
        <5>2. QED
          BY Zenon, <1>1, <2>2, <4>2, <5>1, ReadEffect
      <4>3. QED
        BY Zenon, <4>1, <4>2
    <3>4. Kept(c) = {}
      BY Zenon, <2>1, <2>4 DEF Kept
    <3>5. rows \subseteq rows' /\ \A j \in acked' : j \in acked \/ j \in rows'
      BY Zenon, <2>1, <2>4, <3>3
    <3>6. QED
      BY Zenon, <1>1, <2>1, <2>3, <3>1, <3>2, <3>4, <3>5, OwnFrame
  <2>5. CASE conn[x].depth > 1 /\ conn'[x] = Popped(x) /\ ConnsApart(c) /\ rows' = rows
    <3>1. conn'[x].depth = conn[x].depth - 1 /\ conn'[x].own = conn[x].own
      BY <1>1, <1>2, <2>2, <2>5, PoppedEffect
    <3>2. Kept(c)' = conn[x].own /\ Kept(c) \subseteq conn[x].own
      BY Zenon, <1>1, <1>2, <2>1, <2>5, <3>1 DEF Kept, OwnLocal
    <3>3. conn'[x].depth # 0 /\ ConnsKeep(c)
      BY <1>2, <2>5, <3>1, ApartKeep
    <3>4. \A j \in acked' : j \in acked \/ j \in Kept(c)'
      BY Zenon, <2>1, <2>2, <3>2
    <3>5. QED
      BY Zenon, <1>1, <2>1, <2>3, <2>5, <3>2, <3>3, <3>4, OwnFrame
  <2>6. QED
    BY Zenon, <2>1, <2>4, <2>5
<1>10. ASSUME NEW c \in Clients, RollbackTx(c)
      PROVE  OwnInv'
  <2> DEFINE x == ConnOf[c]
  <2>1. /\ Apart(c) /\ ConnsApart(c) /\ UNCHANGED <<rows, acked>>
        /\ client[c].pc = "rollback" /\ client'[c].pc = "idle" /\ conn'[x] = Unwound(x)
    BY Zenon, <1>10, RollbackEffect
  <2>2. x \in Conns /\ c \in Active(x) /\ conn[x].depth \in Nat \ {0}
    BY Zenon, <2>1, InsideTx
  <2>3. OwnLocal(c)' /\ ConnsKeep(c)
    BY Zenon, <2>1, ApartKeep DEF OwnLocal
  <2>4. CASE conn[x].depth = 1
    <3>1. conn'[x].lock = "none" /\ conn'[x].own = {} /\ Kept(c) = {}
      BY <2>1, <2>2, <2>4, UnwoundEffect DEF NoTx, Kept
    <3>2. QED
      BY Zenon, <1>1, <2>1, <2>3, <3>1, OwnFrame
  <2>5. CASE conn[x].depth > 1
    <3>1. conn'[x].depth # 0 /\ conn'[x].own = Innermost(x)
      BY <2>1, <2>2, <2>5, UnwoundEffect DEF Innermost
    <3>2. Kept(c)' = Kept(c)
      BY <2>1, <2>5, <3>1 DEF Kept
    <3>3. QED
      BY Zenon, <1>1, <2>1, <2>3, <3>1, <3>2, OwnFrame
  <2>6. QED
    BY <2>2, <2>4, <2>5
<1>11. ASSUME NEW c \in Clients, RollbackTxFails(c)
      PROVE  OwnInv'
  <2> DEFINE x == ConnOf[c]
  <2>1. /\ Apart(c) /\ ConnsApart(c) /\ UNCHANGED <<rows, acked>>
        /\ client[c].pc = "rollback" /\ client'[c].pc \in {"rollback", "idle"}
        /\ conn'[x] = conn[x] \/ (conn[x].depth > 1 /\ conn'[x] = Rewound(x))
    BY Zenon, <1>11, RollbackFailsEffect
  <2>2. x \in Conns /\ c \in Active(x) /\ conn[x].depth \in Nat \ {0}
    BY Zenon, <2>1, InsideTx
  <2>3. /\ conn'[x].depth = conn[x].depth /\ conn'[x].marks = conn[x].marks
        /\ conn'[x].own = conn[x].own \/ (conn[x].depth > 1 /\ conn'[x].own = Innermost(x))
    BY Zenon, <2>1, <2>2, UnwoundEffect DEF Innermost
  <2>4. Innermost(x)' = Innermost(x) /\ (conn[x].depth > 1 => Innermost(x) \subseteq conn[x].own)
    BY Zenon, <1>1, <2>1, <2>3 DEF Innermost, OwnLocal
  <2>5. OwnLocal(c)'
    BY Zenon, <2>1, <2>3, <2>4 DEF OwnLocal
  <2>6. Kept(c) \subseteq Kept(c)'
    BY <2>1, <2>2, <2>3, <2>4 DEF Kept
  <2>7. QED
    BY Zenon, <1>1, <2>1, <2>2, <2>3, <2>5, <2>6, ApartKeep, OwnFrame
<1>12. QED
  BY Zenon, <1>3, <1>4, <1>5, <1>6, <1>7, <1>8, <1>9, <1>10, <1>11 DEF Next

-----------------------------------------------------------------------------
(* SQLite *)

\* What is said of one handle.
Fresh(x) ==
  /\ conn[x].lock # "none" /\ ~conn[x].stale => conn[x].base = rows
  /\ conn[x].lock = "reserved" => ~conn[x].stale

\* A step of client c that leaves the rows and the other handles keeps SqliteInv when it
\* does for its handle.
LEMMA SqliteFrame ==
  ASSUME GuardInv, OwnHandle, SqliteInv, NEW c \in Clients, Apart(c), ConnsApart(c), rows' = rows,
         Fresh(ConnOf[c])', SqliteLocal(c)',
         \/ conn'[ConnOf[c]].lock # "reserved"
         \/ \A y \in Conns \ {ConnOf[c]} : conn[y].lock # "reserved"
  PROVE  SqliteInv'
<1> DEFINE x == ConnOf[c]
<1>1. \A y \in Conns \ {x} : conn'[y] = conn[y]
  BY Zenon DEF ConnsApart
<1>2. ASSUME NEW d \in Clients \ {c}
      PROVE  SqliteLocal(d)'
  <2>1. /\ client'[d] = client[d] /\ conn'[ConnOf[d]] = conn[ConnOf[d]] /\ keyed' = keyed
    BY Zenon, <1>1, GuardAssumption DEF Apart, OwnHandle, setup
  <2>2. SqliteLocal(d)
    BY Zenon DEF SqliteInv
  <2>3. QED
    BY Zenon, <2>1, <2>2 DEF SqliteLocal
<1>3. \A d \in Clients : SqliteLocal(d)'
  BY Zenon, <1>2
<1>4. ASSUME NEW y \in Conns PROVE Fresh(y)'
  <2>1. CASE y = x
    BY Zenon, <2>1
  <2>2. CASE y # x
    BY Zenon, <1>1, <2>2 DEF Fresh, SqliteInv
  <2>3. QED
    BY Zenon, <2>1, <2>2
<1>5. \A y, z \in Conns : conn'[y].lock = "reserved" /\ conn'[z].lock = "reserved" => y = z
  BY Zenon, <1>1 DEF SqliteInv
<1>6. Cardinality(rows') <= MaxRecords
  BY Zenon DEF SqliteInv
<1>7. QED
  BY Zenon, <1>3, <1>4, <1>5, <1>6 DEF SqliteInv, Fresh

\* Every step of SQLite's clients keeps SqliteInv.
LEMMA SqliteStep ==
  ASSUME GuardInv, OwnHandle, OwnInv, SqliteInv, engine # "postgres", [Next]_vars
  PROVE  SqliteInv'
<1>1. GuardType /\ \A c \in Clients : OwnLocal(c) /\ SqliteLocal(c)
  BY Zenon DEF GuardInv, OwnInv, SqliteInv
<1>2. ASSUME NEW c \in Clients
      PROVE  ConnOf[c] \in Conns /\ conn[ConnOf[c]].depth \in Nat /\ Fresh(ConnOf[c])
  <2>1. ConnOf[c] \in Conns
    BY Zenon, GuardAssumption
  <2>2. QED
    BY Zenon, <1>1, <2>1 DEF GuardType, ConnType, SqliteInv, Fresh
\* Without a change of the handle there is no new writer.
<1>3. ASSUME NEW c \in Clients, conn'[ConnOf[c]].lock = conn[ConnOf[c]].lock
      PROVE  \/ conn'[ConnOf[c]].lock # "reserved"
             \/ \A y \in Conns \ {ConnOf[c]} : conn[y].lock # "reserved"
  BY Zenon, <1>2, <1>3 DEF SqliteInv
<1>4. CASE UNCHANGED <<rows, conn, client, keyed>>
  BY Zenon, <1>4 DEF SqliteInv, SqliteLocal
<1>5. CASE UNCHANGED vars
  BY Zenon, <1>4, <1>5 DEF vars
<1>6. ASSUME NEW c \in Clients, BeginTxFails(c)
      PROVE  SqliteInv'
  BY Zenon, <1>4, <1>6, BeginFailsEffect DEF setup
<1>7. ASSUME NEW c \in Clients, BeginTx(c)
      PROVE  SqliteInv'
  <2> DEFINE x == ConnOf[c]
  <2>1. /\ Apart(c) /\ ConnsApart(c) /\ rows' = rows /\ client'[c].pc = "total" /\ conn'[x] = Pushed(x)
    BY Zenon, <1>7, BeginEffect
  <2>2. /\ conn'[x].lock = conn[x].lock /\ conn'[x].stale = conn[x].stale
        /\ conn'[x].base = conn[x].base
    BY Zenon, <1>1, <1>2, <2>1, PushedEffect
  <2>3. Fresh(x)' /\ SqliteLocal(c)'
    BY Zenon, <1>2, <2>1, <2>2 DEF Fresh, SqliteLocal
  <2>4. QED
    BY Zenon, <1>3, <2>1, <2>2, <2>3, SqliteFrame
<1>8. ASSUME NEW c \in Clients, CountAll(c)
      PROVE  SqliteInv'
  <2> DEFINE x == ConnOf[c]
  <2>1. /\ Apart(c) /\ ConnsApart(c) /\ rows' = rows /\ client[c].pc = "total"
        /\ client'[c].pc = (IF keyed THEN "existing" ELSE "write")
        /\ client'[c].total = Cardinality(View(x)) /\ conn'[x] = AfterRead(x)
    BY Zenon, <1>8, CountAllEffect
  <2>2. /\ x \in Conns /\ keyed' = keyed
        /\ conn[x].depth = 1 => conn[x].lock = "none" /\ conn[x].own = {}
    BY Zenon, <1>1, <1>2, <2>1 DEF OwnLocal, Apart, setup
  <2>3. /\ conn'[x].depth = conn[x].depth /\ conn'[x].own = conn[x].own
        /\ conn'[x].stale = conn[x].stale
        /\ conn[x].lock # "none" => conn'[x] = conn[x]
        /\ conn[x].lock = "none" =>
             conn'[x].lock = "shared" /\ conn'[x].base = rows /\ View(x) = conn[x].own \cup rows
    BY Zenon, <1>1, <2>1, <2>2, ReadEffect
  <2>4. Fresh(x)'
    BY Zenon, <1>2, <2>1, <2>3 DEF Fresh
  <2>5. client'[c].pc = "write" => ~keyed'
    BY Zenon, <2>1, <2>2
  <2>6. conn[x].depth = 1 => View(x) = conn'[x].base /\ conn'[x].lock = "shared" /\ conn'[x].own = {}
    BY Zenon, <2>2, <2>3
  <2>7. SqliteLocal(c)'
    BY Zenon, <2>1, <2>3, <2>5, <2>6 DEF SqliteLocal
  <2>8. \/ conn'[x].lock # "reserved"
        \/ \A y \in Conns \ {x} : conn[y].lock # "reserved"
    BY Zenon, <1>3, <2>3
  <2>9. QED
    BY Zenon, <2>1, <2>4, <2>7, <2>8, SqliteFrame
<1>9. ASSUME NEW c \in Clients, CountKey(c)
      PROVE  SqliteInv'
  <2> DEFINE x == ConnOf[c]
  <2>1. /\ Apart(c) /\ ConnsApart(c) /\ rows' = rows
        /\ client[c].pc = "existing" /\ client'[c].pc = "write"
        /\ client'[c].key = client[c].key /\ client'[c].total = client[c].total
        /\ client'[c].existing # 0 => client[c].key \in View(x)
        /\ conn'[x] = AfterRead(x)
    BY Zenon, <1>9, CountKeyEffect
  <2>2. /\ x \in Conns /\ keyed' = keyed
        /\ conn[x].depth = 1 => /\ conn[x].lock = "shared" /\ conn[x].own = {}
                                /\ client[c].total = Cardinality(conn[x].base)
    BY Zenon, <1>1, <1>2, <2>1 DEF SqliteLocal, Apart, setup
  <2>3. /\ conn'[x].depth = conn[x].depth /\ conn'[x].own = conn[x].own
        /\ conn'[x].stale = conn[x].stale
        /\ conn[x].lock # "none" => conn'[x] = conn[x] /\ View(x) = conn[x].own \cup conn[x].base
        /\ conn[x].lock = "none" => conn'[x].lock = "shared" /\ conn'[x].base = rows
    BY <1>1, <2>1, <2>2, ReadEffect
  <2>4. Fresh(x)'
    BY Zenon, <1>2, <2>1, <2>3 DEF Fresh
  <2>5. conn[x].depth = 1 => View(x) = conn[x].base /\ conn'[x] = conn[x]
    BY Zenon, <2>2, <2>3
  <2>6. SqliteLocal(c)'
    BY Zenon, <2>1, <2>2, <2>3, <2>5 DEF SqliteLocal
  <2>7. \/ conn'[x].lock # "reserved"
        \/ \A y \in Conns \ {x} : conn[y].lock # "reserved"
    BY Zenon, <1>3, <2>3
  <2>8. QED
    BY Zenon, <2>1, <2>4, <2>6, <2>7, SqliteFrame
<1>10. ASSUME NEW c \in Clients, GuardedWrite(c)
      PROVE  SqliteInv'
  <2> DEFINE x == ConnOf[c]
             k == client[c].key
  <2>1. /\ Apart(c) /\ ConnsApart(c) /\ rows' = rows
        /\ client[c].pc = "write" /\ client'[c].pc = "commit" /\ client'[c].key = k
        /\ k \in Keys /\ ~Exceeded(c) /\ CanWrite(x) /\ conn'[x] = AfterWrite(x, k)
    BY Zenon, <1>10, GuardedWriteEffect
  <2>2. /\ conn'[x].depth = conn[x].depth /\ conn'[x].lock = "reserved"
        /\ conn'[x].stale = conn[x].stale /\ conn'[x].base = conn[x].base
        /\ conn'[x].own = conn[x].own \cup {k}
    BY <1>1, <1>2, <2>1, WriteEffect
  <2>3. ~conn[x].stale /\ \A y \in Conns \ {x} : conn[y].lock # "reserved"
    BY Zenon, <2>1 DEF CanWrite, Others
  <2>4. conn[x].lock # "none"
    BY Zenon, <1>1, <2>1 DEF SqliteLocal
  <2>5. conn[x].base = rows
    BY Zenon, <1>2, <2>3, <2>4 DEF Fresh
  <2>6. Fresh(x)'
    BY Zenon, <2>1, <2>2, <2>3, <2>5 DEF Fresh
  <2>7. IsFiniteSet(rows) /\ Cardinality(rows) \in Nat /\ Cardinality(rows) <= MaxRecords
    BY <1>1, KeyCount DEF GuardType, SqliteInv
  <2>8. ASSUME conn[x].depth = 1 PROVE Cardinality(rows \cup {k}) <= MaxRecords
    <3>1. /\ client[c].total = Cardinality(rows) /\ (keyed /\ client[c].existing # 0 => k \in rows)
      BY Zenon, <1>1, <2>1, <2>5, <2>8 DEF SqliteLocal
    <3>2. CASE k \in rows
      <4>1. rows \cup {k} = rows
        BY Zenon, <3>2
      <4>2. QED
        BY Zenon, <2>7, <4>1
    <3>3. CASE k \notin rows
      <4>1. Cardinality(rows \cup {k}) = Cardinality(rows) + 1
        BY Zenon, <2>7, <3>3, FS_AddElement
      <4>2. Cardinality(rows) < MaxRecords
        BY SMTT(20), <2>1, <2>7, <3>1, <3>3, GuardAssumption DEF Exceeded
      <4>3. QED
        BY <2>7, <4>1, <4>2, GuardAssumption
    <3>4. QED
      BY Zenon, <3>2, <3>3
  <2>9. conn[x].depth = 1 => conn[x].own = {}
    BY Zenon, <1>1, <2>1 DEF SqliteLocal
  <2>10. conn[x].depth = 1 => conn'[x].base \cup conn'[x].own = rows \cup {k}
    BY Zenon, <2>2, <2>5, <2>9
  <2>11. SqliteLocal(c)'
    BY Zenon, <2>1, <2>2, <2>8, <2>10 DEF SqliteLocal
  <2>12. QED
    BY Zenon, <2>1, <2>3, <2>6, <2>11, SqliteFrame
<1>11. ASSUME NEW c \in Clients, GuardedWriteFails(c) \/ CommitTxFails(c)
      PROVE  SqliteInv'
  <2>1. Apart(c) /\ UNCHANGED <<rows, conn>> /\ client'[c].pc = "rollback"
    BY Zenon, <1>11, CallFailsEffect
  <2>2. ConnsApart(c) /\ Fresh(ConnOf[c])' /\ SqliteLocal(c)'
    BY Zenon, <1>2, <2>1 DEF ConnsApart, Fresh, SqliteLocal
  <2>3. conn'[ConnOf[c]].lock = conn[ConnOf[c]].lock
    BY Zenon, <2>1
  <2>4. QED
    BY Zenon, <1>3, <2>1, <2>2, <2>3, SqliteFrame
<1>12. ASSUME NEW c \in Clients, CommitTx(c)
      PROVE  SqliteInv'
  <2> DEFINE x == ConnOf[c]
  <2>1. /\ Apart(c) /\ client[c].pc = "commit" /\ client'[c].pc = "idle"
        /\ \/ conn[x].depth = 1 /\ rows' = View(x) /\ conn' = AfterCommit(x)
           \/ conn[x].depth > 1 /\ conn'[x] = Popped(x) /\ ConnsApart(c) /\ rows' = rows
    BY Zenon, <1>12, CommitEffect
  <2>2. x \in Conns /\ conn[x].lock = "reserved"
    BY Zenon, <1>1, <1>2, <2>1 DEF OwnLocal
  <2>3. SqliteLocal(c)'
    BY Zenon, <2>1 DEF SqliteLocal
  <2>4. CASE conn[x].depth > 1 /\ conn'[x] = Popped(x) /\ ConnsApart(c) /\ rows' = rows
    <3>1. /\ conn'[x].lock = conn[x].lock /\ conn'[x].stale = conn[x].stale
          /\ conn'[x].base = conn[x].base
      BY <1>1, <1>2, <2>4, PoppedEffect
    <3>2. Fresh(x)'
      BY Zenon, <1>2, <2>4, <3>1 DEF Fresh
    <3>3. QED
      BY Zenon, <1>3, <2>1, <2>3, <2>4, <3>1, <3>2, SqliteFrame
  <2>5. CASE conn[x].depth = 1 /\ rows' = View(x) /\ conn' = AfterCommit(x)
    <3>1. Cardinality(rows') <= MaxRecords
      <4>1. View(x) = conn[x].base \cup conn[x].own
        BY Zenon, <1>1, <2>2, ReadEffect
      <4>2. QED
        BY Zenon, <1>1, <2>1, <2>5, <4>1 DEF SqliteLocal
    <3>2. /\ conn'[x].lock = "none" /\ ConnsKeep(c)
          /\ \A y \in Conns \ {x} : conn'[y].stale = (conn[y].stale \/ Outdates(x, y))
      <4>1. conn'[x] = NoTx
        BY Zenon, <1>1, <2>2, <2>5, AfterCommitType
      <4>2. ConnsKeep(c) /\ \A y \in Conns \ {x} : conn'[y].stale = (conn[y].stale \/ Outdates(x, y))
        BY Zenon, <1>1, <2>2, <2>5, AfterCommitType DEF ConnsKeep
      <4>3. QED
        BY <4>1, <4>2 DEF NoTx
    <3>3. \A y \in Conns : conn'[y].lock # "reserved"
      BY Zenon, <2>2, <3>2 DEF SqliteInv, ConnsKeep
    <3>4. ASSUME NEW y \in Conns, conn'[y].lock # "none"
          PROVE  conn'[y].stale
      <4>1. y \in Conns \ {x} /\ conn[y].lock # "none"
        BY Zenon, <3>2, <3>4 DEF ConnsKeep
      <4>2. Outdates(x, y)
        BY Zenon, <2>2, <4>1 DEF Outdates, Reading
      <4>3. QED
        BY Zenon, <3>2, <4>1, <4>2
    <3>5. ASSUME NEW d \in Clients PROVE SqliteLocal(d)'
      <4>1. CASE d = c
        BY Zenon, <2>3, <4>1
      <4>2. CASE d # c
        <5>1. /\ client'[d] = client[d] /\ keyed' = keyed
              /\ conn'[ConnOf[d]].depth = conn[ConnOf[d]].depth /\ conn'[ConnOf[d]].lock = conn[ConnOf[d]].lock
              /\ conn'[ConnOf[d]].base = conn[ConnOf[d]].base /\ conn'[ConnOf[d]].own = conn[ConnOf[d]].own
          BY Zenon, <2>1, <3>2, <4>2, OthersKeep DEF Apart, setup
        <5>2. QED
          BY Zenon, <1>1, <5>1 DEF SqliteLocal
      <4>3. QED
        BY Zenon, <4>1, <4>2
    <3>6. QED
      BY Zenon, <3>1, <3>3, <3>4, <3>5 DEF SqliteInv
  <2>6. QED
    BY Zenon, <2>1, <2>4, <2>5
<1>13. ASSUME NEW c \in Clients, RollbackTx(c) \/ RollbackTxFails(c)
      PROVE  SqliteInv'
  <2> DEFINE x == ConnOf[c]
  <2>1. /\ Apart(c) /\ ConnsApart(c) /\ rows' = rows
        /\ client[c].pc = "rollback" /\ client'[c].pc \in {"rollback", "idle"}
        /\ \/ conn'[x] = Unwound(x)
           \/ conn'[x] = conn[x]
           \/ conn[x].depth > 1 /\ conn'[x] = Rewound(x)
    BY Zenon, <1>13, RollbackEffect, RollbackFailsEffect
  <2>2. x \in Conns /\ c \in Active(x) /\ conn[x].depth \in Nat \ {0}
    BY Zenon, <2>1, InsideTx
  <2>3. \/ conn'[x].lock = "none"
        \/ /\ conn'[x].lock = conn[x].lock /\ conn'[x].stale = conn[x].stale
           /\ conn'[x].base = conn[x].base
    BY <2>1, <2>2, UnwoundEffect DEF NoTx
  <2>4. Fresh(x)' /\ SqliteLocal(c)'
    BY Zenon, <1>2, <2>1, <2>3 DEF Fresh, SqliteLocal
  <2>5. \/ conn'[x].lock # "reserved"
        \/ \A y \in Conns \ {x} : conn[y].lock # "reserved"
    BY Zenon, <1>3, <2>3
  <2>6. QED
    BY Zenon, <2>1, <2>4, <2>5, SqliteFrame
<1>14. QED
  BY Zenon, <1>5, <1>6, <1>7, <1>8, <1>9, <1>10, <1>11, <1>12, <1>13 DEF Next

-----------------------------------------------------------------------------
(* PostgreSQL *)

\* There are at most as many adders as clients, also after a step.
LEMMA AdderCount ==
  ASSUME GuardType, GuardType'
  PROVE  /\ IsFiniteSet(Adders) /\ Cardinality(Adders) \in Nat
         /\ IsFiniteSet(Adders') /\ Cardinality(Adders') \in Nat
         /\ Cardinality(Adders') <= Cardinality(Clients) /\ Cardinality(Clients) \in Nat
         /\ IsFiniteSet(rows) /\ Cardinality(rows) \in Nat
         /\ IsFiniteSet(rows') /\ Cardinality(rows') \in Nat
         /\ Adders' \subseteq Adders => Cardinality(Adders') <= Cardinality(Adders)
<1>1. Adders \subseteq Clients /\ Adders' \subseteq Clients
  BY Zenon DEF Adders
<1>2. /\ IsFiniteSet(Adders) /\ IsFiniteSet(Adders')
      /\ Cardinality(Adders') <= Cardinality(Clients)
  BY Zenon, <1>1, GuardAssumption, FS_Subset
<1>3. Adders' \subseteq Adders => Cardinality(Adders') <= Cardinality(Adders)
  BY Zenon, <1>2, FS_Subset
<1>4. /\ IsFiniteSet(rows) /\ Cardinality(rows) \in Nat
      /\ IsFiniteSet(rows') /\ Cardinality(rows') \in Nat
  BY KeyCount DEF GuardType
<1>5. QED
  BY Zenon, <1>2, <1>3, <1>4, GuardAssumption, FS_CardinalityType

\* Every step of PostgreSQL's clients keeps PostgresInv.
LEMMA PostgresStep ==
  ASSUME GuardInv, GuardType', OwnHandle, OwnInv, PostgresInv, engine = "postgres", [Next]_vars
  PROVE  PostgresInv'
<1> DEFINE Bound == Cardinality(rows) + Cardinality(Adders) <= MaxRecords + (Cardinality(Clients) - 1)
<1>0. GuardType /\ GuardType'
  BY Zenon DEF GuardInv
<1>1. Bound /\ \A c \in Clients : PostgresLocal(c) /\ OwnLocal(c)
  BY Zenon DEF PostgresInv, OwnInv
<1>2. ASSUME NEW c \in Clients PROVE ConnOf[c] \in Conns
  BY Zenon, GuardAssumption
<1>3. CASE UNCHANGED <<rows, conn, client, keyed>>
  BY Zenon, <1>3 DEF PostgresInv, PostgresLocal, Adders
\* A step that adds neither a row nor an adder.
<1>4. rows' = rows /\ Adders' \subseteq Adders => Bound'
  BY SMTT(20), <1>0, <1>1, AdderCount, GuardAssumption
\* The clients that do not move.
<1>5. ASSUME NEW c \in Clients, Apart(c), ConnsKeep(c), rows \subseteq rows', PostgresLocal(c)', Bound'
      PROVE  PostgresInv'
  <2>1. ASSUME NEW d \in Clients \ {c} PROVE PostgresLocal(d)'
    <3>1. client'[d] = client[d] /\ conn'[ConnOf[d]].own = conn[ConnOf[d]].own /\ keyed' = keyed
      BY Zenon, <1>5, OthersKeep DEF Apart, setup
    <3>2. QED
      BY Zenon, <1>1, <1>5, <3>1 DEF PostgresLocal
  <2>2. QED
    BY Zenon, <1>5, <2>1 DEF PostgresInv
<1>6. ASSUME NEW c \in Clients, Apart(c), rows' = rows, c \in Adders' => c \in Adders
      PROVE  Adders' \subseteq Adders
  BY Zenon, <1>6 DEF Adders, Apart
<1> HIDE DEF Bound
<1>7. CASE UNCHANGED vars
  BY Zenon, <1>3, <1>7 DEF vars
<1>8. ASSUME NEW c \in Clients, BeginTxFails(c)
      PROVE  PostgresInv'
  BY Zenon, <1>3, <1>8, BeginFailsEffect DEF setup
<1>9. ASSUME NEW c \in Clients,
             BeginTx(c) \/ GuardedWriteFails(c) \/ CommitTxFails(c) \/ RollbackTx(c) \/ RollbackTxFails(c)
      PROVE  PostgresInv'
  <2>1. /\ Apart(c) /\ rows' = rows /\ client'[c].pc \in {"total", "rollback", "idle"}
        /\ ConnsApart(c) \/ UNCHANGED conn
    BY Zenon, <1>9, BeginEffect, CallFailsEffect, RollbackEffect, RollbackFailsEffect
  <2>2. ConnsKeep(c)
    BY Zenon, <2>1, ApartKeep DEF ConnsKeep
  <2>3. PostgresLocal(c)' /\ c \notin Adders'
    BY Zenon, <2>1 DEF PostgresLocal, Adders
  <2>4. QED
    BY Zenon, <1>4, <1>5, <1>6, <2>1, <2>2, <2>3
<1>10. ASSUME NEW c \in Clients, CountAll(c)
      PROVE  PostgresInv'
  <2> DEFINE x == ConnOf[c]
  <2>1. /\ Apart(c) /\ ConnsApart(c) /\ rows' = rows /\ client[c].pc = "total"
        /\ client'[c].pc = (IF keyed THEN "existing" ELSE "write")
        /\ client'[c].total = Cardinality(View(x)) /\ conn'[x] = AfterRead(x)
    BY Zenon, <1>10, CountAllEffect
  <2>2. View(x) = rows /\ conn'[x] = conn[x] /\ conn[x].own = {}
    <3>1. conn[x].own = {}
      BY Zenon, <1>1, <2>1, PostgresDepth DEF OwnLocal
    <3>2. View(x) = conn[x].own \cup rows /\ AfterRead(x) = conn[x]
      BY Zenon, <1>0, <1>2, ReadEffect
    <3>3. {} \cup rows = rows
      BY Zenon
    <3>4. QED
      BY Zenon, <2>1, <3>1, <3>2, <3>3
  <2>3. client'[c].pc \in {"existing", "write"} /\ (client'[c].pc = "write" => ~keyed')
    BY Zenon, <2>1 DEF Apart, setup
  <2>4. PostgresLocal(c)'
    BY Zenon, <2>2, <2>3 DEF PostgresLocal
  <2>5. Bound'
    <3>1. CASE Cardinality(rows) < MaxRecords
      <4>1. Cardinality(Adders') <= Cardinality(Clients) /\ Cardinality(rows') <= MaxRecords - 1
        BY SMTT(20), <1>0, <2>1, <3>1, AdderCount, GuardAssumption
      <4>2. QED
        BY SMTT(20), <1>0, <4>1, AdderCount, GuardAssumption DEF Bound
    <3>2. CASE ~(Cardinality(rows) < MaxRecords)
      <4>1. c \notin Adders'
        BY Zenon, <2>1, <2>2, <2>3, <3>2 DEF Adders
      <4>2. QED
        BY Zenon, <1>4, <1>6, <2>1, <4>1
    <3>3. QED
      BY Zenon, <3>1, <3>2
  <2>6. QED
    BY Zenon, <1>5, <2>1, <2>4, <2>5, ApartKeep
<1>11. ASSUME NEW c \in Clients, CountKey(c)
      PROVE  PostgresInv'
  <2> DEFINE x == ConnOf[c]
  <2>1. /\ Apart(c) /\ ConnsApart(c) /\ rows' = rows
        /\ client[c].pc = "existing" /\ client'[c].pc = "write"
        /\ client'[c].key = client[c].key /\ client'[c].total = client[c].total
        /\ client'[c].existing # 0 => client[c].key \in View(x)
        /\ conn'[x] = AfterRead(x)
    BY Zenon, <1>11, CountKeyEffect
  <2>2. conn[x].own = {} /\ View(x) = rows /\ conn'[x] = conn[x]
    <3>1. conn[x].own = {}
      BY Zenon, <1>1, <2>1 DEF PostgresLocal
    <3>2. View(x) = conn[x].own \cup rows /\ AfterRead(x) = conn[x]
      BY Zenon, <1>0, <1>2, ReadEffect
    <3>3. {} \cup rows = rows
      BY Zenon
    <3>4. QED
      BY Zenon, <2>1, <3>1, <3>2, <3>3
  <2>3. PostgresLocal(c)'
    BY Zenon, <2>1, <2>2 DEF PostgresLocal
  <2>4. c \in Adders' => c \in Adders
    BY Zenon, <2>1 DEF Adders
  <2>5. QED
    BY Zenon, <1>4, <1>5, <1>6, <2>1, <2>3, <2>4, ApartKeep
<1>12. ASSUME NEW c \in Clients, GuardedWrite(c)
      PROVE  PostgresInv'
  <2> DEFINE x == ConnOf[c]
             k == client[c].key
  <2>1. /\ Apart(c) /\ ConnsApart(c) /\ rows' = rows /\ k \in Keys
        /\ client[c].pc = "write" /\ client'[c].pc = "commit" /\ client'[c].key = k
        /\ ~Exceeded(c) /\ conn'[x] = AfterWrite(x, k)
    BY Zenon, <1>12, GuardedWriteEffect
  <2>2. conn[x].own = {} /\ (keyed /\ client[c].existing # 0 => k \in rows)
    BY Zenon, <1>1, <2>1 DEF PostgresLocal
  <2>3. conn'[x].own = {k}
    BY SMTT(20), <1>0, <1>2, <2>1, <2>2, WriteEffect
  <2>4. PostgresLocal(c)'
    BY Zenon, <2>1, <2>3 DEF PostgresLocal
  <2>5. c \in Adders' => c \in Adders
    <3>1. client[c].total \in Nat
      BY SMTT(20), <1>0 DEF GuardType, ClientType
    <3>2. QED
      BY SMTT(20), <2>1, <2>2, <3>1, GuardAssumption DEF Adders, Exceeded
  <2>6. QED
    BY Zenon, <1>4, <1>5, <1>6, <2>1, <2>4, <2>5, ApartKeep
<1>13. ASSUME NEW c \in Clients, CommitTx(c)
      PROVE  PostgresInv'
  <2> DEFINE x == ConnOf[c]
             k == client[c].key
  <2>1. /\ Apart(c) /\ client[c].pc = "commit" /\ client'[c].pc = "idle"
        /\ \/ conn[x].depth = 1 /\ rows' = View(x) /\ conn' = AfterCommit(x)
           \/ conn[x].depth > 1
    BY Zenon, <1>13, CommitEffect
  <2>2. x \in Conns /\ conn[x].own = {k} /\ rows' = View(x) /\ conn' = AfterCommit(x)
    BY SMTT(20), <1>1, <1>2, <2>1, PostgresDepth DEF PostgresLocal
  <2>3. rows' = rows \cup {k}
    BY Zenon, <1>0, <2>2, ReadEffect
  <2>4. ConnsKeep(c)
    BY Zenon, <1>0, <2>2, AfterCommitType DEF ConnsKeep
  <2>5. PostgresLocal(c)'
    BY Zenon, <2>1 DEF PostgresLocal
  <2>6. c \notin Adders' /\ Adders' \subseteq Adders
    BY Zenon, <2>1, <2>3 DEF Adders, Apart
  <2>7. CASE k \in rows
    <3>1. rows' = rows
      BY Zenon, <2>3, <2>7
    <3>2. QED
      BY Zenon, <1>4, <1>5, <2>1, <2>4, <2>5, <2>6, <3>1
  <2>8. CASE k \notin rows
    <3>1. c \in Adders /\ Adders' \subseteq Adders \ {c}
      BY Zenon, <2>1, <2>6, <2>8 DEF Adders
    <3>2. IsFiniteSet(Adders \ {c}) /\ Cardinality(Adders \ {c}) = Cardinality(Adders) - 1
      BY Zenon, <1>0, <3>1, AdderCount, FS_RemoveElement
    <3>3. Cardinality(Adders') <= Cardinality(Adders) - 1
      BY <3>1, <3>2, FS_Subset
    <3>4. Cardinality(rows') = Cardinality(rows) + 1
      BY Zenon, <1>0, <2>3, <2>8, AdderCount, FS_AddElement
    <3>5. Bound'
      BY SMTT(20), <1>0, <1>1, <3>3, <3>4, AdderCount, GuardAssumption DEF Bound
    <3>6. rows \subseteq rows'
      BY Zenon, <2>3
    <3>7. QED
      BY Zenon, <1>5, <2>1, <2>4, <2>5, <3>5, <3>6
  <2>9. QED
    BY Zenon, <2>7, <2>8
<1>14. QED
  BY Zenon, <1>7, <1>8, <1>9, <1>10, <1>11, <1>12, <1>13 DEF Next

-----------------------------------------------------------------------------
(* The theorems *)

\* CapacityInv holds for clients with a handle each.
LEMMA CapacityInvariant ==
  ASSUME OwnHandle
  PROVE  Spec => []CapacityInv
<1>1. Init => CapacityInv
  <2> SUFFICES ASSUME Init PROVE CapacityInv
    OBVIOUS
  <2>1. Cardinality(rows) = 0 /\ rows = {} /\ acked = {}
    BY Zenon, FS_EmptySet DEF Init
  <2>2. ASSUME NEW c \in Clients
        PROVE  client[c].pc = "idle" /\ ConnOf[c] \in Conns
    BY Zenon, GuardAssumption DEF Init, Idle
  <2>3. \A x \in Conns : conn[x] = NoTx /\ conn[x].lock = "none" /\ conn[x].own = {}
    BY Zenon DEF Init, NoTx
  <2>4. OwnInv
    BY Zenon, <2>1, <2>2, <2>3 DEF OwnInv, OwnLocal
  <2>5. SqliteInv
    BY SMTT(20), <2>1, <2>2, <2>3, GuardAssumption DEF SqliteInv, SqliteLocal
  <2>6. PostgresInv
    <3>1. Adders = {}
      BY Zenon, <2>2 DEF Adders
    <3>2. Cardinality(Clients) \in Nat /\ Cardinality(Clients) # 0
      BY Zenon, GuardAssumption, FS_CardinalityType, FS_EmptySet
    <3>3. Cardinality(Adders) = 0
      BY Zenon, <3>1, FS_EmptySet
    <3>4. QED
      BY SMTT(20), <2>1, <2>2, <3>2, <3>3, GuardAssumption DEF PostgresInv, PostgresLocal
  <2>7. QED
    BY Zenon, <2>4, <2>5, <2>6 DEF CapacityInv
<1>2. GuardInv /\ GuardInv' /\ CapacityInv /\ [Next]_vars => CapacityInv'
  <2> SUFFICES ASSUME GuardInv, GuardInv', CapacityInv, [Next]_vars PROVE CapacityInv'
    BY SMTT(20)
  <2>1. engine' = engine
    BY Zenon DEF Next, vars, setup, BeginTx, BeginTxFails, CountAll, CountKey, Count, GuardedWrite,
                 GuardedWriteFails, CommitTx, CommitTxFails, RollbackTx, RollbackTxFails
  <2>2. QED
    BY Zenon, <2>1, OwnStep, SqliteStep, PostgresStep DEF CapacityInv, GuardInv
<1>3. QED
  BY <1>1, <1>2, GuardInvariant, PTL DEF Spec

\* CapacityBound: wrapped in a transaction, the guarded writes of any number of clients
\* with handles of their own never exceed <NAME>_MAX_RECORDS on SQLite, and exceed it by
\* fewer rows than there are clients on PostgreSQL, with and without a primary key and
\* whatever calls fail.
THEOREM CapacityHolds ==
  ASSUME OwnHandle
  PROVE  Spec => []CapacityBound
<1>1. GuardInv /\ CapacityInv => CapacityBound
  <2> SUFFICES ASSUME GuardInv, CapacityInv PROVE CapacityBound
    OBVIOUS
  <2>1. /\ Cardinality(rows) \in Nat /\ Cardinality(Adders) \in Nat
        /\ MaxRecords \in Nat /\ Cardinality(Clients) \in Nat
    <3>1. IsFiniteSet(Adders)
      BY Zenon, GuardAssumption, FS_Subset DEF Adders
    <3>2. QED
      BY Zenon, <3>1, KeyCount, GuardAssumption, FS_CardinalityType DEF GuardInv, GuardType
  <2>2. CASE engine = "postgres"
    BY <2>1, <2>2 DEF CapacityInv, PostgresInv, CapacityBound
  <2>3. CASE engine # "postgres"
    BY SMTT(20), <2>1, <2>3 DEF CapacityInv, SqliteInv, CapacityBound
  <2>4. QED
    BY Zenon, <2>2, <2>3
<1>2. QED
  BY <1>1, GuardInvariant, CapacityInvariant, PTL

\* AcknowledgedStays: a guarded write that was answered with OK, CommitTx included, is
\* never lost when a transaction is refused or rolled back, of the same client or of
\* another, also when a rollback fails and its client goes on.
THEOREM AcknowledgedWritesStay ==
  ASSUME OwnHandle
  PROVE  Spec => []AcknowledgedStays
<1>1. GuardInv /\ CapacityInv => AcknowledgedStays
  <2> SUFFICES ASSUME GuardInv, CapacityInv, NEW k \in acked,
                      k \notin rows
               PROVE  \E x \in Conns : k \in conn[x].own
    BY Zenon DEF AcknowledgedStays
  <2>1. PICK c \in Clients : k \in Kept(c)
    BY Zenon DEF CapacityInv, OwnInv
  <2>2. ConnOf[c] \in Conns /\ OwnLocal(c)
    BY Zenon, GuardAssumption DEF CapacityInv, OwnInv
  <2>3. CASE client[c].pc = "idle"
    BY Zenon, <2>1, <2>2, <2>3 DEF Kept
  <2>4. CASE client[c].pc # "idle"
    <3>1. conn[ConnOf[c]].depth \in Nat \ {0}
      BY Zenon, <2>4, InsideTx
    <3>2. conn[ConnOf[c]].depth > 1 /\ k \in Innermost(ConnOf[c])
      BY <2>1, <2>4, <3>1 DEF Kept
    <3>3. QED
      BY Zenon, <2>2, <2>4, <3>2 DEF OwnLocal
  <2>5. QED
    BY Zenon, <2>3, <2>4
<1>2. QED
  BY <1>1, GuardInvariant, CapacityInvariant, PTL

=============================================================================
