------------------------- MODULE CapacityGuardTypes -------------------------
(***************************************************************************)
(* The guarded write, for any number of clients, keys and writes and any   *)
(* limit.  GuardInv types the state and counts the clients inside a        *)
(* transaction: the stack of a handle has a level for each of them, and,   *)
(* when rollbacks failed, levels that nobody left.                         *)
(***************************************************************************)
EXTENDS CapacityGuard, FiniteSetTheorems, TLAPS

ConnType == [depth : Nat, lock : {"none", "shared", "reserved"}, stale : BOOLEAN,
             base : SUBSET Keys, own : SUBSET Keys, marks : Seq(SUBSET Keys)]

ClientType == [pc : {"idle", "total", "existing", "write", "commit", "rollback"},
               key : Keys \cup {NoKey}, total : 0..Cardinality(Keys), existing : 0..1]

\* The clients of a handle that are inside their transaction.
Active(x) == {c \in Clients : ConnOf[c] = x /\ client[c].pc # "idle"}

GuardType ==
  /\ rows \subseteq Keys /\ acked \subseteq Keys
  /\ begun \in 0..MaxWrites /\ engine \in Engines /\ keyed \in BOOLEAN
  /\ conn \in [Conns -> ConnType]
  /\ client \in [Clients -> ClientType]
  /\ \A c \in Clients : client[c].pc # "idle" => client[c].key \in Keys

\* The transaction stack of a handle has a level for each of them, PostgreSQL's no
\* other, and a savepoint for each level but the first.
DepthInv ==
  \A x \in Conns : /\ Cardinality(Active(x)) <= conn[x].depth
                   /\ conn[x].depth <= MaxTxDepth
                   /\ engine = "postgres" => conn[x].depth = Cardinality(Active(x))
                   /\ Len(conn[x].marks) = IF conn[x].depth = 0 THEN 0 ELSE conn[x].depth - 1

GuardInv == GuardType /\ DepthInv

-----------------------------------------------------------------------------
(* Types *)

\* Goto changes the program counter of one client.
LEMMA GotoEffect ==
  ASSUME GuardType, NEW c \in Clients, NEW pc \in {"idle", "commit", "rollback"}, Goto(c, pc)
  PROVE  /\ client' \in [Clients -> ClientType]
         /\ client'[c].pc = pc
         /\ client'[c].key = client[c].key
         /\ \A d \in Clients \ {c} : client'[d] = client[d]
BY Zenon DEF GuardType, ClientType, Goto

\* A set of keys has no more members than there are keys.
LEMMA KeyCount ==
  ASSUME NEW S \in SUBSET Keys
  PROVE  IsFiniteSet(S) /\ Cardinality(S) \in 0..Cardinality(Keys)
<1>1. IsFiniteSet(Keys) /\ IsFiniteSet(S) /\ Cardinality(S) <= Cardinality(Keys)
  BY Zenon, GuardAssumption, FS_Subset
<1>2. QED
  BY <1>1, FS_CardinalityType

\* Of one key there is at most one.
LEMMA OneKey ==
  ASSUME NEW S, NEW k
  PROVE  Cardinality(S \cap {k}) = IF k \in S THEN 1 ELSE 0
<1>1. CASE k \in S
  <2>1. S \cap {k} = {k}
    BY Zenon, <1>1
  <2>2. QED
    BY Zenon, <1>1, <2>1, FS_Singleton
<1>2. CASE k \notin S
  <2>1. S \cap {k} = {}
    BY Zenon, <1>2
  <2>2. QED
    BY Zenon, <1>2, <2>1, FS_EmptySet
<1>3. QED
  BY Zenon, <1>1, <1>2

\* What a connection sees is a set of keys, also once it has read.
LEMMA ViewType ==
  ASSUME GuardType, NEW x \in Conns
  PROVE  /\ View(x) \in SUBSET Keys
         /\ AfterRead(x) \in ConnType
         /\ AfterRead(x).depth = conn[x].depth /\ AfterRead(x).marks = conn[x].marks
BY Zenon DEF GuardType, ConnType, View, AfterRead, Reading

\* The transaction stack grows by a level.
LEMMA PushedEffect ==
  ASSUME GuardType, NEW x \in Conns
  PROVE  /\ Pushed(x) \in ConnType /\ Pushed(x).depth = conn[x].depth + 1
         /\ Pushed(x).lock = conn[x].lock /\ Pushed(x).stale = conn[x].stale
         /\ Pushed(x).base = conn[x].base /\ Pushed(x).own = conn[x].own
         /\ conn[x].depth = 0 => Len(Pushed(x).marks) = Len(conn[x].marks)
         /\ conn[x].depth # 0 => Len(Pushed(x).marks) = Len(conn[x].marks) + 1
<1> DEFINE d == conn[x].depth + 1
           m == IF conn[x].depth = 0 THEN conn[x].marks ELSE Append(conn[x].marks, conn[x].own)
<1>1. conn[x] \in ConnType
  BY Zenon DEF GuardType
<1>2. conn[x].depth \in Nat /\ conn[x].marks \in Seq(SUBSET Keys) /\ conn[x].own \in SUBSET Keys
  BY Zenon, <1>1 DEF ConnType
<1>3. /\ m \in Seq(SUBSET Keys)
      /\ conn[x].depth = 0 => Len(m) = Len(conn[x].marks)
      /\ conn[x].depth # 0 => Len(m) = Len(conn[x].marks) + 1
  <2>1. CASE conn[x].depth = 0
    BY Zenon, <1>2, <2>1
  <2>2. CASE conn[x].depth # 0
    BY <1>1, <1>2, <2>2
  <2>3. QED
    BY Zenon, <2>1, <2>2
<1>4. /\ Pushed(x).depth = d /\ Pushed(x).marks = m
      /\ Pushed(x).lock = conn[x].lock /\ Pushed(x).stale = conn[x].stale
      /\ Pushed(x).base = conn[x].base /\ Pushed(x).own = conn[x].own
  BY Zenon, <1>1 DEF Pushed, ConnType
<1>5. Pushed(x) = [conn[x] EXCEPT !.depth = d, !.marks = m] /\ d \in Nat
  BY <1>2 DEF Pushed
<1> HIDE DEF d, m
<1>6. Pushed(x) \in ConnType
  BY Zenon, <1>1, <1>3, <1>5 DEF ConnType
<1>7. QED
  BY Zenon, <1>3, <1>4, <1>6 DEF d

\* It loses a savepoint.
LEMMA PoppedEffect ==
  ASSUME GuardType, NEW x \in Conns, conn[x].depth # 0
  PROVE  /\ Popped(x) \in ConnType /\ Popped(x).depth = conn[x].depth - 1
         /\ conn[x].marks # << >> => Len(Popped(x).marks) = Len(conn[x].marks) - 1
         /\ Popped(x).lock = conn[x].lock /\ Popped(x).stale = conn[x].stale
         /\ Popped(x).base = conn[x].base /\ Popped(x).own = conn[x].own
<1> DEFINE d == conn[x].depth - 1
           m == SubSeq(conn[x].marks, 1, Len(conn[x].marks) - 1)
<1>1. conn[x] \in ConnType
  BY Zenon DEF GuardType
<1>2. conn[x].depth \in Nat /\ conn[x].marks \in Seq(SUBSET Keys)
  BY Zenon, <1>1 DEF ConnType
<1>3. d \in Nat
  BY <1>2
<1>4. /\ m \in Seq(SUBSET Keys)
      /\ conn[x].marks # << >> => Len(m) = Len(conn[x].marks) - 1
  <2>1. CASE conn[x].marks = << >>
    BY <1>2, <2>1
  <2>2. CASE conn[x].marks # << >>
    <3>1. Len(conn[x].marks) \in Nat /\ Len(conn[x].marks) >= 1
      BY <1>2, <2>2
    <3>2. QED
      BY <1>2, <3>1
  <2>3. QED
    BY Zenon, <2>1, <2>2
<1>5. /\ Popped(x).depth = d /\ Popped(x).marks = m
      /\ Popped(x).lock = conn[x].lock /\ Popped(x).stale = conn[x].stale
      /\ Popped(x).base = conn[x].base /\ Popped(x).own = conn[x].own
  BY Zenon, <1>1 DEF Popped, ConnType
<1>6. Popped(x) = [conn[x] EXCEPT !.depth = d, !.marks = m]
  BY Zenon DEF Popped
<1> HIDE DEF d, m
<1>7. Popped(x) \in ConnType
  BY Zenon, <1>1, <1>3, <1>4, <1>6 DEF ConnType
<1>8. QED
  BY Zenon, <1>4, <1>5, <1>7 DEF d

\* A write adds a key.
LEMMA WriteEffect ==
  ASSUME GuardType, NEW x \in Conns, NEW k \in Keys
  PROVE  /\ AfterWrite(x, k) \in ConnType
         /\ AfterWrite(x, k).depth = conn[x].depth
         /\ AfterWrite(x, k).marks = conn[x].marks
         /\ AfterWrite(x, k).lock = "reserved"
         /\ AfterWrite(x, k).stale = conn[x].stale /\ AfterWrite(x, k).base = conn[x].base
         /\ AfterWrite(x, k).own = conn[x].own \cup {k}
<1>1. conn[x] \in ConnType
  BY Zenon DEF GuardType
<1>2. QED
  BY Zenon, <1>1 DEF AfterWrite, ConnType

\* What x has written makes y's view of the database out of date.
Outdates(x, y) == engine # "postgres" /\ conn[x].lock = "reserved" /\ Reading(y)

\* A commit of x leaves the other connections' transactions alone.
LEMMA AfterCommitType ==
  ASSUME GuardType, NEW x \in Conns
  PROVE  /\ AfterCommit(x) \in [Conns -> ConnType]
         /\ AfterCommit(x)[x] = NoTx
         /\ \A y \in Conns \ {x} : /\ AfterCommit(x)[y].depth = conn[y].depth
                                   /\ AfterCommit(x)[y].lock = conn[y].lock
                                   /\ AfterCommit(x)[y].base = conn[y].base
                                   /\ AfterCommit(x)[y].own = conn[y].own
                                   /\ AfterCommit(x)[y].marks = conn[y].marks
                                   /\ AfterCommit(x)[y].stale = (conn[y].stale \/ Outdates(x, y))
<1>1. NoTx \in ConnType
  BY DEF NoTx, ConnType
<1>2. ASSUME NEW r \in ConnType, NEW b \in BOOLEAN
      PROVE  LET n == [r EXCEPT !.stale = b]
             IN  /\ n \in ConnType /\ n.depth = r.depth /\ n.lock = r.lock
                 /\ n.base = r.base /\ n.own = r.own /\ n.marks = r.marks
  BY Zenon DEF ConnType
<1>3. ASSUME NEW y \in Conns \ {x}
      PROVE  /\ AfterCommit(x)[y] \in ConnType
             /\ AfterCommit(x)[y].depth = conn[y].depth /\ AfterCommit(x)[y].lock = conn[y].lock
             /\ AfterCommit(x)[y].base = conn[y].base /\ AfterCommit(x)[y].own = conn[y].own
             /\ AfterCommit(x)[y].marks = conn[y].marks
             /\ AfterCommit(x)[y].stale = (conn[y].stale \/ Outdates(x, y))
  <2> DEFINE b == conn[y].stale \/ Outdates(x, y)
  <2>1. AfterCommit(x)[y] = [conn[y] EXCEPT !.stale = b]
    BY Zenon DEF AfterCommit, Outdates
  <2>2. b \in BOOLEAN
    BY Zenon
  <2>3. conn[y] \in ConnType
    BY Zenon DEF GuardType
  <2>4. [conn[y] EXCEPT !.stale = b].stale = b
    BY Zenon, <2>3, Zenon DEF ConnType
  <2>5. AfterCommit(x)[y].stale = b
    BY Zenon, <2>1, <2>4, Zenon
  <2> HIDE DEF b
  <2>6. QED
    BY ZenonT(40), <1>2, <2>1, <2>2, <2>3, <2>5 DEF b
<1>4. AfterCommit(x)[x] = NoTx
  BY Zenon DEF AfterCommit
<1>5. AfterCommit(x) = [y \in Conns |-> AfterCommit(x)[y]]
  BY Zenon DEF AfterCommit
<1>6. QED
  BY Zenon, <1>1, <1>3, <1>4, <1>5

\* A handle with a client inside a transaction is in one, with a savepoint for each
\* level but the first.
LEMMA ActiveCount ==
  ASSUME GuardInv, NEW x \in Conns
  PROVE  /\ IsFiniteSet(Active(x)) /\ Cardinality(Active(x)) \in Nat
         /\ \A c \in Active(x) : /\ conn[x].depth \in Nat \ {0}
                                 /\ Len(conn[x].marks) = conn[x].depth - 1
<1>1. IsFiniteSet(Active(x)) /\ Cardinality(Active(x)) \in Nat
  BY Zenon, GuardAssumption, FS_Subset, FS_CardinalityType DEF Active
<1>2. Active(x) # {} => Cardinality(Active(x)) # 0
  BY Zenon, <1>1, FS_EmptySet
<1>3. conn[x].depth \in Nat
  BY Zenon DEF GuardInv, GuardType, ConnType
<1>4. QED
  BY <1>1, <1>2, <1>3 DEF GuardInv, DepthInv

\* A rollback inside a transaction goes back to the innermost savepoint, and a complete
\* one drops it; the outermost one ends the transaction.
LEMMA UnwoundEffect ==
  ASSUME GuardInv, NEW x \in Conns, NEW c \in Active(x)
  PROVE  /\ conn[x].depth = 1 => Unwound(x) = NoTx
         /\ conn[x].depth > 1 =>
              /\ Unwound(x) \in ConnType /\ Rewound(x) \in ConnType
              /\ Unwound(x).depth = conn[x].depth - 1 /\ Rewound(x).depth = conn[x].depth
              /\ Len(Unwound(x).marks) = Len(conn[x].marks) - 1
              /\ Rewound(x).marks = conn[x].marks
              /\ Unwound(x).lock = conn[x].lock /\ Rewound(x).lock = conn[x].lock
              /\ Unwound(x).stale = conn[x].stale /\ Rewound(x).stale = conn[x].stale
              /\ Unwound(x).base = conn[x].base /\ Rewound(x).base = conn[x].base
              /\ Unwound(x).own = conn[x].marks[Len(conn[x].marks)]
              /\ Rewound(x).own = conn[x].marks[Len(conn[x].marks)]
<1> DEFINE m == conn[x].marks[Len(conn[x].marks)]
<1>1. conn[x] \in ConnType /\ conn[x].depth \in Nat \ {0} /\ Len(conn[x].marks) = conn[x].depth - 1
  BY Zenon, ActiveCount DEF GuardInv, GuardType
<1>2. CASE conn[x].depth = 1
  BY <1>2 DEF Unwound
<1>3. CASE conn[x].depth > 1
  <2>1. conn[x].marks \in Seq(SUBSET Keys) /\ Len(conn[x].marks) \in 1..Len(conn[x].marks)
    BY <1>1, <1>3 DEF ConnType
  <2>2. m \in SUBSET Keys
    BY <2>1
  <2>3. /\ Popped(x) \in ConnType /\ Popped(x).depth = conn[x].depth - 1
        /\ Len(Popped(x).marks) = Len(conn[x].marks) - 1
        /\ Popped(x).lock = conn[x].lock /\ Popped(x).stale = conn[x].stale
        /\ Popped(x).base = conn[x].base
    <3>1. conn[x].marks # << >>
      BY <1>1, <1>3, <2>1
    <3>2. QED
      BY Zenon, <1>1, <1>3, <3>1, PoppedEffect DEF GuardInv
  <2>4. ASSUME NEW r \in ConnType
        PROVE  LET n == [r EXCEPT !.own = m]
               IN  /\ n \in ConnType /\ n.depth = r.depth /\ n.marks = r.marks /\ n.lock = r.lock
                   /\ n.stale = r.stale /\ n.base = r.base /\ n.own = m
    BY Zenon, <2>2 DEF ConnType
  <2>5. Rewound(x) = [conn[x] EXCEPT !.own = m]
    BY Zenon DEF Rewound
  <2>6. Rewound(x).own = m
    BY Zenon, <1>1, <2>4, <2>5
  <2>7. Unwound(x) = [Popped(x) EXCEPT !.own = m]
    BY <1>3, <2>6 DEF Unwound
  <2> HIDE DEF m
  <2>8. /\ Rewound(x) \in ConnType /\ Rewound(x).depth = conn[x].depth
        /\ Rewound(x).marks = conn[x].marks /\ Rewound(x).lock = conn[x].lock
        /\ Rewound(x).stale = conn[x].stale /\ Rewound(x).base = conn[x].base
    BY Zenon, <1>1, <2>4, <2>5
  <2>9. /\ Unwound(x) \in ConnType /\ Unwound(x).depth = Popped(x).depth
        /\ Unwound(x).marks = Popped(x).marks /\ Unwound(x).lock = Popped(x).lock
        /\ Unwound(x).stale = Popped(x).stale /\ Unwound(x).base = Popped(x).base
        /\ Unwound(x).own = m
    BY Zenon, <2>3, <2>4, <2>7
  <2>10. QED
    BY <1>3, <2>3, <2>6, <2>8, <2>9 DEF m
<1>4. QED
  BY Zenon, <1>1, <1>2, <1>3

-----------------------------------------------------------------------------
(* What the steps do *)

\* A step of client c leaves the other clients alone, and so does one of its handle the
\* other handles.
Apart(c) == (\A d \in Clients \ {c} : client'[d] = client[d]) /\ UNCHANGED setup

ConnsApart(c) == \A y \in Conns \ {ConnOf[c]} : conn'[y] = conn[y]

\* The state is well-typed after a step of client c that leaves it and its handle so.
LEMMA TypeStep ==
  ASSUME GuardType, NEW c \in Clients, NEW x \in Conns, NEW k \in ClientType, NEW r \in ConnType,
         k.pc = "idle" \/ k.key \in Keys,
         client' = [client EXCEPT ![c] = k], conn' = [conn EXCEPT ![x] = r],
         begun' \in 0..MaxWrites, rows' = rows, acked' = acked, setup' = setup
  PROVE  /\ GuardType' /\ client'[c] = k
         /\ Apart(c) /\ (x = ConnOf[c] => ConnsApart(c))
<1>1. client'[c] = k /\ Apart(c) /\ (x = ConnOf[c] => ConnsApart(c))
  BY Zenon DEF GuardType, Apart, ConnsApart, setup
<1>2. client' \in [Clients -> ClientType] /\ conn' \in [Conns -> ConnType]
  BY Zenon DEF GuardType
<1>3. QED
  BY Zenon, <1>1, <1>2 DEF GuardType, Apart, setup

\* The same, of a step that only moves the program counter.
LEMMA GotoStep ==
  ASSUME GuardType, NEW c \in Clients, NEW x \in Conns, NEW r \in ConnType,
         NEW pc \in {"idle", "commit", "rollback"}, Goto(c, pc), client[c].pc # "idle",
         conn' = [conn EXCEPT ![x] = r], UNCHANGED <<rows, acked, begun, setup>>
  PROVE  /\ GuardType' /\ client'[c].pc = pc /\ client'[c].key = client[c].key /\ conn'[x] = r
         /\ Apart(c) /\ (x = ConnOf[c] => ConnsApart(c))
<1> DEFINE k == [client[c] EXCEPT !.pc = pc]
<1>1. client[c] \in ClientType /\ client[c].key \in Keys
  BY Zenon DEF GuardType
<1>2. k \in ClientType /\ k.pc = pc /\ k.key = client[c].key
  BY Zenon, <1>1 DEF ClientType
<1>3. client' = [client EXCEPT ![c] = k]
  BY Zenon DEF Goto, GuardType
<1>4. begun' \in 0..MaxWrites
  BY Zenon DEF GuardType
<1>5. conn'[x] = r
  BY Zenon DEF GuardType
<1> HIDE DEF k
<1>6. QED
  BY Zenon, <1>1, <1>2, <1>3, <1>4, <1>5, TypeStep

\* A step that fails and only moves the program counter.
LEMMA FailStep ==
  ASSUME GuardType, NEW c \in Clients, NEW pc \in {"idle", "rollback"}, Goto(c, pc),
         client[c].pc # "idle", UNCHANGED <<rows, acked, conn, begun, setup>>
  PROVE  /\ GuardType' /\ client'[c].pc = pc /\ client'[c].key = client[c].key
         /\ Apart(c) /\ ConnsApart(c)
<1>1. ConnOf[c] \in Conns
  BY Zenon, GuardAssumption
<1>2. conn[ConnOf[c]] \in ConnType /\ conn' = [conn EXCEPT ![ConnOf[c]] = conn[ConnOf[c]]]
  BY Zenon, <1>1 DEF GuardType
<1>3. QED
  BY ZenonT(60), <1>1, <1>2, GotoStep

\* SqlRDBBeginTx: a level more.
LEMMA BeginEffect ==
  ASSUME GuardInv, NEW c \in Clients, BeginTx(c)
  PROVE  /\ GuardType' /\ Apart(c) /\ ConnsApart(c) /\ UNCHANGED <<rows, acked>>
         /\ client[c].pc = "idle" /\ client'[c].pc = "total"
         /\ conn[ConnOf[c]].depth < MaxTxDepth /\ conn'[ConnOf[c]] = Pushed(ConnOf[c])
<1>1. ConnOf[c] \in Conns
  BY Zenon, GuardAssumption
<1>2. Pushed(ConnOf[c]) \in ConnType
  BY Zenon, <1>1, PushedEffect DEF GuardInv
<1>3. PICK k \in Keys :
         client' = [client EXCEPT ![c] = [pc |-> "total", key |-> k, total |-> 0, existing |-> 0]]
  BY Zenon DEF BeginTx
<1> DEFINE r == [pc |-> "total", key |-> k, total |-> 0, existing |-> 0]
<1>4. r \in ClientType /\ r.pc = "total" /\ r.key \in Keys
  <2>1. 0 \in 0..Cardinality(Keys)
    BY KeyCount
  <2>2. QED
    BY <2>1 DEF ClientType
<1>5. begun' \in 0..MaxWrites
  BY GuardAssumption DEF BeginTx, GuardInv, GuardType
<1>6. /\ conn' = [conn EXCEPT ![ConnOf[c]] = Pushed(ConnOf[c])]
      /\ UNCHANGED <<rows, acked, setup>> /\ client[c].pc = "idle" /\ conn[ConnOf[c]].depth < MaxTxDepth
  BY Zenon DEF BeginTx
<1> HIDE DEF r
<1>7. client' = [client EXCEPT ![c] = r]
  BY Zenon, <1>3 DEF r
<1>8. conn'[ConnOf[c]] = Pushed(ConnOf[c])
  BY Zenon, <1>1, <1>6 DEF GuardInv, GuardType
<1>9. QED
  BY Zenon, <1>1, <1>2, <1>4, <1>5, <1>6, <1>7, <1>8, TypeStep DEF GuardInv

\* Its failure.
LEMMA BeginFailsEffect ==
  ASSUME GuardInv, NEW c \in Clients, BeginTxFails(c)
  PROVE  GuardType' /\ UNCHANGED <<rows, acked, conn, client, setup>>
<1>1. begun' \in 0..MaxWrites
  BY GuardAssumption DEF BeginTxFails, GuardInv, GuardType
<1>2. UNCHANGED <<rows, acked, conn, client, setup>>
  BY Zenon DEF BeginTxFails
<1>3. QED
  BY Zenon, <1>1, <1>2 DEF GuardInv, GuardType, setup

\* One count, of all rows or of one key.
LEMMA CountEffect ==
  ASSUME GuardInv, NEW c \in Clients, NEW from \in {"total", "existing"}, NEW counted \in ClientType,
         counted.key = client[c].key, Count(c, from, counted)
  PROVE  /\ GuardType' /\ Apart(c) /\ ConnsApart(c) /\ UNCHANGED <<rows, acked>>
         /\ client[c].pc = from /\ client'[c] = counted /\ conn'[ConnOf[c]] = AfterRead(ConnOf[c])
<1>1. ConnOf[c] \in Conns /\ AfterRead(ConnOf[c]) \in ConnType
  BY Zenon, GuardAssumption, ViewType DEF GuardInv
<1>2. /\ client[c].pc = from /\ client' = [client EXCEPT ![c] = counted]
      /\ conn' = [conn EXCEPT ![ConnOf[c]] = AfterRead(ConnOf[c])]
      /\ UNCHANGED <<rows, acked, begun, setup>>
  BY Zenon DEF Count
<1>3. client[c].key \in Keys /\ begun' \in 0..MaxWrites
  BY Zenon, <1>2 DEF GuardInv, GuardType
<1>4. conn'[ConnOf[c]] = AfterRead(ConnOf[c])
  BY Zenon, <1>1, <1>2 DEF GuardInv, GuardType
<1>5. QED
  BY Zenon, <1>1, <1>2, <1>3, <1>4, TypeStep DEF GuardInv

\* The number of rows the client sees.
LEMMA CountAllEffect ==
  ASSUME GuardInv, NEW c \in Clients, CountAll(c)
  PROVE  /\ GuardType' /\ Apart(c) /\ ConnsApart(c) /\ UNCHANGED <<rows, acked>>
         /\ client[c].pc = "total" /\ client'[c].pc = IF keyed THEN "existing" ELSE "write"
         /\ client'[c].key = client[c].key /\ client'[c].total = Cardinality(View(ConnOf[c]))
         /\ conn'[ConnOf[c]] = AfterRead(ConnOf[c])
<1> DEFINE n == Cardinality(View(ConnOf[c]))
           pc == IF keyed THEN "existing" ELSE "write"
           counted == [client[c] EXCEPT !.pc = pc, !.total = n]
<1>1. n \in 0..Cardinality(Keys) /\ pc \in {"existing", "write"}
  BY Zenon, GuardAssumption, ViewType, KeyCount DEF GuardInv
<1>2. client[c] \in ClientType
  BY Zenon DEF GuardInv, GuardType
<1>3. Count(c, "total", counted)
  BY Zenon DEF CountAll
<1> HIDE DEF n, pc
<1>4. /\ counted \in ClientType /\ counted.key = client[c].key /\ counted.pc = pc
      /\ counted.total = n
  BY Zenon, <1>1, <1>2 DEF ClientType
<1> HIDE DEF counted
<1>5. QED
  BY Zenon, <1>3, <1>4, CountEffect DEF n, pc

\* Whether it sees the key.
LEMMA CountKeyEffect ==
  ASSUME GuardInv, NEW c \in Clients, CountKey(c)
  PROVE  /\ GuardType' /\ Apart(c) /\ ConnsApart(c) /\ UNCHANGED <<rows, acked>>
         /\ client[c].pc = "existing" /\ client'[c].pc = "write"
         /\ client'[c].key = client[c].key /\ client'[c].total = client[c].total
         /\ client'[c].existing # 0 => client[c].key \in View(ConnOf[c])
         /\ conn'[ConnOf[c]] = AfterRead(ConnOf[c])
<1> DEFINE n == Cardinality(View(ConnOf[c]) \cap {client[c].key})
           counted == [client[c] EXCEPT !.pc = "write", !.existing = n]
<1>1. n \in 0..1 /\ (n # 0 => client[c].key \in View(ConnOf[c]))
  BY OneKey
<1>2. client[c] \in ClientType
  BY Zenon DEF GuardInv, GuardType
<1>3. Count(c, "existing", counted)
  BY Zenon DEF CountKey
<1> HIDE DEF n
<1>4. /\ counted \in ClientType /\ counted.key = client[c].key /\ counted.pc = "write"
      /\ counted.total = client[c].total /\ counted.existing = n
  BY Zenon, <1>1, <1>2 DEF ClientType
<1> HIDE DEF counted
<1>5. QED
  BY Zenon, <1>1, <1>3, <1>4, CountEffect

\* The write.
LEMMA GuardedWriteEffect ==
  ASSUME GuardInv, NEW c \in Clients, GuardedWrite(c)
  PROVE  /\ GuardType' /\ Apart(c) /\ ConnsApart(c) /\ UNCHANGED <<rows, acked>>
         /\ client[c].pc = "write" /\ client'[c].pc = "commit" /\ client'[c].key = client[c].key
         /\ client[c].key \in Keys /\ ~Exceeded(c) /\ CanWrite(ConnOf[c])
         /\ conn'[ConnOf[c]] = AfterWrite(ConnOf[c], client[c].key)
<1>1. /\ client[c].pc = "write" /\ ~Exceeded(c) /\ CanWrite(ConnOf[c]) /\ Goto(c, "commit")
      /\ conn' = [conn EXCEPT ![ConnOf[c]] = AfterWrite(ConnOf[c], client[c].key)]
      /\ UNCHANGED <<rows, acked, begun, setup>>
  BY Zenon DEF GuardedWrite
<1>2. ConnOf[c] \in Conns /\ client[c].key \in Keys
  BY Zenon, <1>1, GuardAssumption DEF GuardInv, GuardType
<1>3. AfterWrite(ConnOf[c], client[c].key) \in ConnType
  BY Zenon, <1>2, WriteEffect DEF GuardInv
<1>4. QED
  BY Zenon, <1>1, <1>2, <1>3, GotoStep DEF GuardInv

\* A call of the guarded write that fails, or a commit.
LEMMA CallFailsEffect ==
  ASSUME GuardInv, NEW c \in Clients, GuardedWriteFails(c) \/ CommitTxFails(c)
  PROVE  /\ GuardType' /\ Apart(c) /\ UNCHANGED <<rows, acked, conn>>
         /\ client[c].pc # "idle" /\ client'[c].pc = "rollback"
<1>1. /\ client[c].pc # "idle" /\ Goto(c, "rollback")
      /\ UNCHANGED <<rows, acked, conn, begun, setup>>
  BY Zenon DEF GuardedWriteFails, CommitTxFails
<1>2. QED
  BY Zenon, <1>1, FailStep DEF GuardInv

\* The handle of a client inside a transaction.
LEMMA InsideTx ==
  ASSUME GuardInv, NEW c \in Clients, client[c].pc # "idle"
  PROVE  /\ ConnOf[c] \in Conns /\ c \in Active(ConnOf[c])
         /\ conn[ConnOf[c]].depth \in Nat \ {0}
         /\ Len(conn[ConnOf[c]].marks) = conn[ConnOf[c]].depth - 1
<1>1. ConnOf[c] \in Conns /\ c \in Active(ConnOf[c])
  BY Zenon, GuardAssumption DEF Active
<1>2. QED
  BY Zenon, <1>1, ActiveCount

\* COMMIT, or RELEASE.
LEMMA CommitEffect ==
  ASSUME GuardInv, NEW c \in Clients, CommitTx(c)
  PROVE  LET x == ConnOf[c]
         IN  /\ GuardType' /\ Apart(c) /\ client[c].pc = "commit" /\ client'[c].pc = "idle"
             /\ acked' = acked \cup {client[c].key}
             /\ \/ conn[x].depth = 1 /\ CanCommit(x) /\ rows' = View(x) /\ conn' = AfterCommit(x)
                \/ conn[x].depth > 1 /\ conn'[x] = Popped(x) /\ ConnsApart(c) /\ rows' = rows
<1> DEFINE x == ConnOf[c]
<1>1. /\ client[c].pc = "commit" /\ Goto(c, "idle") /\ acked' = acked \cup {client[c].key}
      /\ UNCHANGED <<begun, setup>>
      /\ \/ conn[x].depth = 1 /\ CanCommit(x) /\ rows' = View(x) /\ conn' = AfterCommit(x)
         \/ conn[x].depth > 1 /\ conn' = [conn EXCEPT ![x] = Popped(x)] /\ UNCHANGED rows
  BY Zenon DEF CommitTx
<1>2. x \in Conns /\ conn[x].depth # 0 /\ GuardType
  BY Zenon, <1>1, InsideTx DEF GuardInv
<1>3. client[c].key \in Keys /\ acked' \subseteq Keys
  BY Zenon, <1>1, <1>2 DEF GuardType
<1>4. Popped(x) \in ConnType
  BY Zenon, <1>2, PoppedEffect
<1>5. rows' \subseteq Keys /\ conn' \in [Conns -> ConnType]
  <2>1. CASE rows' = View(x) /\ conn' = AfterCommit(x)
    BY Zenon, <1>2, <2>1, ViewType, AfterCommitType
  <2>2. CASE conn' = [conn EXCEPT ![x] = Popped(x)] /\ UNCHANGED rows
    BY Zenon, <1>2, <1>4, <2>2 DEF GuardType
  <2>3. QED
    BY Zenon, <1>1, <2>1, <2>2
<1>6. /\ client' \in [Clients -> ClientType] /\ client'[c].pc = "idle"
      /\ \A d \in Clients \ {c} : client'[d] = client[d]
  BY Zenon, <1>1, <1>2, GotoEffect
<1>7. GuardType'
  BY Zenon, <1>1, <1>2, <1>3, <1>5, <1>6 DEF GuardType, setup
<1>8. conn' = [conn EXCEPT ![x] = Popped(x)] => conn'[x] = Popped(x) /\ ConnsApart(c)
  BY Zenon, <1>2 DEF GuardType, ConnsApart
<1>9. QED
  BY Zenon, <1>1, <1>6, <1>7, <1>8 DEF Apart

\* ROLLBACK, or ROLLBACK TO and RELEASE.
LEMMA RollbackEffect ==
  ASSUME GuardInv, NEW c \in Clients, RollbackTx(c)
  PROVE  /\ GuardType' /\ Apart(c) /\ ConnsApart(c) /\ UNCHANGED <<rows, acked>>
         /\ client[c].pc = "rollback" /\ client'[c].pc = "idle"
         /\ conn'[ConnOf[c]] = Unwound(ConnOf[c])
<1>1. /\ client[c].pc = "rollback" /\ Goto(c, "idle")
      /\ conn' = [conn EXCEPT ![ConnOf[c]] = Unwound(ConnOf[c])]
      /\ UNCHANGED <<rows, acked, begun, setup>>
  BY Zenon DEF RollbackTx
<1>2. /\ ConnOf[c] \in Conns /\ c \in Active(ConnOf[c]) /\ conn[ConnOf[c]].depth \in Nat \ {0}
  BY Zenon, <1>1, InsideTx
<1>3. Unwound(ConnOf[c]) \in ConnType
  <2>1. NoTx \in ConnType
    BY DEF NoTx, ConnType
  <2>2. conn[ConnOf[c]].depth = 1 \/ conn[ConnOf[c]].depth > 1
    BY <1>2
  <2>3. QED
    BY Zenon, <1>2, <2>1, <2>2, UnwoundEffect
<1>4. QED
  BY Zenon, <1>1, <1>2, <1>3, GotoStep DEF GuardInv

\* Its failure: nothing, or only the RELEASE is missing.
LEMMA RollbackFailsEffect ==
  ASSUME GuardInv, NEW c \in Clients, RollbackTxFails(c)
  PROVE  LET x == ConnOf[c]
         IN  /\ GuardType' /\ Apart(c) /\ ConnsApart(c) /\ UNCHANGED <<rows, acked>>
             /\ engine # "postgres"
             /\ client[c].pc = "rollback" /\ client'[c].pc \in {"rollback", "idle"}
             /\ conn'[x] = conn[x] \/ (conn[x].depth > 1 /\ conn'[x] = Rewound(x))
<1> DEFINE x == ConnOf[c]
<1>1. /\ client[c].pc = "rollback" /\ MayFail(x) /\ UNCHANGED <<rows, acked, begun, setup>>
      /\ Goto(c, "rollback") \/ Goto(c, "idle")
      /\ UNCHANGED conn \/ (conn[x].depth > 1 /\ conn' = [conn EXCEPT ![x] = Rewound(x)])
  BY Zenon DEF RollbackTxFails
<1>2. x \in Conns /\ c \in Active(x) /\ conn[x].depth \in Nat \ {0}
  BY Zenon, <1>1, InsideTx
<1>3. PICK pc \in {"rollback", "idle"} : Goto(c, pc)
  BY Zenon, <1>1
<1>4. engine # "postgres"
  BY Zenon, <1>1, <1>2 DEF MayFail
<1>5. CASE UNCHANGED conn
  BY Zenon, <1>1, <1>3, <1>4, <1>5, FailStep DEF GuardInv
<1>6. CASE conn[x].depth > 1 /\ conn' = [conn EXCEPT ![x] = Rewound(x)]
  <2>1. Rewound(x) \in ConnType
    BY Zenon, <1>2, <1>6, UnwoundEffect
  <2>2. QED
    BY Zenon, <1>1, <1>2, <1>3, <1>4, <1>6, <2>1, GotoStep DEF GuardInv
<1>7. QED
  BY Zenon, <1>1, <1>5, <1>6

\* Every step keeps GuardType.
LEMMA GuardTypeStep ==
  ASSUME GuardInv, [Next]_vars
  PROVE  GuardType'
<1>1. CASE UNCHANGED vars
  BY Zenon, <1>1 DEF vars, GuardInv, GuardType
<1>2. ASSUME NEW c \in Clients, BeginTx(c) \/ CountAll(c) \/ CountKey(c) \/ GuardedWrite(c)
      PROVE  GuardType'
  BY Zenon, <1>2, BeginEffect, CountAllEffect, CountKeyEffect, GuardedWriteEffect
<1>3. ASSUME NEW c \in Clients, CommitTx(c) \/ RollbackTx(c) \/ RollbackTxFails(c)
      PROVE  GuardType'
  BY Zenon, <1>3, CommitEffect, RollbackEffect, RollbackFailsEffect
<1>4. ASSUME NEW c \in Clients, BeginTxFails(c) \/ GuardedWriteFails(c) \/ CommitTxFails(c)
      PROVE  GuardType'
  BY Zenon, <1>4, BeginFailsEffect, CallFailsEffect
<1>5. QED
  BY Zenon, <1>1, <1>2, <1>3, <1>4 DEF Next

-----------------------------------------------------------------------------
(* The transaction stack *)

\* A client that enters its transaction is one more, one that leaves it one less.
LEMMA ActiveStep ==
  ASSUME GuardInv, NEW c \in Clients,
         \A d \in Clients \ {c} : client'[d] = client[d]
  PROVE  LET x == ConnOf[c]
             n == Cardinality(Active(x))
         IN  /\ n \in Nat /\ Cardinality(Active(x)') \in Nat
             /\ \A y \in Conns \ {x} : Active(y)' = Active(y)
             /\ client[c].pc = "idle" /\ client'[c].pc # "idle" => Cardinality(Active(x)') = n + 1
             /\ client[c].pc # "idle" /\ client'[c].pc = "idle" => Cardinality(Active(x)') = n - 1
             /\ client[c].pc # "idle" /\ client'[c].pc # "idle" => Cardinality(Active(x)') = n
<1> DEFINE x == ConnOf[c]
<1>1. x \in Conns
  BY Zenon, GuardAssumption
<1>2. IsFiniteSet(Active(x)) /\ Cardinality(Active(x)) \in Nat
  BY Zenon, <1>1, ActiveCount, FS_CardinalityType
<1>3. \A y \in Conns \ {x} : Active(y)' = Active(y)
  BY Zenon DEF Active
<1>4. ASSUME client[c].pc = "idle", client'[c].pc # "idle"
      PROVE  Cardinality(Active(x)') = Cardinality(Active(x)) + 1
  <2>1. Active(x)' = Active(x) \cup {c} /\ c \notin Active(x)
    BY Zenon, <1>4 DEF Active
  <2>2. QED
    BY Zenon, <1>2, <2>1, FS_AddElement
<1>5. ASSUME client[c].pc # "idle", client'[c].pc = "idle"
      PROVE  Cardinality(Active(x)') = Cardinality(Active(x)) - 1
  <2>1. Active(x)' = Active(x) \ {c} /\ c \in Active(x)
    BY Zenon, <1>5 DEF Active
  <2>2. QED
    BY Zenon, <1>2, <2>1, FS_RemoveElement
<1>6. ASSUME client[c].pc # "idle", client'[c].pc # "idle"
      PROVE  Cardinality(Active(x)') = Cardinality(Active(x))
  BY SMTT(20), <1>6 DEF Active
<1>7. Cardinality(Active(x)') \in Nat
  <2>1. IsFiniteSet(Active(x)')
    BY Zenon, GuardAssumption, FS_Subset DEF Active
  <2>2. QED
    BY Zenon, <2>1, FS_CardinalityType
<1>8. QED
  BY Zenon, <1>2, <1>3, <1>4, <1>5, <1>6, <1>7

\* A step of client c keeps the count when its handle has it afterwards.
LEMMA DepthFrame ==
  ASSUME GuardInv, NEW c \in Clients, Apart(c),
         \A y \in Conns \ {ConnOf[c]} :
            conn'[y].depth = conn[y].depth /\ Len(conn'[y].marks) = Len(conn[y].marks),
         LET x == ConnOf[c]
         IN  /\ Cardinality(Active(x)') <= conn'[x].depth
             /\ conn'[x].depth <= MaxTxDepth
             /\ engine = "postgres" => conn'[x].depth = Cardinality(Active(x)')
             /\ Len(conn'[x].marks) = IF conn'[x].depth = 0 THEN 0 ELSE conn'[x].depth - 1
  PROVE  DepthInv'
<1>1. engine' = engine /\ \A y \in Conns \ {ConnOf[c]} : Active(y)' = Active(y)
  BY Zenon, ActiveStep DEF Apart, setup
<1>2. ASSUME NEW y \in Conns
      PROVE  /\ Cardinality(Active(y)') <= conn'[y].depth
             /\ conn'[y].depth <= MaxTxDepth
             /\ engine' = "postgres" => conn'[y].depth = Cardinality(Active(y)')
             /\ Len(conn'[y].marks) = IF conn'[y].depth = 0 THEN 0 ELSE conn'[y].depth - 1
  <2>1. CASE y = ConnOf[c]
    BY Zenon, <1>1, <2>1
  <2>2. CASE y # ConnOf[c]
    <3>1. Cardinality(Active(y)') = Cardinality(Active(y))
      BY Zenon, <1>1, <2>2
    <3>2. QED
      BY Zenon, <1>1, <2>2, <3>1 DEF GuardInv, DepthInv
  <2>3. QED
    BY Zenon, <2>1, <2>2
<1>3. QED
  BY Zenon, <1>2 DEF DepthInv

\* A step inside a transaction that leaves the stack alone.
LEMMA DepthSame ==
  ASSUME GuardInv, NEW c \in Clients, Apart(c), client[c].pc # "idle", client'[c].pc # "idle",
         \A y \in Conns : conn'[y].depth = conn[y].depth /\ Len(conn'[y].marks) = Len(conn[y].marks)
  PROVE  DepthInv'
<1>1. ConnOf[c] \in Conns
  BY Zenon, GuardAssumption
<1>2. Cardinality(Active(ConnOf[c])') = Cardinality(Active(ConnOf[c]))
  BY Zenon, ActiveStep DEF Apart
<1>3. QED
  BY Zenon, <1>1, <1>2, DepthFrame DEF GuardInv, DepthInv

\* Every step keeps the count.
LEMMA DepthStep ==
  ASSUME GuardInv, [Next]_vars
  PROVE  DepthInv'
<1>1. CASE UNCHANGED vars
  BY Zenon, <1>1 DEF vars, GuardInv, DepthInv, Active
<1>2. ASSUME NEW c \in Clients
      PROVE  /\ ConnOf[c] \in Conns
             /\ conn[ConnOf[c]].depth \in Nat /\ Len(conn[ConnOf[c]].marks) \in Nat
  <2>1. ConnOf[c] \in Conns
    BY Zenon, GuardAssumption
  <2>2. QED
    BY <2>1 DEF GuardInv, GuardType, ConnType
<1>3. ASSUME NEW c \in Clients, BeginTx(c)
      PROVE  DepthInv'
  <2> DEFINE x == ConnOf[c]
  <2>1. /\ Apart(c) /\ ConnsApart(c) /\ client[c].pc = "idle" /\ client'[c].pc = "total"
        /\ conn[x].depth < MaxTxDepth /\ conn'[x] = Pushed(x)
    BY Zenon, <1>3, BeginEffect
  <2>2. Cardinality(Active(x)') = Cardinality(Active(x)) + 1 /\ Cardinality(Active(x)) \in Nat
    BY Zenon, <2>1, ActiveStep DEF Apart
  <2>3. /\ conn'[x].depth = conn[x].depth + 1
        /\ conn[x].depth = 0 => Len(conn'[x].marks) = Len(conn[x].marks)
        /\ conn[x].depth # 0 => Len(conn'[x].marks) = Len(conn[x].marks) + 1
    BY Zenon, <1>2, <2>1, PushedEffect DEF GuardInv
  <2>4. /\ Cardinality(Active(x)) <= conn[x].depth
        /\ engine = "postgres" => conn[x].depth = Cardinality(Active(x))
        /\ Len(conn[x].marks) = IF conn[x].depth = 0 THEN 0 ELSE conn[x].depth - 1
    BY Zenon, <1>2 DEF GuardInv, DepthInv
  <2>5. /\ Cardinality(Active(x)') <= conn'[x].depth /\ conn'[x].depth <= MaxTxDepth
        /\ engine = "postgres" => conn'[x].depth = Cardinality(Active(x)')
        /\ Len(conn'[x].marks) = IF conn'[x].depth = 0 THEN 0 ELSE conn'[x].depth - 1
    BY <1>2, <2>1, <2>2, <2>3, <2>4, GuardAssumption
  <2>6. \A y \in Conns \ {x} : conn'[y].depth = conn[y].depth /\ Len(conn'[y].marks) = Len(conn[y].marks)
    BY Zenon, <2>1 DEF ConnsApart
  <2>7. QED
    BY Zenon, <2>1, <2>5, <2>6, DepthFrame
<1>4. ASSUME NEW c \in Clients, CountAll(c) \/ CountKey(c)
      PROVE  DepthInv'
  <2>1. /\ Apart(c) /\ ConnsApart(c) /\ client[c].pc \in {"total", "existing"}
        /\ client'[c].pc \in {"existing", "write"} /\ conn'[ConnOf[c]] = AfterRead(ConnOf[c])
    BY Zenon, <1>4, CountAllEffect, CountKeyEffect
  <2>2. \A y \in Conns : conn'[y].depth = conn[y].depth /\ Len(conn'[y].marks) = Len(conn[y].marks)
    BY Zenon, <1>2, <2>1, ViewType DEF ConnsApart, GuardInv
  <2>3. QED
    BY Zenon, <2>1, <2>2, DepthSame
<1>5. ASSUME NEW c \in Clients, GuardedWrite(c)
      PROVE  DepthInv'
  <2>1. /\ Apart(c) /\ ConnsApart(c) /\ client[c].pc = "write" /\ client'[c].pc = "commit"
        /\ client[c].key \in Keys /\ conn'[ConnOf[c]] = AfterWrite(ConnOf[c], client[c].key)
    BY Zenon, <1>5, GuardedWriteEffect
  <2>2. \A y \in Conns : conn'[y].depth = conn[y].depth /\ Len(conn'[y].marks) = Len(conn[y].marks)
    BY <1>2, <2>1, WriteEffect DEF ConnsApart, GuardInv
  <2>3. QED
    BY Zenon, <2>1, <2>2, DepthSame
<1>6. ASSUME NEW c \in Clients, GuardedWriteFails(c) \/ CommitTxFails(c)
      PROVE  DepthInv'
  <2>1. Apart(c) /\ UNCHANGED conn /\ client[c].pc # "idle" /\ client'[c].pc = "rollback"
    BY Zenon, <1>6, CallFailsEffect
  <2>2. QED
    BY Zenon, <2>1, DepthSame
<1>7. ASSUME NEW c \in Clients, BeginTxFails(c)
      PROVE  DepthInv'
  <2>1. UNCHANGED <<conn, client>> /\ engine' = engine
    BY Zenon, <1>7, BeginFailsEffect DEF setup
  <2>2. QED
    BY Zenon, <2>1 DEF GuardInv, DepthInv, Active
\* The client leaves its transaction, and with it its level of the stack.
<1>8. ASSUME NEW c \in Clients, client[c].pc # "idle", client'[c].pc = "idle", Apart(c),
             \A y \in Conns \ {ConnOf[c]} :
                conn'[y].depth = conn[y].depth /\ Len(conn'[y].marks) = Len(conn[y].marks),
             conn'[ConnOf[c]].depth = conn[ConnOf[c]].depth - 1,
             Len(conn'[ConnOf[c]].marks) =
                IF conn[ConnOf[c]].depth = 1 THEN 0 ELSE conn[ConnOf[c]].depth - 2
      PROVE  DepthInv'
  <2> DEFINE x == ConnOf[c]
  <2>1. Cardinality(Active(x)') = Cardinality(Active(x)) - 1 /\ Cardinality(Active(x)) \in Nat
    BY Zenon, <1>8, ActiveStep DEF Apart
  <2>2. conn[x].depth \in Nat \ {0}
    BY Zenon, <1>8, InsideTx
  <2>3. /\ Cardinality(Active(x)) <= conn[x].depth /\ conn[x].depth <= MaxTxDepth
        /\ engine = "postgres" => conn[x].depth = Cardinality(Active(x))
    BY Zenon, <1>2 DEF GuardInv, DepthInv
  <2>4. /\ Cardinality(Active(x)') <= conn'[x].depth /\ conn'[x].depth <= MaxTxDepth
        /\ engine = "postgres" => conn'[x].depth = Cardinality(Active(x)')
        /\ Len(conn'[x].marks) = IF conn'[x].depth = 0 THEN 0 ELSE conn'[x].depth - 1
    BY <1>8, <2>1, <2>2, <2>3, GuardAssumption
  <2>5. QED
    BY Zenon, <1>8, <2>4, DepthFrame
<1>9. ASSUME NEW c \in Clients, CommitTx(c)
      PROVE  DepthInv'
  <2> DEFINE x == ConnOf[c]
  <2>1. /\ Apart(c) /\ client[c].pc = "commit" /\ client'[c].pc = "idle"
        /\ \/ conn[x].depth = 1 /\ conn' = AfterCommit(x)
           \/ conn[x].depth > 1 /\ conn'[x] = Popped(x) /\ ConnsApart(c)
    BY Zenon, <1>9, CommitEffect
  <2>2. conn[x].depth \in Nat \ {0} /\ Len(conn[x].marks) = conn[x].depth - 1
    BY Zenon, <2>1, InsideTx
  <2>3. CASE conn[x].depth = 1 /\ conn' = AfterCommit(x)
    <3>1. /\ conn'[x] = NoTx
          /\ \A y \in Conns \ {x} : conn'[y].depth = conn[y].depth /\ conn'[y].marks = conn[y].marks
      BY Zenon, <1>2, <2>3, AfterCommitType DEF GuardInv
    <3>2. conn'[x].depth = 0 /\ Len(conn'[x].marks) = 0
      BY <3>1 DEF NoTx
    <3>3. QED
      BY <1>8, <2>1, <2>3, <3>1, <3>2
  <2>4. CASE conn[x].depth > 1 /\ conn'[x] = Popped(x) /\ ConnsApart(c)
    <3>1. conn[x].marks # << >>
      BY <2>2, <2>4
    <3>2. conn'[x].depth = conn[x].depth - 1 /\ Len(conn'[x].marks) = Len(conn[x].marks) - 1
      BY Zenon, <1>2, <2>2, <2>4, <3>1, PoppedEffect DEF GuardInv
    <3>3. \A y \in Conns \ {x} : conn'[y].depth = conn[y].depth /\ Len(conn'[y].marks) = Len(conn[y].marks)
      BY Zenon, <2>4 DEF ConnsApart
    <3>4. Len(conn'[x].marks) = IF conn[x].depth = 1 THEN 0 ELSE conn[x].depth - 2
      BY <2>2, <2>4, <3>2
    <3>5. QED
      BY Zenon, <1>8, <2>1, <3>2, <3>3, <3>4
  <2>5. QED
    BY Zenon, <2>1, <2>3, <2>4
<1>10. ASSUME NEW c \in Clients, RollbackTx(c)
      PROVE  DepthInv'
  <2> DEFINE x == ConnOf[c]
  <2>1. /\ Apart(c) /\ ConnsApart(c) /\ client[c].pc = "rollback" /\ client'[c].pc = "idle"
        /\ conn'[x] = Unwound(x)
    BY Zenon, <1>10, RollbackEffect
  <2>2. /\ x \in Conns /\ c \in Active(x)
        /\ conn[x].depth \in Nat \ {0} /\ Len(conn[x].marks) = conn[x].depth - 1
    BY Zenon, <2>1, InsideTx
  <2>3. \A y \in Conns \ {x} : conn'[y].depth = conn[y].depth /\ Len(conn'[y].marks) = Len(conn[y].marks)
    BY Zenon, <2>1 DEF ConnsApart
  <2>4. CASE conn[x].depth = 1
    <3>1. conn'[x].depth = 0 /\ Len(conn'[x].marks) = 0
      BY <2>1, <2>2, <2>4, UnwoundEffect DEF NoTx
    <3>2. QED
      BY <1>8, <2>1, <2>3, <2>4, <3>1
  <2>5. CASE conn[x].depth > 1
    <3>1. conn'[x].depth = conn[x].depth - 1 /\ Len(conn'[x].marks) = Len(conn[x].marks) - 1
      BY Zenon, <2>1, <2>2, <2>5, UnwoundEffect
    <3>2. Len(conn'[x].marks) = IF conn[x].depth = 1 THEN 0 ELSE conn[x].depth - 2
      BY <2>2, <2>5, <3>1
    <3>3. QED
      BY Zenon, <1>8, <2>1, <2>3, <3>1, <3>2
  <2>6. QED
    BY <2>2, <2>4, <2>5
\* A failed rollback leaves the level, with or without the client.
<1>11. ASSUME NEW c \in Clients, RollbackTxFails(c)
      PROVE  DepthInv'
  <2> DEFINE x == ConnOf[c]
  <2>1. /\ Apart(c) /\ ConnsApart(c) /\ engine # "postgres"
        /\ client[c].pc = "rollback" /\ client'[c].pc \in {"rollback", "idle"}
        /\ conn'[x] = conn[x] \/ (conn[x].depth > 1 /\ conn'[x] = Rewound(x))
    BY Zenon, <1>11, RollbackFailsEffect
  <2>2. x \in Conns /\ c \in Active(x)
    BY Zenon, <2>1, InsideTx
  <2>3. conn'[x].depth = conn[x].depth /\ conn'[x].marks = conn[x].marks
    BY Zenon, <2>1, <2>2, UnwoundEffect
  <2>4. Cardinality(Active(x)') <= Cardinality(Active(x))
    BY <2>1, ActiveStep DEF Apart
  <2>5. /\ Cardinality(Active(x)) <= conn[x].depth /\ conn[x].depth <= MaxTxDepth
        /\ Len(conn[x].marks) = IF conn[x].depth = 0 THEN 0 ELSE conn[x].depth - 1
        /\ Cardinality(Active(x)) \in Nat /\ Cardinality(Active(x)') \in Nat
    BY Zenon, <1>2, <2>1, ActiveStep DEF GuardInv, DepthInv, Apart
  <2>6. /\ Cardinality(Active(x)') <= conn'[x].depth /\ conn'[x].depth <= MaxTxDepth
        /\ Len(conn'[x].marks) = IF conn'[x].depth = 0 THEN 0 ELSE conn'[x].depth - 1
    BY <1>2, <2>3, <2>4, <2>5
  <2>7. \A y \in Conns \ {x} : conn'[y].depth = conn[y].depth /\ Len(conn'[y].marks) = Len(conn[y].marks)
    BY Zenon, <2>1 DEF ConnsApart
  <2>8. QED
    BY Zenon, <2>1, <2>6, <2>7, DepthFrame
<1>12. QED
  BY Zenon, <1>1, <1>3, <1>4, <1>5, <1>6, <1>7, <1>9, <1>10, <1>11 DEF Next

\* GuardInv holds, for clients with handles of their own and for clients of one handle.
LEMMA GuardInvariant == Spec => []GuardInv
<1>1. Init => GuardInv
  <2> SUFFICES ASSUME Init PROVE GuardInv
    OBVIOUS
  <2>1. NoTx \in ConnType /\ Idle \in ClientType
    BY GuardAssumption, KeyCount DEF NoTx, Idle, ConnType, ClientType
  <2>2. GuardType
    BY <2>1, GuardAssumption DEF Init, GuardType, Idle
  <2>3. \A x \in Conns : Active(x) = {} /\ Cardinality(Active(x)) = 0
    BY Zenon, FS_EmptySet DEF Init, Active, Idle
  <2>4. DepthInv
    BY <2>3, GuardAssumption DEF Init, DepthInv, NoTx
  <2>5. QED
    BY Zenon, <2>2, <2>4 DEF GuardInv
<1>2. GuardInv /\ [Next]_vars => GuardInv'
  BY Zenon, GuardTypeStep, DepthStep DEF GuardInv
<1>3. QED
  BY <1>1, <1>2, PTL DEF Spec

\* TypeOK: the transaction stack of a handle is never deeper than C2SQL_MAX_TX_DEPTH, for
\* clients with handles of their own and for clients of one handle, and when rollbacks
\* fail and the levels they leave pile up.
THEOREM GuardTypeCorrect == Spec => []TypeOK
<1>1. GuardInv => TypeOK
  <2> SUFFICES ASSUME GuardInv PROVE TypeOK
    OBVIOUS
  <2>1. ASSUME NEW x \in Conns
        PROVE  /\ conn[x].depth \in 0..MaxTxDepth
               /\ conn[x].lock \in {"none", "shared", "reserved"} /\ conn[x].stale \in BOOLEAN
               /\ conn[x].base \subseteq Keys /\ conn[x].own \subseteq Keys
               /\ \A i \in DOMAIN conn[x].marks : conn[x].marks[i] \subseteq Keys
    <3>1. conn[x] \in ConnType
      BY Zenon DEF GuardInv, GuardType
    <3>2. conn[x].depth \in 0..MaxTxDepth
      BY <3>1, GuardAssumption DEF GuardInv, DepthInv, ConnType
    <3>3. QED
      BY <3>1, <3>2 DEF ConnType
  <2>2. QED
    BY Zenon, <2>1 DEF GuardInv, GuardType, TypeOK, ClientType
<1>2. QED
  BY <1>1, GuardInvariant, PTL

=============================================================================
