----------------------- MODULE RegistrationRegistries -----------------------
(***************************************************************************)
(* What the steps do to the registries: the entry of a call under way is   *)
(* the last one and goes when the call fails; the entries a client was     *)
(* answered OK for stay where they are, and so does the entry of an open   *)
(* iterator.                                                               *)
(***************************************************************************)
EXTENDS RegistrationSteps, FiniteSetTheorems

-----------------------------------------------------------------------------
(* What a step does to the registries *)

\* What a step can do to the registry and the call of a handle.
LEMMA Kinds ==
  ASSUME RegType, Next
  PROVE  \E h \in Handles :
            \/ Refuses(h)
            \/ \E q \in Requests : Begins(h, q)
            \/ GivesUp(h)
            \/ Completes(h)
            \/ \E pc, d, n : GoesOn(h, pc, d, n)
            \/ Restart(h)
            \/ SqlRDBReadMany(h) \/ SqlRDBStmtFree(h)
            \/ SqlRDBWrite(h)
<1>1. PICK h \in Handles : Register(h) \/ SqlRDBWrite(h) \/ SqlRDBReadMany(h)
                             \/ SqlRDBStmtFree(h) \/ Restart(h)
  BY Zenon DEF Next
<1> DEFINE P == \E pc, d, n : GoesOn(h, pc, d, n)
<1>2. ASSUME NEW pc, NEW d, NEW n, GoesOn(h, pc, d, n)
      PROVE  P
  BY Zenon, <1>2
<1> HIDE DEF P
<1>3. CASE CreateTable(h)
  BY Zenon, <1>2, <1>3, CreateEffect DEF P
<1>4. CASE \/ ReadTableInfo(h) \/ ReadKeys(h) \/ ReadUniques(h)
           \/ ReadIndexList(h) \/ ReadIndexInfo(h)
  BY Zenon, <1>2, <1>4, ReadEffect DEF P
<1>5. CASE Validate(h)
  BY Zenon, <1>2, <1>5, ValidateEffect DEF P
<1>6. CASE AlterAdd(h)
  <2>1. Adds(h) => P
    BY Zenon, <1>2 DEF Adds
  <2>2. QED
    BY Zenon, <1>6, <2>1, AlterEffect DEF P
<1>7. QED
  BY Zenon, <1>1, <1>3, <1>4, <1>5, <1>6, RegisterStructEffect, RevalidateEffect DEF Register

\* Every step leaves the entry of a call under way at the end of its registry, and the
\* names of a registry distinct.
LEMMA PendingStep ==
  ASSUME RegType, PendingInv, Next
  PROVE  PendingInv'
<1>1. PICK h \in Handles :
         \/ Refuses(h) \/ (\E q \in Requests : Begins(h, q)) \/ GivesUp(h) \/ Completes(h)
         \/ (\E pc, d, n : GoesOn(h, pc, d, n)) \/ Restart(h)
         \/ SqlRDBReadMany(h) \/ SqlRDBStmtFree(h) \/ SqlRDBWrite(h)
  BY Zenon, Kinds
<1> DEFINE Pending(k) ==
      /\ DistinctNames(reg[k].entries)
      /\ frame[k] # Idle =>
           /\ reg[k].entries # << >>
           /\ reg[k].entries[Len(reg[k].entries)] = Schema(frame[k].req.name, frame[k].req.cols)
           /\ frame[k].req.cols # << >> /\ DistinctNames(frame[k].req.cols)
<1>2. \A k \in Handles : Pending(k)
  BY Zenon DEF PendingInv
<1>3. SUFFICES \A k \in Handles : Pending(k)'
  BY Zenon DEF PendingInv
<1>4. ASSUME NEW k \in Handles, reg'[k].entries = reg[k].entries, frame'[k] = frame[k]
      PROVE  Pending(k)'
  BY Zenon, <1>2, <1>4
<1> DEFINE e == reg[h].entries
<1>5. e \in Seq(Schemas) /\ Len(e) \in Nat /\ DOMAIN e = 1..Len(e)
  BY DEF RegType, Registries
<1>6. DistinctNames(e)
  BY Zenon, <1>2
<1>7. CASE Refuses(h)
  BY Zenon, <1>4, <1>7 DEF Refuses
<1>8. ASSUME NEW q \in Requests, Begins(h, q)
      PROVE  \A k \in Handles : Pending(k)'
  <2> DEFINE s == Schema(q.name, q.cols)
             n == Append(e, s)
  <2>1. s \in Schemas /\ s.name = q.name
    BY Zenon DEF Schemas, Schema
  <2>2. /\ n \in Seq(Schemas) /\ Len(n) = Len(e) + 1 /\ DOMAIN n = 1..(Len(e) + 1)
        /\ n # << >> /\ n[Len(n)] = s /\ \A i \in 1..Len(e) : n[i] = e[i]
    <3> HIDE DEF e, s
    <3>1. /\ n \in Seq(Schemas) /\ Len(n) = Len(e) + 1 /\ DOMAIN n = 1..(Len(e) + 1)
          /\ n[Len(e) + 1] = s /\ \A i \in 1..Len(e) : n[i] = e[i]
      BY <1>5, <2>1
    <3> HIDE DEF n
    <3>2. QED
      BY <1>5, <3>1
  <2>3. reg'[h].entries = n /\ frame'[h].req = q /\ q.cols # << >> /\ DistinctNames(q.cols)
    BY Zenon, <1>8 DEF Begins
  <2>4. \A i \in DOMAIN e : e[i].name # s.name
    BY Zenon, <1>8, <2>1 DEF Begins, Names
  <2> HIDE DEF e, s, n
  <2>5. DistinctNames(n)
    BY <1>5, <1>6, <2>2, <2>4 DEF DistinctNames
  <2>6. Pending(h)'
    BY Zenon, <2>2, <2>3, <2>5 DEF s
  <2>7. \A k \in Handles \ {h} : reg'[k].entries = reg[k].entries /\ frame'[k] = frame[k]
    BY Zenon, <1>8 DEF Begins
  <2>8. QED
    BY Zenon, <1>4, <2>6, <2>7
<1>9. CASE GivesUp(h)
  <2> DEFINE n == SubSeq(e, 1, Len(e) - 1)
  <2>1. /\ reg'[h].entries = n /\ frame'[h] = Idle
        /\ \A k \in Handles \ {h} : reg'[k].entries = reg[k].entries /\ frame'[k] = frame[k]
    BY Zenon, <1>9, GivesUpEffect
  <2>2. Len(e) # 0
    BY <1>2, <1>5, <1>9, IdleOrFrame DEF GivesUp
  <2>3. DOMAIN n = 1..(Len(e) - 1) /\ \A i \in 1..(Len(e) - 1) : n[i] = e[i]
    BY <1>5, <2>2
  <2> HIDE DEF e, n
  <2>4. DistinctNames(n)
    BY <1>5, <1>6, <2>2, <2>3 DEF DistinctNames
  <2>5. Pending(h)'
    BY Zenon, <2>1, <2>4
  <2>6. QED
    BY Zenon, <1>4, <2>1, <2>5
<1>10. CASE Completes(h)
  <2>1. /\ reg' = reg /\ frame'[h] = Idle
        /\ \A k \in Handles \ {h} : frame'[k] = frame[k]
    BY Zenon, <1>10, CompletesEffect
  <2>2. Pending(h)'
    BY Zenon, <1>6, <2>1
  <2>3. QED
    BY Zenon, <1>4, <2>1, <2>2
<1>11. ASSUME NEW pc, NEW d, NEW n, GoesOn(h, pc, d, n)
       PROVE  \A k \in Handles : Pending(k)'
  <2>1. /\ reg' = reg /\ frame[h] # Idle /\ frame'[h].req = frame[h].req
        /\ \A k \in Handles \ {h} : frame'[k] = frame[k]
    BY Zenon, <1>11, IdleOrFrame DEF GoesOn
  <2>2. Pending(h)'
    BY Zenon, <1>2, <2>1
  <2>3. QED
    BY Zenon, <1>4, <2>1, <2>2
<1>12. CASE Restart(h)
  <2>1. /\ reg'[h].entries = << >> /\ frame'[h] = Idle
        /\ \A k \in Handles \ {h} : reg'[k].entries = reg[k].entries /\ frame'[k] = frame[k]
    BY Zenon, <1>12, RestartEffect
  <2>2. Pending(h)'
    BY <2>1 DEF DistinctNames
  <2>3. QED
    BY Zenon, <1>4, <2>1, <2>2
<1>13. CASE SqlRDBReadMany(h) \/ SqlRDBStmtFree(h) \/ SqlRDBWrite(h)
  BY Zenon, <1>4, <1>13 DEF SqlRDBReadMany, SqlRDBStmtFree, SqlRDBWrite
<1>14. QED
  BY Zenon, <1>1, <1>7, <1>8, <1>9, <1>10, <1>11, <1>12, <1>13

\* The settled entries of handle k stay, get one more when a registration is answered
\* with OK, and go when the handle is closed.
Kept(k) ==
  /\ Settled(k)' = Settled(k) /\ answered'[k] = answered[k]
  /\ \A i \in 1..Settled(k) : reg'[k].entries[i] = reg[k].entries[i]

Added(k) ==
  /\ Completes(k) /\ reg' = reg
  /\ Settled(k)' = Settled(k) + 1
  /\ reg[k].entries[Settled(k) + 1] = Schema(frame[k].req.name, frame[k].req.cols)
  /\ answered'[k] = answered[k] \cup {frame[k].req}

Emptied(k) == Settled(k)' = 0 /\ answered'[k] = {} /\ iters'[k] = {}

\* Every step keeps the settled entries of a handle, adds one, or empties them.
LEMMA SettledStep ==
  ASSUME RegType, ItersType, PendingInv, RegType', PendingInv', Next, NEW k \in Handles
  PROVE  Kept(k) \/ Added(k) \/ Emptied(k)
<1>1. PICK h \in Handles :
         \/ Refuses(h) \/ (\E q \in Requests : Begins(h, q)) \/ GivesUp(h) \/ Completes(h)
         \/ (\E pc, d, n : GoesOn(h, pc, d, n)) \/ Restart(h)
         \/ SqlRDBReadMany(h) \/ SqlRDBStmtFree(h) \/ SqlRDBWrite(h)
  BY Zenon, Kinds
<1>2. ASSUME reg'[k].entries = reg[k].entries, frame'[k] = frame[k], answered'[k] = answered[k]
      PROVE  Kept(k)
  BY Zenon, <1>2 DEF Kept, Settled
<1> DEFINE e == reg[k].entries
<1>3. /\ e \in Seq(Schemas) /\ Len(e) \in Nat
      /\ frame[k] # Idle => Settled(k) = Len(e) - 1 /\ Len(e) # 0
      /\ frame[k] = Idle => Settled(k) = Len(e)
  BY SettledType
<1>4. CASE Refuses(h)
  BY Zenon, <1>2, <1>4 DEF Refuses
<1>5. ASSUME NEW q \in Requests, Begins(h, q)
      PROVE  Kept(k)
  <2>1. CASE k # h
    BY Zenon, <1>2, <1>5, <2>1 DEF Begins
  <2>2. CASE k = h
    <3> DEFINE s == Schema(q.name, q.cols)
    <3>1. s \in Schemas
      BY Zenon DEF Schemas
    <3>2. /\ frame[k] = Idle /\ frame'[k] # Idle /\ answered'[k] = answered[k]
          /\ reg'[k].entries = Append(e, s)
      BY Zenon, <1>5, <2>2, IdleOrFrame DEF Begins
    <3>3. Len(Append(e, s)) = Len(e) + 1 /\ \A i \in 1..Len(e) : Append(e, s)[i] = e[i]
      BY <1>3, <3>1
    <3> HIDE DEF s, e
    <3>4. Settled(k)' = Len(e)
      BY <1>3, <3>2, <3>3 DEF Settled
    <3>5. \A i \in 1..Len(e) : reg'[k].entries[i] = e[i]
      BY Zenon, <3>2, <3>3
    <3>6. QED
      BY Zenon, <1>3, <3>2, <3>4, <3>5 DEF Kept, e
  <2>3. QED
    BY Zenon, <2>1, <2>2
<1>6. CASE GivesUp(h)
  <2>1. answered' = answered
    BY Zenon, <1>6, GivesUpEffect
  <2>2. CASE k # h
    BY Zenon, <1>2, <1>6, <2>1, <2>2, GivesUpEffect
  <2>3. CASE k = h
    <3> DEFINE n == SubSeq(e, 1, Len(e) - 1)
    <3>1. frame[k] # Idle /\ frame'[k] = Idle /\ reg'[k].entries = n
      BY Zenon, <1>6, <2>3, GivesUpEffect, IdleOrFrame DEF GivesUp
    <3>2. Len(n) = Len(e) - 1 /\ \A i \in 1..(Len(e) - 1) : n[i] = e[i]
      BY <1>3, <3>1
    <3> HIDE DEF e, n
    <3>3. Settled(k)' = Len(e) - 1
      BY Zenon, <1>3, <3>1, <3>2 DEF Settled
    <3>4. \A i \in 1..(Len(e) - 1) : reg'[k].entries[i] = e[i]
      BY Zenon, <3>1, <3>2
    <3>5. QED
      BY SMTT(20), <1>3, <2>1, <3>1, <3>3, <3>4 DEF Kept, e
  <2>4. QED
    BY Zenon, <2>2, <2>3
<1>7. CASE Completes(h)
  <2>1. CASE k # h
    BY Zenon, <1>2, <1>7, <2>1, CompletesEffect
  <2>2. CASE k = h
    <3>1. /\ frame[k] # Idle /\ frame'[k] = Idle /\ reg' = reg
          /\ answered'[k] = answered[k] \cup {frame[k].req}
      BY Zenon, <1>7, <2>2, CompletesEffect, IdleOrFrame DEF Completes
    <3>2. Settled(k)' = Len(e)
      BY Zenon, <3>1 DEF Settled
    <3>3. e[Len(e)] = Schema(frame[k].req.name, frame[k].req.cols)
      BY Zenon, <3>1 DEF PendingInv
    <3>4. Settled(k) + 1 = Len(e)
      BY <1>3, <3>1
    <3>5. QED
      BY SMTT(20), <1>7, <2>2, <3>1, <3>2, <3>3, <3>4 DEF Added
  <2>3. QED
    BY Zenon, <2>1, <2>2
<1>8. ASSUME NEW pc, NEW d, NEW n, GoesOn(h, pc, d, n)
      PROVE  Kept(k)
  <2>1. CASE k # h
    BY Zenon, <1>2, <1>8, <2>1 DEF GoesOn
  <2>2. CASE k = h
    <3>1. reg' = reg /\ answered' = answered /\ frame[k] # Idle /\ frame'[k] # Idle
      BY SMTT(20), <1>8, <2>2, IdleOrFrame DEF GoesOn
    <3>2. QED
      BY Zenon, <3>1 DEF Kept, Settled
  <2>3. QED
    BY Zenon, <2>1, <2>2
<1>9. CASE Restart(h)
  <2>1. CASE k # h
    BY Zenon, <1>2, <1>9, <2>1, RestartEffect
  <2>2. CASE k = h
    <3>1. reg'[k].entries = << >> /\ frame'[k] = Idle /\ answered'[k] = {}
      BY Zenon, <1>9, <2>2, RestartEffect
    <3>2. iters'[k] = {}
      BY Zenon, <1>9, <2>2 DEF Restart, ItersType
    <3>3. QED
      BY Zenon, <3>1, <3>2 DEF Emptied, Settled
  <2>3. QED
    BY Zenon, <2>1, <2>2
<1>10. CASE SqlRDBReadMany(h) \/ SqlRDBStmtFree(h) \/ SqlRDBWrite(h)
  BY Zenon, <1>2, <1>10 DEF SqlRDBReadMany, SqlRDBStmtFree, SqlRDBWrite
<1>11. QED
  BY Zenon, <1>1, <1>4, <1>5, <1>6, <1>7, <1>8, <1>9, <1>10

\* Every step leaves the settled entries those of the requests answered with OK.
LEMMA KeepStep ==
  ASSUME RegType, ItersType, PendingInv, KeepInv, RegType', PendingInv', Next
  PROVE  KeepInv'
<1> DEFINE E(k) == {reg[k].entries[i] : i \in 1..Settled(k)}
           A(k) == {Schema(q.name, q.cols) : q \in answered[k]}
<1>1. \A k \in Handles : /\ E(k) = A(k) /\ IsFiniteSet(answered[k])
                         /\ Cardinality(answered[k]) = Settled(k)
  BY Zenon DEF KeepInv
<1>2. SUFFICES ASSUME NEW k \in Handles
               PROVE  /\ E(k)' = A(k)' /\ IsFiniteSet(answered'[k])
                      /\ Cardinality(answered'[k]) = Settled(k)'
  BY Zenon DEF KeepInv
<1>3. Settled(k) \in Nat
  BY Zenon, SettledType
<1>4. CASE Kept(k)
  <2>1. E(k)' = E(k) /\ A(k)' = A(k)
    BY Zenon, <1>4 DEF Kept
  <2> HIDE DEF E, A
  <2>2. QED
    BY Zenon, <1>1, <1>4, <2>1 DEF Kept
<1>5. CASE Added(k)
  <2> DEFINE q == frame[k].req
             s == Schema(q.name, q.cols)
  <2>1. E(k)' = E(k) \cup {s}
    BY <1>3, <1>5 DEF Added
  <2>2. A(k)' = A(k) \cup {s}
    BY Zenon, <1>5 DEF Added
  <2>3. q \notin answered[k]
    <3>1. SUFFICES ASSUME q \in answered[k] PROVE FALSE
      OBVIOUS
    <3>2. PICK i \in 1..Settled(k) : reg[k].entries[i] = s
      BY Zenon, <1>1, <3>1
    <3>3. reg[k].entries[Settled(k) + 1] = s /\ Settled(k) + 1 \in DOMAIN reg[k].entries
      <4>1. frame[k] # Idle
        BY Zenon, <1>5, IdleOrFrame DEF Added, Completes
      <4>2. QED
        BY SMTT(20), <1>5, <4>1, SettledType DEF Added
    <3>4. i \in DOMAIN reg[k].entries
      BY SettledType
    <3>5. i = Settled(k) + 1
      BY Zenon, <3>2, <3>3, <3>4 DEF PendingInv, DistinctNames
    <3>6. QED
      BY <1>3, <3>5
  <2>4. answered'[k] = answered[k] \cup {q} /\ Settled(k)' = Settled(k) + 1
    BY Zenon, <1>5 DEF Added
  <2>5. /\ IsFiniteSet(answered[k] \cup {q})
        /\ Cardinality(answered[k] \cup {q}) = Cardinality(answered[k]) + 1
    BY Zenon, <1>1, <2>3, FS_AddElement
  <2> HIDE DEF E, A, q, s
  <2>6. QED
    BY SMTT(20), <1>1, <2>1, <2>2, <2>4, <2>5
<1>6. CASE Emptied(k)
  <2>1. E(k)' = {} /\ A(k)' = {}
    BY <1>6 DEF Emptied
  <2> HIDE DEF E, A
  <2>2. QED
    BY Zenon, <1>6, <2>1, FS_EmptySet DEF Emptied
<1>7. QED
  BY Zenon, <1>4, <1>5, <1>6, SettledStep

-----------------------------------------------------------------------------
(* Iterators *)

\* An iterator is opened on an entry the handle has between two calls.
LEMMA IteratorOpened ==
  ASSUME RegType, ItersType, Next, NEW k \in Handles, NEW it \in iters'[k]
  PROVE  \/ it \in iters[k]
         \/ /\ frame[k] = Idle /\ UNCHANGED <<reg, frame>>
            /\ it.idx \in DOMAIN reg[k].entries /\ reg[k].entries[it.idx].name = it.name
<1>1. PICK h \in Handles :
         \/ Refuses(h) \/ (\E q \in Requests : Begins(h, q)) \/ GivesUp(h) \/ Completes(h)
         \/ (\E pc, d, n : GoesOn(h, pc, d, n)) \/ Restart(h)
         \/ SqlRDBReadMany(h) \/ SqlRDBStmtFree(h) \/ SqlRDBWrite(h)
  BY Zenon, Kinds
<1>2. CASE UNCHANGED iters
  BY Zenon, <1>2
<1>3. CASE Restart(h)
  BY Zenon, <1>3 DEF Restart, ItersType
<1>4. CASE SqlRDBStmtFree(h)
  BY Zenon, <1>4 DEF SqlRDBStmtFree, ItersType
<1>5. CASE SqlRDBReadMany(h)
  <2>1. PICK name \in Names(reg[h]), i \in DOMAIN reg[h].entries :
          /\ reg[h].entries[i].name = name
          /\ iters' = [iters EXCEPT ![h] = @ \cup {[idx |-> i, name |-> name]}]
    BY Zenon, <1>5 DEF SqlRDBReadMany, schema_lookup
  <2>2. frame[h] = Idle /\ UNCHANGED <<reg, frame>>
    BY Zenon, <1>5, IdleOrFrame DEF SqlRDBReadMany
  <2>3. QED
    BY <2>1, <2>2 DEF ItersType
<1>6. QED
  BY Zenon, <1>1, <1>2, <1>3, <1>4, <1>5 DEF Refuses, Begins, GivesUp, Completes, GoesOn, SqlRDBWrite, At

\* At most MaxIters iterators are open.
LEMMA ItersTypeStep ==
  ASSUME RegType, ItersType, Next
  PROVE  ItersType'
<1>1. PICK h \in Handles :
         \/ Refuses(h) \/ (\E q \in Requests : Begins(h, q)) \/ GivesUp(h) \/ Completes(h)
         \/ (\E pc, d, n : GoesOn(h, pc, d, n)) \/ Restart(h)
         \/ SqlRDBReadMany(h) \/ SqlRDBStmtFree(h) \/ SqlRDBWrite(h)
  BY Zenon, Kinds
<1>2. /\ DOMAIN iters = Handles
      /\ \A k \in Handles : /\ IsFiniteSet(iters[k]) /\ Cardinality(iters[k]) <= MaxIters
                            /\ Cardinality(iters[k]) \in Nat
  BY Zenon, FS_CardinalityType DEF ItersType
<1>3. ASSUME NEW S, IsFiniteSet(S), Cardinality(S) <= MaxIters,
             iters' = [iters EXCEPT ![h] = S]
      PROVE  ItersType'
  BY Zenon, <1>2, <1>3 DEF ItersType
<1>4. CASE UNCHANGED iters
  BY Zenon, <1>2, <1>4 DEF ItersType
<1>5. CASE Restart(h)
  <2>1. IsFiniteSet({}) /\ Cardinality({}) <= MaxIters
    BY FS_EmptySet, RequestsType
  <2>2. QED
    BY Zenon, <1>3, <1>5, <2>1 DEF Restart
<1>6. CASE SqlRDBStmtFree(h)
  <2>1. PICK it \in iters[h] : iters' = [iters EXCEPT ![h] = iters[h] \ {it}]
    BY Zenon, <1>2, <1>6 DEF SqlRDBStmtFree
  <2>2. IsFiniteSet(iters[h] \ {it}) /\ Cardinality(iters[h] \ {it}) = Cardinality(iters[h]) - 1
    BY Zenon, <1>2, FS_RemoveElement
  <2>3. Cardinality(iters[h] \ {it}) <= MaxIters
    BY <1>2, <2>2, RequestsType
  <2>4. QED
    BY Zenon, <1>3, <2>1, <2>2, <2>3
<1>7. CASE SqlRDBReadMany(h)
  <2>1. PICK x : iters' = [iters EXCEPT ![h] = iters[h] \cup {x}]
    BY Zenon, <1>2, <1>7 DEF SqlRDBReadMany
  <2>2. /\ IsFiniteSet(iters[h] \cup {x})
        /\ Cardinality(iters[h] \cup {x}) <= Cardinality(iters[h]) + 1
    <3>1. CASE x \in iters[h]
      <4>1. iters[h] \cup {x} = iters[h]
        BY Zenon, <3>1
      <4>2. Cardinality(iters[h]) <= Cardinality(iters[h]) + 1
        BY <1>2
      <4>3. QED
        BY Zenon, <1>2, <4>1, <4>2, Zenon
    <3>2. CASE x \notin iters[h]
      <4>1. /\ IsFiniteSet(iters[h] \cup {x})
            /\ Cardinality(iters[h] \cup {x}) = Cardinality(iters[h]) + 1
        BY Zenon, <1>2, <3>2, FS_AddElement
      <4>2. QED
        BY <1>2, <4>1
    <3>3. QED
      BY Zenon, <3>1, <3>2
  <2>3. Cardinality(iters[h]) < MaxIters /\ Cardinality(iters[h] \cup {x}) \in Nat
    BY Zenon, <1>7, <2>2, FS_CardinalityType DEF SqlRDBReadMany
  <2>4. Cardinality(iters[h] \cup {x}) <= MaxIters
    BY <1>2, <2>2, <2>3, RequestsType
  <2>5. QED
    BY Zenon, <1>3, <2>1, <2>2, <2>4
<1>8. QED
  BY Zenon, <1>1, <1>4, <1>5, <1>6, <1>7 DEF Refuses, Begins, GivesUp, Completes, GoesOn, SqlRDBWrite, At

\* Every step leaves the entry of an open iterator in the registry.
LEMMA IterStep ==
  ASSUME RegType, ItersType, PendingInv, IterInv, RegType', PendingInv', Next
  PROVE  IterInv'
<1>1. SUFFICES ASSUME NEW k \in Handles, NEW it \in iters'[k]
               PROVE  it.idx \in 1..Settled(k)' /\ reg'[k].entries[it.idx].name = it.name
  BY Zenon DEF IterInv
<1>2. Settled(k) \in Nat
  BY Zenon, SettledType
<1>3. CASE it \in iters[k]
  <2>1. it.idx \in 1..Settled(k) /\ reg[k].entries[it.idx].name = it.name
    BY Zenon, <1>3 DEF IterInv
  <2>2. ~Emptied(k)
    BY Zenon DEF Emptied
  <2>3. QED
    BY SMTT(20), <1>2, <2>1, <2>2, SettledStep DEF Kept, Added
<1>4. CASE /\ frame[k] = Idle /\ UNCHANGED <<reg, frame>>
           /\ it.idx \in DOMAIN reg[k].entries /\ reg[k].entries[it.idx].name = it.name
  <2>1. DOMAIN reg[k].entries = 1..Settled(k)
    BY Zenon, <1>4, SettledType
  <2>2. Settled(k)' = Settled(k)
    BY Zenon, <1>4 DEF Settled
  <2>3. QED
    BY Zenon, <1>4, <2>1, <2>2
<1>5. QED
  BY Zenon, <1>3, <1>4, IteratorOpened

=============================================================================
