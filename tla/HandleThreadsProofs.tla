------------------------ MODULE HandleThreadsProofs -------------------------
(***************************************************************************)
(* Proofs about HandleThreads, for any number of threads, addresses and    *)
(* calls, and for the freedoms of the client that each theorem allows.     *)
(***************************************************************************)
EXTENDS HandleThreads, FiniteSetTheorems, TLAPS

-----------------------------------------------------------------------------
(* The type invariant *)

\* A handle with one field changed is a handle.
LEMMA HandleUpdate ==
  ASSUME NEW r \in Handles
  PROVE  /\ \A b \in BOOLEAN : /\ [r EXCEPT !.alloc = b] \in Handles
                               /\ [r EXCEPT !.magic = b] \in Handles
                               /\ [r EXCEPT !.threadsafe = b] \in Handles
         /\ \A t \in Threads \cup {NoThread} : [r EXCEPT !.owner = t] \in Handles
BY Zenon DEF Handles

\* Goto changes the program counter of one thread.
LEMMA GotoEffect ==
  ASSUME TypeOK, NEW t \in Threads, NEW pc \in PCs, Goto(t, pc)
  PROVE  /\ \A u \in Threads : th'[u].call = th[u].call /\ th'[u].h = th[u].h
         /\ \A u \in Threads \ {t} : th'[u].pc = th[u].pc
         /\ th'[t].pc = pc
BY Zenon DEF TypeOK, Goto

\* Return makes one thread idle.
LEMMA ReturnEffect ==
  ASSUME TypeOK, NEW t \in Threads, Return(t)
  PROVE  /\ \A u \in Threads \ {t} : th'[u] = th[u]
         /\ th'[t].pc = "idle"
BY Zenon DEF TypeOK, Return, Idle

\* The body of a call changes the switch at most, and only in SetConfig.
LEMMA BodyEffect ==
  ASSUME TypeOK, NEW t \in Threads, Body(t)
  PROVE  /\ mem' \in [Addrs -> Handles]
         /\ \A a \in Addrs : /\ mem'[a].alloc = mem[a].alloc
                             /\ mem'[a].magic = mem[a].magic
                             /\ mem'[a].owner = mem[a].owner
                             /\ a # th[t].h \/ th[t].call \notin {"Off", "On"} => mem'[a] = mem[a]
<1>1. PICK on \in BOOLEAN :
        \/ UNCHANGED mem
        \/ th[t].call \in {"Off", "On"} /\ mem' = [mem EXCEPT ![th[t].h].threadsafe = on]
  BY Zenon DEF Body
<1> DEFINE old == mem[th[t].h]
           new == [old EXCEPT !.threadsafe = on]
<1>2. th[t].h \in Addrs /\ old \in Handles
  BY Zenon DEF Body, TypeOK
<1>3. /\ new \in Handles
      /\ new.alloc = old.alloc /\ new.magic = old.magic /\ new.owner = old.owner
  BY Zenon, <1>2, HandleUpdate DEF Handles
<1>4. UNCHANGED mem \/ (th[t].call \in {"Off", "On"} /\ mem' = [mem EXCEPT ![th[t].h] = new])
  BY Zenon, <1>1
<1> HIDE DEF new
<1>5. QED
  BY Zenon, <1>2, <1>3, <1>4 DEF TypeOK

\* Unlocking changes at most who holds the mutex, and t no longer does.
LEMMA UnlockEffect ==
  ASSUME TypeOK, NEW t \in Threads, MutexUnlock(t)
  PROVE  /\ mem' \in [Addrs -> Handles]
         /\ \A a \in Addrs : /\ mem'[a].alloc = mem[a].alloc
                             /\ mem'[a].magic = mem[a].magic
                             /\ mem'[a].threadsafe = mem[a].threadsafe
                             /\ mem'[a].owner \in {NoThread, mem[a].owner}
                             /\ a # th[t].h => mem'[a] = mem[a]
         /\ mem[th[t].h].threadsafe => mem'[th[t].h].owner # t
<1> DEFINE old == mem[th[t].h]
           new(o) == [old EXCEPT !.owner = o]
<1>1. th[t].h \in Addrs /\ old \in Handles
  BY Zenon DEF MutexUnlock, TypeOK
<1>2. CASE UNCHANGED mem /\ ~mem[th[t].h].threadsafe
  BY Zenon, <1>1, <1>2 DEF TypeOK
<1>3. CASE \E o \in AfterUnlock(t) : mem' = [mem EXCEPT ![th[t].h].owner = o]
  <2>1. PICK o \in AfterUnlock(t) : mem' = [mem EXCEPT ![th[t].h] = new(o)]
    BY Zenon, <1>3
  <2>2. o \in {NoThread, old.owner} /\ o # t /\ o \in Threads \cup {NoThread}
    BY Zenon, <1>1, ThreadsAssumption DEF AfterUnlock, The, Handles
  <2>3. /\ new(o) \in Handles /\ new(o).owner = o
        /\ new(o).alloc = old.alloc /\ new(o).magic = old.magic /\ new(o).threadsafe = old.threadsafe
    BY Zenon, <1>1, <2>2 DEF Handles
  <2> HIDE DEF new
  <2>4. QED
    BY Zenon, <1>1, <2>1, <2>2, <2>3 DEF TypeOK
<1>4. QED
  BY Zenon, <1>2, <1>3 DEF MutexUnlock, The

\* Every step leaves well-typed state.
LEMMA TypeStep ==
  ASSUME TypeOK, [Next]_vars
  PROVE  TypeOK'
<1> USE ThreadsAssumption DEF TypeOK
<1>1. CASE UNCHANGED vars
  BY Zenon, <1>1 DEF vars
<1>2. ASSUME NEW t \in Threads, Start(t)
      PROVE  TypeOK'
  BY <1>2 DEF Start, FirstStep, PCs
<1>3. ASSUME NEW t \in Threads, SqlRDBInit(t)
      PROVE  TypeOK'
  BY <1>3 DEF SqlRDBInit, Handles
<1>4. ASSUME NEW t \in Threads, CheckValid(t)
      PROVE  TypeOK'
  BY <1>4 DEF CheckValid, Goto, Return, Idle, PCs, Calls
<1>5. ASSUME NEW t \in Threads, Peek(t)
      PROVE  TypeOK'
  BY Zenon, <1>5 DEF Peek, Return, Idle, PCs, Calls
<1>6. ASSUME NEW t \in Threads, MutexLock(t)
      PROVE  TypeOK'
  BY <1>6 DEF MutexLock, Goto, PCs
<1>7. ASSUME NEW t \in Threads, Acquire(t)
      PROVE  TypeOK'
  BY <1>7 DEF Acquire, Goto, PCs, Handles
<1>8. ASSUME NEW t \in Threads, Body(t)
      PROVE  TypeOK'
  <2>1. mem' \in [Addrs -> Handles]
    BY Zenon, <1>8, BodyEffect
  <2>2. th[t].pc = "body" /\ Goto(t, "unlock") /\ UNCHANGED <<live, calls, given, held, inits, torn>>
    BY Zenon, <1>8 DEF Body
  <2>3. QED
    BY <2>1, <2>2 DEF Goto, PCs
<1>9. ASSUME NEW t \in Threads, MutexUnlock(t)
      PROVE  TypeOK'
  <2>1. mem' \in [Addrs -> Handles]
    BY Zenon, <1>9, UnlockEffect
  <2>2. Return(t) /\ UNCHANGED <<live, calls, given, held, inits, torn>>
    BY Zenon, <1>9 DEF MutexUnlock
  <2>3. QED
    BY Zenon, <2>1, <2>2 DEF Return, Idle, PCs, Calls
<1>10. ASSUME NEW t \in Threads, CloseContains(t)
      PROVE  TypeOK'
  <2>1. th' = [th EXCEPT ![t].pc = "magic"] \/ th' = [th EXCEPT ![t] = Idle]
    BY Zenon, <1>10 DEF CloseContains, Goto, Return
  <2>2. QED
    BY SMTT(20), <1>10, <2>1 DEF CloseContains, Idle, PCs, Calls
<1>11. ASSUME NEW t \in Threads, CloseMagic(t)
      PROVE  TypeOK'
  BY <1>11 DEF CloseMagic, Goto, Return, Idle, PCs, Calls
<1>12. ASSUME NEW t \in Threads, CloseRemove(t)
      PROVE  TypeOK'
  BY <1>12 DEF CloseRemove, Goto, PCs
<1>13. ASSUME NEW t \in Threads, CloseDead(t)
      PROVE  TypeOK'
  <2>1. mem' \in [Addrs -> Handles]
    BY Zenon, <1>13, HandleUpdate DEF CloseDead
  <2>2. QED
    BY <1>13, <2>1 DEF CloseDead, Goto, PCs
<1>14. ASSUME NEW t \in Threads, CloseFree(t)
      PROVE  TypeOK'
  <2>1. mem' \in [Addrs -> Handles]
    BY Zenon, <1>14, HandleUpdate DEF CloseFree
  <2>2. QED
    BY Zenon, <1>14, <2>1 DEF CloseFree, Return, Idle, PCs, Calls
<1>15. QED
  BY Zenon, <1>1, <1>2, <1>3, <1>4, <1>5, <1>6, <1>7, <1>8, <1>9, <1>10, <1>11, <1>12, <1>13, <1>14
     DEF Next, InCall

\* TypeOK: calls and handles are what the model says they are, whatever the client does.
THEOREM TypeCorrect == Spec => []TypeOK
<1>1. Init => TypeOK
  BY ThreadsAssumption DEF Init, TypeOK, Handles, Idle, PCs, Calls
<1>2. QED
  BY <1>1, TypeStep, PTL DEF Spec

-----------------------------------------------------------------------------
(* The registry of live handles.  A client that does not overlap Close with  *)
(* other calls on the handle has at most one Close at work on it.            *)

Closing == {"contains", "magic", "remove", "dead", "free"}

CloseAlone ==
  \A t, u \in Threads :
     t # u /\ th[t].pc # "idle" /\ th[u].pc # "idle" /\ th[t].call = "Close" => th[t].h # th[u].h

\* What Close relies on between its steps: a handle that passed live_contains stays
\* in the registry until this Close removes it, and stays allocated until it is freed.
LiveInv ==
  /\ CloseAlone
  /\ \A t \in Threads :
        /\ th[t].pc \in Closing => th[t].call = "Close"
        /\ th[t].pc \in {"magic", "remove"} => th[t].h \in live
        /\ th[t].pc \in {"dead", "free"} => th[t].h \notin live /\ mem[th[t].h].alloc
  /\ \A a \in live : mem[a].alloc

\* Every step keeps it.
LEMMA LiveStep ==
  ASSUME TypeOK, LiveInv, [Next]_vars, "close" \notin Freedoms
  PROVE  LiveInv'
<1> USE DEF TypeOK, LiveInv, CloseAlone, Closing, Handles
<1>1. CASE UNCHANGED vars
  BY Zenon, <1>1 DEF vars
<1>2. ASSUME NEW t \in Threads, Start(t)
      PROVE  LiveInv'
  BY <1>2 DEF Start, FirstStep, Knows, Permitted, Using, Alone
<1>3. ASSUME NEW t \in Threads, SqlRDBInit(t)
      PROVE  LiveInv'
  BY <1>3 DEF SqlRDBInit
<1>4. ASSUME NEW t \in Threads, CheckValid(t)
      PROVE  LiveInv'
  <2>1. th[t].pc = "valid" /\ mem' = mem /\ live' = live
    BY Zenon, <1>4 DEF CheckValid
  <2>2. Goto(t, "peek") \/ Goto(t, "lock") \/ Return(t)
    BY Zenon, <1>4 DEF CheckValid
  <2>3. QED
    BY SMTT(30), <2>1, <2>2, GotoEffect, ReturnEffect DEF PCs
<1>5. ASSUME NEW t \in Threads, Peek(t)
      PROVE  LiveInv'
  BY Zenon, <1>5 DEF Peek, Return, Idle
<1>6. ASSUME NEW t \in Threads, MutexLock(t)
      PROVE  LiveInv'
  BY <1>6 DEF MutexLock, Goto
<1>7. ASSUME NEW t \in Threads, Acquire(t)
      PROVE  LiveInv'
  BY <1>7 DEF Acquire, Goto
<1>8. ASSUME NEW t \in Threads, Body(t)
      PROVE  LiveInv'
  <2>1. th[t].pc = "body" /\ Goto(t, "unlock") /\ live' = live
    BY Zenon, <1>8 DEF Body
  <2>2. \A a \in Addrs : mem'[a].alloc = mem[a].alloc
    BY Zenon, <1>8, BodyEffect
  <2>3. /\ \A u \in Threads : th'[u].call = th[u].call /\ th'[u].h = th[u].h
        /\ \A u \in Threads \ {t} : th'[u].pc = th[u].pc
        /\ th'[t].pc = "unlock"
    <3> HIDE DEF TypeOK
    <3>1. QED
      BY Zenon, <2>1, GotoEffect DEF PCs
  <2>4. CloseAlone'
    BY <2>1, <2>3
  <2>5. QED
    BY <2>1, <2>2, <2>3, <2>4
<1>9. ASSUME NEW t \in Threads, MutexUnlock(t)
      PROVE  LiveInv'
  <2>1. th[t].pc = "unlock" /\ Return(t) /\ UNCHANGED <<live, calls, given, held, inits, torn>>
    BY Zenon, <1>9 DEF MutexUnlock
  <2>2. \A a \in Addrs : mem'[a].alloc = mem[a].alloc
    BY Zenon, <1>9, UnlockEffect
  <2>3. (\A u \in Threads \ {t} : th'[u] = th[u]) /\ th'[t].pc = "idle"
    BY Zenon, <2>1, ReturnEffect
  <2>4. CloseAlone'
    BY <2>3
  <2>5. QED
    BY <2>1, <2>2, <2>3, <2>4
<1>10. ASSUME NEW t \in Threads, CloseContains(t)
      PROVE  LiveInv'
  <2>1. th[t].pc = "contains" /\ mem' = mem /\ live' = live
    BY Zenon, <1>10 DEF CloseContains
  <2>2. CASE th[t].h \in live /\ Goto(t, "magic")
    <3>1. CloseAlone'
      BY <2>1, <2>2 DEF Goto
    <3>2. QED
      BY <2>1, <2>2, <3>1 DEF Goto
  <2>3. CASE Return(t)
    BY Zenon, <2>1, <2>3 DEF Return, Idle
  <2>4. QED
    BY Zenon, <1>10, <2>2, <2>3 DEF CloseContains
<1>11. ASSUME NEW t \in Threads, CloseMagic(t)
      PROVE  LiveInv'
  <2>1. th[t].pc = "magic" /\ mem' = mem /\ live' = live
    BY Zenon, <1>11 DEF CloseMagic
  <2>2. Goto(t, "remove") \/ Return(t)
    BY Zenon, <1>11 DEF CloseMagic
  <2>3. QED
    BY SMTT(60), <2>1, <2>2, GotoEffect, ReturnEffect DEF PCs
<1>12. ASSUME NEW t \in Threads, CloseRemove(t)
      PROVE  LiveInv'
  BY <1>12 DEF CloseRemove, Goto
<1>13. ASSUME NEW t \in Threads, CloseDead(t)
      PROVE  LiveInv'
  BY <1>13 DEF CloseDead, Goto
<1>14. ASSUME NEW t \in Threads, CloseFree(t)
      PROVE  LiveInv'
  BY ZenonT(40), <1>14 DEF CloseFree, Return, Idle
<1>15. QED
  BY Zenon, <1>1, <1>2, <1>3, <1>4, <1>5, <1>6, <1>7, <1>8, <1>9, <1>10, <1>11, <1>12, <1>13, <1>14
     DEF Next, InCall

-----------------------------------------------------------------------------
(* TornDownOnce: the count of handles. *)

\* A step changes the number of handles in the registry and the counts together.
LEMMA CountStep ==
  ASSUME TypeOK, LiveInv, TornDownOnce, [Next]_vars
  PROVE  TornDownOnce'
<1> USE DEF TornDownOnce
<1>1. IsFiniteSet(live) /\ Cardinality(live) \in Nat /\ inits \in Nat /\ torn \in Nat
  BY ThreadsAssumption, FS_Subset, FS_CardinalityType DEF TypeOK
<1>2. CASE UNCHANGED <<live, inits, torn>>
  BY Zenon, <1>2
<1>3. ASSUME NEW t \in Threads, SqlRDBInit(t)
      PROVE  TornDownOnce'
  <2>1. PICK a \in Addrs : ~mem[a].alloc /\ live' = live \cup {a}
    BY Zenon, <1>3 DEF SqlRDBInit
  <2>2. a \notin live
    BY Zenon, <2>1 DEF LiveInv
  <2>3. Cardinality(live') = Cardinality(live) + 1
    BY Zenon, <1>1, <2>1, <2>2, FS_AddElement
  <2>4. QED
    <3>1. inits' = inits + 1 /\ torn' = torn
      BY Zenon, <1>3 DEF SqlRDBInit
    <3>2. QED
      BY <1>1, <2>3, <3>1
<1>4. ASSUME NEW t \in Threads, CloseRemove(t)
      PROVE  TornDownOnce'
  <2>1. th[t].h \in live /\ live' = live \ {th[t].h}
    BY Zenon, <1>4 DEF CloseRemove, LiveInv
  <2>2. Cardinality(live') = Cardinality(live) - 1
    BY Zenon, <1>1, <2>1, FS_RemoveElement
  <2>3. QED
    BY <1>1, <1>4, <2>2 DEF CloseRemove
<1>5. QED
  BY Zenon, <1>2, <1>3, <1>4
     DEF Next, InCall, vars, Start, CheckValid, Peek, MutexLock, Acquire, Body, MutexUnlock,
         CloseContains, CloseMagic, CloseDead, CloseFree

\* TornDownOnce: as long as Close does not overlap other calls on its handle, every
\* handle SqlRDBInit returned is torn down at most once, for any number of threads,
\* handles and calls, also when the client uses closed handles or closes them again.
THEOREM HandlesTornDownOnce ==
  ASSUME "close" \notin Freedoms
  PROVE  Spec => []TornDownOnce
<1>1. Init => LiveInv /\ TornDownOnce
  BY FS_EmptySet DEF Init, LiveInv, CloseAlone, Closing, Idle, TornDownOnce
<1>2. TypeOK /\ LiveInv /\ TornDownOnce /\ [Next]_vars => LiveInv' /\ TornDownOnce'
  BY Zenon, LiveStep, CountStep
<1>3. QED
  BY <1>1, <1>2, TypeCorrect, PTL DEF Spec

-----------------------------------------------------------------------------
(* NoUseAfterFree *)

\* A client that drops a pointer when it closes the handle passes on only pointers
\* to allocated handles.
HeldInv ==
  /\ \A a \in held : mem[a].alloc
  /\ NoUseAfterFree

\* Every step keeps it.
LEMMA HeldStep ==
  ASSUME TypeOK, LiveInv, HeldInv, [Next]_vars, Freedoms \subseteq {"config"}
  PROVE  HeldInv'
<1> USE DEF TypeOK, LiveInv, CloseAlone, Closing, Handles, HeldInv, NoUseAfterFree, Touches, The
<1>1. CASE UNCHANGED vars
  BY Zenon, <1>1 DEF vars
<1>2. ASSUME NEW t \in Threads, Start(t)
      PROVE  HeldInv'
  BY <1>2 DEF Start, FirstStep, Knows, Permitted, Using, Alone
<1>3. ASSUME NEW t \in Threads, SqlRDBInit(t)
      PROVE  HeldInv'
  BY <1>3 DEF SqlRDBInit
<1>4. ASSUME NEW t \in Threads, CheckValid(t)
      PROVE  HeldInv'
  <2>1. th[t].pc = "valid" /\ UNCHANGED <<mem, live, held>>
    BY Zenon, <1>4 DEF CheckValid
  <2>2. Goto(t, "peek") \/ Goto(t, "lock") \/ Return(t)
    BY Zenon, <1>4 DEF CheckValid
  <2>3. QED
    BY <2>1, <2>2, GotoEffect, ReturnEffect DEF PCs
<1>5. ASSUME NEW t \in Threads, Peek(t)
      PROVE  HeldInv'
  BY Zenon, <1>5 DEF Peek, Return, Idle
<1>6. ASSUME NEW t \in Threads, MutexLock(t)
      PROVE  HeldInv'
  BY <1>6 DEF MutexLock, Goto
<1>7. ASSUME NEW t \in Threads, Acquire(t)
      PROVE  HeldInv'
  BY <1>7 DEF Acquire, Goto
<1>8. ASSUME NEW t \in Threads, Body(t)
      PROVE  HeldInv'
  <2>1. th[t].pc = "body" /\ Goto(t, "unlock") /\ UNCHANGED <<live, held>>
    BY Zenon, <1>8 DEF Body
  <2>2. \A a \in Addrs : mem'[a].alloc = mem[a].alloc
    BY Zenon, <1>8, BodyEffect
  <2>3. /\ \A u \in Threads : th'[u].call = th[u].call /\ th'[u].h = th[u].h
        /\ \A u \in Threads \ {t} : th'[u].pc = th[u].pc
        /\ th'[t].pc = "unlock"
    BY <2>1 DEF Goto
  <2>4. QED
    BY <2>1, <2>2, <2>3
<1>9. ASSUME NEW t \in Threads, MutexUnlock(t)
      PROVE  HeldInv'
  <2>1. th[t].pc = "unlock" /\ Return(t) /\ UNCHANGED <<live, calls, given, held, inits, torn>>
    BY Zenon, <1>9 DEF MutexUnlock
  <2>2. \A a \in Addrs : mem'[a].alloc = mem[a].alloc
    BY Zenon, <1>9, UnlockEffect
  <2>3. (\A u \in Threads \ {t} : th'[u] = th[u]) /\ th'[t].pc = "idle"
    BY Zenon, <2>1, ReturnEffect
  <2>4. QED
    BY Zenon, <2>1, <2>2, <2>3
<1>10. ASSUME NEW t \in Threads, CloseContains(t)
      PROVE  HeldInv'
  <2>1. th[t].pc = "contains" /\ UNCHANGED <<mem, live, held>>
    BY Zenon, <1>10 DEF CloseContains
  <2>2. (th[t].h \in live /\ Goto(t, "magic")) \/ Return(t)
    BY Zenon, <1>10 DEF CloseContains
  <2>3. QED
    BY <2>1, <2>2, GotoEffect, ReturnEffect DEF PCs
<1>11. ASSUME NEW t \in Threads, CloseMagic(t)
      PROVE  HeldInv'
  BY <1>11 DEF CloseMagic, Goto, Return, Idle
<1>12. ASSUME NEW t \in Threads, CloseRemove(t)
      PROVE  HeldInv'
  BY <1>12 DEF CloseRemove, Goto
<1>13. ASSUME NEW t \in Threads, CloseDead(t)
      PROVE  HeldInv'
  BY SMTT(20), <1>13 DEF CloseDead, Goto
<1>14. ASSUME NEW t \in Threads, CloseFree(t)
      PROVE  HeldInv'
  BY <1>14 DEF CloseFree, Return, Idle
<1>15. QED
  BY Zenon, <1>1, <1>2, <1>3, <1>4, <1>5, <1>6, <1>7, <1>8, <1>9, <1>10, <1>11, <1>12, <1>13, <1>14
     DEF Next, InCall

\* NoUseAfterFree: no call touches the memory of a freed handle when the client
\* closes a handle while nobody uses it, and does not use it afterwards.
THEOREM HandlesUsedWhileAllocated ==
  ASSUME Freedoms \subseteq {"config"}
  PROVE  Spec => []NoUseAfterFree
<1>1. Init => LiveInv /\ HeldInv
  BY DEF Init, LiveInv, CloseAlone, Closing, Idle, HeldInv, NoUseAfterFree, Touches
<1>2. TypeOK /\ LiveInv /\ HeldInv /\ [Next]_vars => LiveInv' /\ HeldInv'
  BY Zenon, LiveStep, HeldStep
<1>3. HeldInv => NoUseAfterFree
  BY Zenon DEF HeldInv
<1>4. QED
  BY <1>1, <1>2, <1>3, TypeCorrect, PTL DEF Spec

-----------------------------------------------------------------------------
(* The handle mutex *)

\* SetConfig has its handle to itself, and when it switches the mutex on nobody
\* else holds it.
SwitchInv ==
  /\ \A t, u \in Threads :
        t # u /\ th[t].pc # "idle" /\ th[u].pc # "idle" /\ th[t].h = th[u].h =>
           th[t].call \notin {"Off", "On"}
  /\ \A t \in Threads :
        th[t].pc # "idle" /\ th[t].call = "On" => mem[th[t].h].owner \in {NoThread, t}

LockInv == SwitchInv /\ LockIsReleased

\* Nothing happens to a mutex while the calls under one stay where they are.
LEMMA LockFrame ==
  ASSUME TypeOK, LockInv, mem' = mem,
         \A u \in Threads :
            \/ th'[u].pc = "idle" /\ th[u].pc \notin {"body", "unlock"}
            \/ /\ th[u].pc # "idle" /\ th'[u].call = th[u].call /\ th'[u].h = th[u].h
               /\ th[u].pc \in {"body", "unlock"} => th'[u].pc = th[u].pc
  PROVE  LockInv'
<1>1. SwitchInv'
  BY ZenonT(40) DEF LockInv, SwitchInv, TypeOK
<1>2. LockIsReleased'
  BY DEF LockInv, LockIsReleased, Using, TypeOK, Handles
<1>3. QED
  BY Zenon, <1>1, <1>2 DEF LockInv

\* Every step keeps it when SetConfig overlaps no call and the thread that switched
\* the mutex off switches it on.
LEMMA LockStep ==
  ASSUME TypeOK, LockInv, [Next]_vars, Freedoms \subseteq {"close", "stale"}
  PROVE  LockInv'
<1> USE ThreadsAssumption DEF TypeOK, Handles
<1>1. CASE UNCHANGED vars
  BY Zenon, <1>1 DEF vars, LockInv, SwitchInv, LockIsReleased, Using
<1>2. ASSUME NEW t \in Threads, Start(t)
      PROVE  LockInv'
  <2>1. PICK call \in Calls, a \in Addrs :
           /\ Permitted(t, call, a)
           /\ th' = [th EXCEPT ![t] = [pc |-> FirstStep(call), call |-> call, h |-> a]]
    BY Zenon, <1>2 DEF Start
  <2>2. /\ mem' = mem /\ th[t].pc = "idle"
        /\ \A u \in Threads \ {t} : th'[u] = th[u]
        /\ th'[t].call = call /\ th'[t].h = a
    BY Zenon, <1>2, <2>1 DEF Start
  <2>3. /\ call \in {"Off", "On"} => \A u \in Threads : th[u].pc # "idle" => th[u].h # a
        /\ \A u \in Threads : th[u].pc # "idle" /\ th[u].h = a => th[u].call \notin {"Off", "On"}
        /\ call = "On" => mem[a].owner \in {NoThread, t}
    BY Zenon, <2>1 DEF Permitted, Using, Alone
  <2>4. SwitchInv'
    BY SMTT(20), <2>2, <2>3 DEF LockInv, SwitchInv
  <2>5. LockIsReleased'
    BY <2>2 DEF LockInv, LockIsReleased, Using
  <2>6. QED
    BY Zenon, <2>4, <2>5 DEF LockInv
<1>3. ASSUME NEW t \in Threads, SqlRDBInit(t)
      PROVE  LockInv'
  <2>1. SwitchInv'
    BY <1>3 DEF SqlRDBInit, LockInv, SwitchInv
  <2>2. LockIsReleased'
    BY <1>3 DEF SqlRDBInit, LockInv, LockIsReleased, Using
  <2>3. QED
    BY Zenon, <2>1, <2>2 DEF LockInv
<1>4. ASSUME NEW t \in Threads, CheckValid(t)
      PROVE  LockInv'
  <2>1. th[t].pc = "valid" /\ UNCHANGED mem
    BY Zenon, <1>4 DEF CheckValid
  <2>2. Goto(t, "peek") \/ Goto(t, "lock") \/ Return(t)
    BY Zenon, <1>4 DEF CheckValid
  <2>3. QED
    BY ZenonT(30), <2>1, <2>2, GotoEffect, ReturnEffect, LockFrame DEF PCs
<1>5. ASSUME NEW t \in Threads, Peek(t)
      PROVE  LockInv'
  BY Zenon, <1>5, LockFrame DEF Peek, Return, Idle
<1>6. ASSUME NEW t \in Threads, MutexLock(t)
      PROVE  LockInv'
  <2>1. th[t].pc = "lock" /\ UNCHANGED mem
    BY Zenon, <1>6 DEF MutexLock
  <2>2. Goto(t, "wait") \/ Goto(t, "body")
    BY Zenon, <1>6 DEF MutexLock
  <2>3. QED
    BY ZenonT(30), <2>1, <2>2, GotoEffect, LockFrame DEF PCs
<1>7. ASSUME NEW t \in Threads, Acquire(t)
      PROVE  LockInv'
  <2>1. SwitchInv'
    BY <1>7 DEF Acquire, Goto, LockInv, SwitchInv
  <2>2. LockIsReleased'
    BY <1>7 DEF Acquire, Goto, LockInv, LockIsReleased, Using
  <2>3. QED
    BY Zenon, <2>1, <2>2 DEF LockInv
<1>8. ASSUME NEW t \in Threads, Body(t)
      PROVE  LockInv'
  <2>1. th[t].pc = "body" /\ Goto(t, "unlock")
    BY Zenon, <1>8 DEF Body
  <2>2. /\ \A u \in Threads : th'[u].call = th[u].call /\ th'[u].h = th[u].h
        /\ \A u \in Threads \ {t} : th'[u].pc = th[u].pc
        /\ th'[t].pc = "unlock"
    BY Zenon, <2>1 DEF Goto
  <2>3. \A a \in Addrs : /\ mem'[a].alloc = mem[a].alloc
                         /\ mem'[a].owner = mem[a].owner
                         /\ a # th[t].h \/ th[t].call \notin {"Off", "On"} => mem'[a] = mem[a]
    BY Zenon, <1>8, BodyEffect
  <2>4. SwitchInv'
    <3>1. \A u \in Threads : th[u].pc # "idle" => th[u].h \in Addrs
      OBVIOUS
    <3> HIDE DEF TypeOK, Handles
    <3>2. QED
      BY <2>1, <2>2, <2>3, <3>1 DEF LockInv, SwitchInv
  <2>5. LockIsReleased'
    <3> SUFFICES ASSUME NEW a \in Addrs, mem'[a].alloc, mem'[a].threadsafe, mem'[a].owner # NoThread
                 PROVE  mem'[a].owner \in Using(a)' /\ th'[mem'[a].owner].pc \in {"body", "unlock"}
      BY Zenon DEF LockIsReleased
    <3>1. CASE a # th[t].h \/ th[t].call \notin {"Off", "On"}
      <4>1. mem'[a] = mem[a]
        BY Zenon, <2>3, <3>1
      <4>2. QED
        BY <2>1, <2>2, <4>1 DEF LockInv, LockIsReleased, Using
    <3>2. CASE a = th[t].h /\ th[t].call = "On"
      <4>1. mem[a].owner \in {NoThread, t}
        BY Zenon, <2>1, <3>2 DEF LockInv, SwitchInv
      <4>3. mem'[a].owner = mem[a].owner
        BY Zenon, <2>3
      <4>2. QED
        BY ZenonT(40), <2>1, <2>2, <3>2, <4>1, <4>3 DEF Using
    <3>3. CASE a = th[t].h /\ th[t].call = "Off"
      <4>1. (th[t].call = "On") = FALSE
        BY Zenon, <3>3
      <4>2. mem' = mem \/ mem' = [mem EXCEPT ![th[t].h].threadsafe = FALSE]
        BY Zenon, <1>8, <4>1 DEF Body
      <4>3. mem' = mem
        BY <3>3, <4>2
      <4>4. QED
        BY ZenonT(40), <2>1, <2>2, <4>3 DEF LockInv, LockIsReleased, Using
    <3>4. QED
      BY Zenon, <3>1, <3>2, <3>3
  <2>6. QED
    BY Zenon, <2>4, <2>5 DEF LockInv
<1>9. ASSUME NEW t \in Threads, MutexUnlock(t)
      PROVE  LockInv'
  <2>1. th[t].pc = "unlock" /\ Return(t)
    BY Zenon, <1>9 DEF MutexUnlock
  <2>2. /\ \A a \in Addrs : /\ mem'[a].alloc = mem[a].alloc
                            /\ mem'[a].threadsafe = mem[a].threadsafe
                            /\ mem'[a].owner \in {NoThread, mem[a].owner}
        /\ mem[th[t].h].threadsafe => mem'[th[t].h].owner # t
    BY Zenon, <1>9, UnlockEffect
  <2>3. (\A u \in Threads \ {t} : th'[u] = th[u]) /\ th'[t].pc = "idle"
    BY Zenon, <2>1, ReturnEffect
  <2>4. SwitchInv'
    BY SMTT(20), <2>2, <2>3 DEF LockInv, SwitchInv
  <2>5. LockIsReleased'
    BY SMTT(20), <2>1, <2>2, <2>3 DEF LockInv, LockIsReleased, Using
  <2>6. QED
    BY Zenon, <2>4, <2>5 DEF LockInv
<1>10. ASSUME NEW t \in Threads, CloseContains(t)
      PROVE  LockInv'
  <2>1. th[t].pc = "contains" /\ UNCHANGED mem
    BY Zenon, <1>10 DEF CloseContains
  <2>2. Goto(t, "magic") \/ Return(t)
    BY Zenon, <1>10 DEF CloseContains
  <2>3. QED
    BY ZenonT(30), <2>1, <2>2, GotoEffect, ReturnEffect, LockFrame DEF PCs
<1>11. ASSUME NEW t \in Threads, CloseMagic(t)
      PROVE  LockInv'
  <2>1. th[t].pc = "magic" /\ UNCHANGED mem
    BY Zenon, <1>11 DEF CloseMagic
  <2>2. Goto(t, "remove") \/ Return(t)
    BY Zenon, <1>11 DEF CloseMagic
  <2>3. QED
    BY ZenonT(30), <2>1, <2>2, GotoEffect, ReturnEffect, LockFrame DEF PCs
<1>12. ASSUME NEW t \in Threads, CloseRemove(t)
      PROVE  LockInv'
  BY ZenonT(40), <1>12, LockFrame DEF CloseRemove, Goto
<1>13. ASSUME NEW t \in Threads, CloseDead(t)
      PROVE  LockInv'
  <2>1. SwitchInv'
    BY <1>13 DEF CloseDead, Goto, LockInv, SwitchInv
  <2>2. LockIsReleased'
    BY <1>13 DEF CloseDead, Goto, LockInv, LockIsReleased, Using
  <2>3. QED
    BY Zenon, <2>1, <2>2 DEF LockInv
<1>14. ASSUME NEW t \in Threads, CloseFree(t)
      PROVE  LockInv'
  <2>1. SwitchInv'
    BY ZenonT(40), <1>14 DEF CloseFree, Return, Idle, LockInv, SwitchInv
  <2>2. LockIsReleased'
    BY <1>14 DEF CloseFree, Return, Idle, LockInv, LockIsReleased, Using
  <2>3. QED
    BY Zenon, <2>1, <2>2 DEF LockInv
<1>15. QED
  BY Zenon, <1>1, <1>2, <1>3, <1>4, <1>5, <1>6, <1>7, <1>8, <1>9, <1>10, <1>11, <1>12, <1>13, <1>14
     DEF Next, InCall

\* LockIsReleased: a threadsafe handle's mutex is never left held by a call that is
\* gone, also by a client that closes handles while others use them or uses closed
\* ones, provided that SetConfig overlaps no other call on the handle and that the
\* thread that switched the mutex off is the one that switches it on.
THEOREM MutexIsReleased ==
  ASSUME Freedoms \subseteq {"close", "stale"}
  PROVE  Spec => []LockIsReleased
<1>1. Init => LockInv
  BY DEF Init, LockInv, SwitchInv, LockIsReleased, Idle
<1>2. TypeOK /\ LockInv /\ [Next]_vars => LockInv'
  BY Zenon, LockStep
<1>3. LockInv => LockIsReleased
  BY Zenon DEF LockInv
<1>4. QED
  BY <1>1, <1>2, <1>3, TypeCorrect, PTL DEF Spec

\* Calls share a handle only while it is threadsafe, and then the mutex belongs to the
\* one of them that works under it.  SetConfig is excepted: it may have found the
\* mutex off and left it on, or the other way round.
MutexInv ==
  /\ \A t, u \in Threads :
        t # u /\ th[t].pc # "idle" /\ th[u].pc # "idle" /\ th[t].h = th[u].h =>
           th[t].call \notin {"Close", "Off", "On"} /\ mem[th[t].h].threadsafe
  /\ \A t \in Threads :
        /\ th[t].pc \in {"body", "unlock"}
        /\ th[t].call \notin {"Off", "On"}
        /\ mem[th[t].h].threadsafe
        => mem[th[t].h].owner = t

\* Nor is exclusion lost by a thread that returns, or goes on without the mutex.
LEMMA MutexFrame ==
  ASSUME TypeOK, MutexInv, mem' = mem,
         \A u \in Threads :
            \/ th'[u].pc = "idle"
            \/ /\ th[u].pc # "idle" /\ th'[u].call = th[u].call /\ th'[u].h = th[u].h
               /\ th'[u].pc \in {"body", "unlock"} => th[u].pc \in {"body", "unlock"}
  PROVE  MutexInv'
BY SMTT(20) DEF MutexInv

\* Every step keeps it.
LEMMA MutexStep ==
  ASSUME TypeOK, NoUseAfterFree, LiveInv, MutexInv, [Next]_vars, Freedoms = {}
  PROVE  MutexInv'
<1> USE ThreadsAssumption DEF TypeOK, Handles, MutexInv, NoUseAfterFree, Touches, The, Closing
<1>1. CASE UNCHANGED vars
  BY Zenon, <1>1 DEF vars
<1>2. ASSUME NEW t \in Threads, Start(t)
      PROVE  MutexInv'
  BY <1>2 DEF Start, FirstStep, Knows, Permitted, Using, Alone
<1>3. ASSUME NEW t \in Threads, SqlRDBInit(t)
      PROVE  MutexInv'
  BY SMTT(20), <1>3 DEF SqlRDBInit
<1>4. ASSUME NEW t \in Threads, CheckValid(t)
      PROVE  MutexInv'
  <2>1. th[t].pc = "valid" /\ UNCHANGED mem
    BY Zenon, <1>4 DEF CheckValid
  <2>2. Goto(t, "peek") \/ Goto(t, "lock") \/ Return(t)
    BY Zenon, <1>4 DEF CheckValid
  <2>3. QED
    BY ZenonT(30), <2>1, <2>2, GotoEffect, ReturnEffect, MutexFrame DEF PCs
<1>5. ASSUME NEW t \in Threads, Peek(t)
      PROVE  MutexInv'
  BY <1>5 DEF Peek, Return, Idle
<1>6. ASSUME NEW t \in Threads, MutexLock(t)
      PROVE  MutexInv'
  BY <1>6 DEF MutexLock, Goto
<1>7. ASSUME NEW t \in Threads, Acquire(t)
      PROVE  MutexInv'
  BY <1>7 DEF Acquire, Goto
<1>8. ASSUME NEW t \in Threads, Body(t)
      PROVE  MutexInv'
  <2>1. th[t].pc = "body" /\ Goto(t, "unlock")
    BY Zenon, <1>8 DEF Body
  <2>2. \A u \in Threads : /\ th'[u].call = th[u].call /\ th'[u].h = th[u].h
                           /\ th'[u].pc # "idle" => th[u].pc # "idle"
                           /\ th'[u].pc \in {"body", "unlock"} => th[u].pc \in {"body", "unlock"}
    BY Zenon, <2>1, GotoEffect DEF PCs
  <2>3. \A u \in Threads : u # t /\ th[u].pc # "idle" /\ th[u].h = th[t].h => mem'[th[u].h] = mem[th[u].h]
    <3>1. ASSUME NEW u \in Threads, u # t, th[u].pc # "idle", th[u].h = th[t].h
          PROVE  mem'[th[t].h] = mem[th[t].h]
      <4>1. th[t].call \notin {"Off", "On"} /\ th[t].h \in Addrs
        BY Zenon, <2>1, <3>1 DEF MutexInv, TypeOK
      <4>2. QED
        BY <1>8, <4>1, BodyEffect
    <3>2. QED
      BY Zenon, <3>1
  <2>4. \A u \in Threads : th[u].h # th[t].h /\ th[u].pc # "idle" => mem'[th[u].h] = mem[th[u].h]
    BY <1>8, BodyEffect DEF TypeOK
  <2>5. th[t].call \notin {"Off", "On"} => mem'[th[t].h] = mem[th[t].h]
    BY SMTT(20), <1>8, <2>1, BodyEffect DEF TypeOK
  <2>6. QED
    BY SMTT(20), <2>2, <2>3, <2>4, <2>5 DEF MutexInv
<1>9. ASSUME NEW t \in Threads, MutexUnlock(t)
      PROVE  MutexInv'
  <2>1. th[t].pc = "unlock" /\ Return(t)
    BY Zenon, <1>9 DEF MutexUnlock
  <2>2. \A a \in Addrs : /\ mem'[a].threadsafe = mem[a].threadsafe
                         /\ a # th[t].h => mem'[a] = mem[a]
    <3> HIDE DEF TypeOK, Handles, The, MutexInv, NoUseAfterFree, Touches, Closing
    <3>1. QED
      BY Zenon, <1>9, UnlockEffect
  <2>3. (\A u \in Threads \ {t} : th'[u] = th[u]) /\ th'[t].pc = "idle"
    BY Zenon, <2>1, ReturnEffect
  <2>4. \A u \in Threads \ {t} :
           /\ th[u].pc \in {"body", "unlock"} /\ th[u].h = th[t].h /\ mem[th[t].h].threadsafe
           => /\ mem[th[t].h].owner = u
              /\ th[t].call \notin {"Off", "On"} /\ mem[th[t].h].owner = t
    BY Zenon, <2>1 DEF MutexInv
  <2>5. QED
    BY SMTT(20), <2>1, <2>2, <2>3, <2>4 DEF MutexInv
<1>10. ASSUME NEW t \in Threads, CloseContains(t)
      PROVE  MutexInv'
  BY SMTT(20), <1>10 DEF CloseContains, Goto, Return, Idle
<1>11. ASSUME NEW t \in Threads, CloseMagic(t)
      PROVE  MutexInv'
  <2>1. th[t].pc = "magic" /\ UNCHANGED mem
    BY Zenon, <1>11 DEF CloseMagic
  <2>2. Goto(t, "remove") \/ Return(t)
    BY Zenon, <1>11 DEF CloseMagic
  <2>3. QED
    BY ZenonT(30), <2>1, <2>2, GotoEffect, ReturnEffect, MutexFrame DEF PCs
<1>12. ASSUME NEW t \in Threads, CloseRemove(t)
      PROVE  MutexInv'
  BY <1>12 DEF CloseRemove, Goto
<1>13. ASSUME NEW t \in Threads, CloseDead(t)
      PROVE  MutexInv'
  BY SMTT(20), <1>13 DEF CloseDead, Goto
<1>14. ASSUME NEW t \in Threads, CloseFree(t)
      PROVE  MutexInv'
  BY <1>14 DEF CloseFree, Return, Idle
<1>15. QED
  BY Zenon, <1>1, <1>2, <1>3, <1>4, <1>5, <1>6, <1>7, <1>8, <1>9, <1>10, <1>11, <1>12, <1>13, <1>14
     DEF Next, InCall

\* OneCallInside: two calls on one handle are never under its mutex together, for any
\* number of threads and handles, when handles are closed and switched while nobody
\* else uses them.
THEOREM MutualExclusion ==
  ASSUME Freedoms = {}
  PROVE  Spec => []OneCallInside
<1>1. Init => MutexInv
  BY DEF Init, MutexInv, Idle
<1>2. Init => LiveInv
  BY DEF Init, LiveInv, CloseAlone, Closing, Idle
<1>3. TypeOK /\ LiveInv /\ NoUseAfterFree /\ MutexInv /\ [Next]_vars => LiveInv' /\ MutexInv'
  BY Zenon, LiveStep, MutexStep
<1>4. TypeOK /\ MutexInv => OneCallInside
  BY Zenon DEF TypeOK, MutexInv, OneCallInside
<1>5. Spec => []NoUseAfterFree
  BY Zenon, HandlesUsedWhileAllocated
<1>6. QED
  BY <1>1, <1>2, <1>3, <1>4, <1>5, TypeCorrect, PTL DEF Spec

=============================================================================
