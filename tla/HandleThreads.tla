--------------------------- MODULE HandleThreads ----------------------------
(***************************************************************************)
(* Threads calling the API on shared handles: the validity check, the      *)
(* handle mutex with its threadsafe switch, the live-handle registry and   *)
(* the steps of SqlRDBClose.  What a call does to the database while it    *)
(* holds the mutex is in Txn; here it is the step from "body" to "unlock". *)
(*                                                                         *)
(* The client keeps the pointers Init gave it and passes them to calls.    *)
(* Freedoms says what it does beyond the plain use (calls overlap, but a   *)
(* handle is closed or switched only while nobody else uses it, and the    *)
(* thread that switched the mutex off is the one that switches it on):     *)
(*   "close"   SqlRDBClose may overlap other calls on the handle;          *)
(*   "config"  SqlRDBSetConfig(threadsafe) may overlap other calls;        *)
(*   "switch"  one thread may switch the mutex on that another switched    *)
(*             off, and so unlock a mutex it does not hold;                *)
(*   "stale"   calls other than Close may be made after Close returned.    *)
(***************************************************************************)
EXTENDS Naturals, FiniteSets

CONSTANTS
  Threads, Addrs,   \* Addrs: where calloc may put a handle
  NoThread,         \* the mutex is not held
  NoAddr,           \* the thread is in no call
  MaxCalls,         \* calls each thread makes
  MaxInits,         \* handles opened in a run
  Freedoms

ASSUME ThreadsAssumption ==
  /\ NoThread \notin Threads /\ NoAddr \notin Addrs
  /\ IsFiniteSet(Threads) /\ IsFiniteSet(Addrs)
  /\ MaxCalls \in Nat /\ MaxInits \in Nat
  /\ Freedoms \subseteq {"close", "config", "switch", "stale"}

VARIABLES
  mem,     \* the handle at each address: allocated, magic, mutex
  live,    \* g_live_handles
  th,      \* per thread: program counter, call, its handle argument
  calls,   \* calls a thread has started
  given,   \* pointers Init has returned
  held,    \* those of them the client has not closed
  inits,   \* handles Init returned
  torn     \* Close calls that went on to tear a handle down

vars == <<mem, live, th, calls, given, held, inits, torn>>

\* Api: a call that checks the handle and then holds the mutex; Stmt: StmtNext and
\* StmtFree, which lock without a check; Peek: LastError, and RegisterStruct with
\* bad arguments, which use the error context without the mutex; Off and On:
\* SetConfig with threadsafe false and true.
Calls == {"Api", "Stmt", "Peek", "Off", "On", "Close"}

PCs == {"idle", "valid", "lock", "wait", "body", "unlock", "peek",
        "contains", "magic", "remove", "dead", "free"}

Handles ==
  [alloc : BOOLEAN, magic : BOOLEAN, threadsafe : BOOLEAN, owner : Threads \cup {NoThread}]

Idle == [pc |-> "idle", call |-> "Api", h |-> NoAddr]

TypeOK ==
  /\ mem \in [Addrs -> Handles]
  /\ th \in [Threads -> [pc : PCs, call : Calls, h : Addrs \cup {NoAddr}]]
  /\ \A t \in Threads : th[t].pc # "idle" => th[t].h \in Addrs
  /\ calls \in [Threads -> 0..MaxCalls]
  /\ given \subseteq Addrs /\ held \subseteq given /\ live \subseteq given
  /\ inits \in 0..MaxInits /\ torn \in Nat

Init ==
  /\ mem = [a \in Addrs |-> [alloc |-> FALSE, magic |-> FALSE,
                             threadsafe |-> FALSE, owner |-> NoThread]]
  /\ live = {}
  /\ th = [t \in Threads |-> Idle]
  /\ calls = [t \in Threads |-> 0]
  /\ given = {} /\ held = {}
  /\ inits = 0 /\ torn = 0

-----------------------------------------------------------------------------
(* The client *)

Using(a) == {t \in Threads : th[t].pc # "idle" /\ th[t].h = a}

\* Calls the client makes only while no other call on the handle is in progress.
Alone == (IF "close" \in Freedoms THEN {} ELSE {"Close"})
           \cup (IF "config" \in Freedoms THEN {} ELSE {"Off", "On"})

\* The client's own rules; threads share a handle only while it is threadsafe.
\* SetConfig leaves the mutex locked when it switches it off, and does not lock it
\* again before it switches it on and unlocks it.
Permitted(t, call, a) ==
  /\ \/ Using(a) = {}
     \/ /\ call \notin Alone
        /\ \A u \in Using(a) : th[u].call \notin Alone
        /\ "config" \in Freedoms \/ mem[a].threadsafe
  /\ call = "On" /\ "switch" \notin Freedoms => mem[a].owner \in {NoThread, t}

\* Close is also tried on a pointer that was closed before; other calls on one are
\* made only by a client with that freedom.
Knows(call, a) ==
  a \in held \/ (a \in given /\ (call = "Close" \/ "stale" \in Freedoms))

FirstStep(call) ==
  CASE call = "Close" -> "contains" [] call = "Stmt" -> "lock" [] OTHER -> "valid"

Start(t) ==
  /\ th[t].pc = "idle"
  /\ calls[t] < MaxCalls
  /\ \E call \in Calls, a \in Addrs :
        /\ Knows(call, a)
        /\ Permitted(t, call, a)
        /\ th' = [th EXCEPT ![t] = [pc |-> FirstStep(call), call |-> call, h |-> a]]
  /\ calls' = [calls EXCEPT ![t] = @ + 1]
  /\ UNCHANGED <<mem, live, given, held, inits, torn>>

-----------------------------------------------------------------------------
(* Every call but Close *)

Goto(t, pc) == th' = [th EXCEPT ![t].pc = pc]
The(t)      == mem[th[t].h]

Return(t) == th' = [th EXCEPT ![t] = Idle]

\* What reading magic may find; the memory of a freed handle may hold anything.
Magic(t) == IF The(t).alloc THEN {The(t).magic} ELSE BOOLEAN

\* c2sql_handle_valid at the entry.
CheckValid(t) ==
  /\ th[t].pc = "valid"
  /\ \E ok \in Magic(t) :
        IF ok THEN Goto(t, IF th[t].call = "Peek" THEN "peek" ELSE "lock")
              ELSE Return(t)
  /\ UNCHANGED <<mem, live, calls, given, held, inits, torn>>

\* The error context, read or written without the mutex.
Peek(t) ==
  /\ th[t].pc = "peek"
  /\ Return(t)
  /\ UNCHANGED <<mem, live, calls, given, held, inits, torn>>

\* c2sql_internal_mutex_lock reads the switch once, before it may block.
MutexLock(t) ==
  /\ th[t].pc = "lock"
  /\ Goto(t, IF The(t).threadsafe THEN "wait" ELSE "body")
  /\ UNCHANGED <<mem, live, calls, given, held, inits, torn>>

\* Faulty variant: the lock is taken whoever holds it.
Acquire_Unguarded(t) ==
  /\ th[t].pc = "wait"
  /\ mem' = [mem EXCEPT ![th[t].h].owner = t]
  /\ Goto(t, "body")
  /\ UNCHANGED <<live, calls, given, held, inits, torn>>

Acquire(t) ==
  /\ th[t].pc = "wait"
  /\ The(t).owner = NoThread
  /\ mem' = [mem EXCEPT ![th[t].h].owner = t]
  /\ Goto(t, "body")
  /\ UNCHANGED <<live, calls, given, held, inits, torn>>

\* Faulty variant: an error path returns without unlocking.
Body_ErrorKeepsLock(t) ==
  /\ th[t].pc = "body"
  /\ \/ UNCHANGED mem
     \/ /\ th[t].call \in {"Off", "On"}
        /\ mem' = [mem EXCEPT ![th[t].h].threadsafe = (th[t].call = "On")]
  /\ Goto(t, "unlock") \/ Return(t)
  /\ UNCHANGED <<live, calls, given, held, inits, torn>>

\* The work under the mutex.  SetConfig sets the switch unless the statement
\* cache could not be rebuilt.
Body(t) ==
  /\ th[t].pc = "body"
  /\ \/ UNCHANGED mem
     \/ /\ th[t].call \in {"Off", "On"}
        /\ mem' = [mem EXCEPT ![th[t].h].threadsafe = (th[t].call = "On")]
  /\ Goto(t, "unlock")
  /\ UNCHANGED <<live, calls, given, held, inits, torn>>

\* Who may hold the mutex after t unlocked it.  Unlocking a mutex another thread
\* locked is undefined for a default pthread mutex and an error for a
\* CRITICAL_SECTION: it may be released or stay locked.
AfterUnlock(t) == IF The(t).owner = t THEN {NoThread} ELSE {NoThread, The(t).owner}

\* c2sql_internal_mutex_unlock: the switch alone decides whether to unlock.
MutexUnlock(t) ==
  /\ th[t].pc = "unlock"
  /\ \/ /\ The(t).threadsafe
        /\ \E o \in AfterUnlock(t) : mem' = [mem EXCEPT ![th[t].h].owner = o]
     \/ ~The(t).threadsafe /\ UNCHANGED mem
  /\ Return(t)
  /\ UNCHANGED <<live, calls, given, held, inits, torn>>

-----------------------------------------------------------------------------
(* SqlRDBInit and SqlRDBClose *)

\* Faulty variant: the handle is registered before the last step that can fail, and
\* the failure frees it without taking it out of the registry.
SqlRDBInit_FailureStaysLive(t) ==
  /\ th[t].pc = "idle"
  /\ inits < MaxInits
  /\ \E a \in Addrs :
        /\ ~mem[a].alloc
        /\ live' = live \cup {a}
        /\ \/ /\ mem' = [mem EXCEPT ![a] = [alloc |-> TRUE, magic |-> TRUE,
                                            threadsafe |-> TRUE, owner |-> NoThread]]
              /\ given' = given \cup {a} /\ held' = held \cup {a} /\ inits' = inits + 1
           \/ UNCHANGED <<mem, given, held, inits>>
  /\ UNCHANGED <<th, calls, torn>>

\* The handle is private until live_register, the last step that can fail; a
\* failure undoes every step.
SqlRDBInit(t) ==
  /\ th[t].pc = "idle"
  /\ inits < MaxInits
  /\ \E a \in Addrs :
        /\ ~mem[a].alloc
        /\ mem' = [mem EXCEPT ![a] = [alloc |-> TRUE, magic |-> TRUE,
                                      threadsafe |-> TRUE, owner |-> NoThread]]
        /\ live' = live \cup {a}
        /\ given' = given \cup {a}
        /\ held' = held \cup {a}
  /\ inits' = inits + 1
  /\ UNCHANGED <<th, calls, torn>>

\* Faulty variant: Close relies on the magic alone.
CloseContains_NoRegistry(t) ==
  /\ th[t].pc = "contains"
  /\ Goto(t, "magic")
  /\ UNCHANGED <<mem, live, calls, given, held, inits, torn>>

CloseContains(t) ==
  /\ th[t].pc = "contains"
  /\ IF th[t].h \in live THEN Goto(t, "magic") ELSE Return(t)
  /\ UNCHANGED <<mem, live, calls, given, held, inits, torn>>

CloseMagic(t) ==
  /\ th[t].pc = "magic"
  /\ \E ok \in Magic(t) : IF ok THEN Goto(t, "remove") ELSE Return(t)
  /\ UNCHANGED <<mem, live, calls, given, held, inits, torn>>

\* Faulty variant: the handle stays in the registry.
CloseRemove_Stays(t) ==
  /\ th[t].pc = "remove"
  /\ torn' = torn + 1
  /\ Goto(t, "dead")
  /\ UNCHANGED <<mem, live, calls, given, held, inits>>

\* live_remove; what it returns is not looked at.
CloseRemove(t) ==
  /\ th[t].pc = "remove"
  /\ live' = live \ {th[t].h}
  /\ torn' = torn + 1
  /\ Goto(t, "dead")
  /\ UNCHANGED <<mem, calls, given, held, inits>>

\* magic becomes DEAD; rollback, cache, registry and driver follow.
CloseDead(t) ==
  /\ th[t].pc = "dead"
  /\ mem' = [mem EXCEPT ![th[t].h].magic = FALSE]
  /\ Goto(t, "free")
  /\ UNCHANGED <<live, calls, given, held, inits, torn>>

\* mutex_destroy and free.
CloseFree(t) ==
  /\ th[t].pc = "free"
  /\ mem' = [mem EXCEPT ![th[t].h].alloc = FALSE, ![th[t].h].owner = NoThread]
  /\ held' = held \ {th[t].h}
  /\ Return(t)
  /\ UNCHANGED <<live, calls, given, inits, torn>>

InCall(t) ==
  \/ CheckValid(t) \/ Peek(t) \/ MutexLock(t) \/ Acquire(t) \/ Body(t) \/ MutexUnlock(t)
  \/ CloseContains(t) \/ CloseMagic(t) \/ CloseRemove(t) \/ CloseDead(t) \/ CloseFree(t)

Next == \E t \in Threads : Start(t) \/ SqlRDBInit(t) \/ InCall(t)

\* A thread inside a call keeps running; a mutex is granted to a waiter that nobody
\* competes with for ever (each thread makes at most MaxCalls calls).
Spec == Init /\ [][Next]_vars /\ \A t \in Threads : WF_vars(InCall(t))

-----------------------------------------------------------------------------
(* Properties *)

\* The handle mutex keeps the bodies of two calls on one handle apart, also across
\* SetConfig switching it off and on again while nobody else uses the handle.
OneCallInside ==
  \A t, u \in Threads :
     t # u /\ th[t].pc = "body" /\ th[u].pc = "body" => th[t].h # th[u].h

\* A threadsafe handle's mutex is held only by a thread that is in a call on the
\* handle and will release it: when the thread that switched the mutex off switches
\* it on again, the lock its first SetConfig left behind is not left for good.
LockIsReleased ==
  \A a \in Addrs :
     mem[a].alloc /\ mem[a].threadsafe /\ mem[a].owner # NoThread =>
        mem[a].owner \in Using(a) /\ th[mem[a].owner].pc \in {"body", "unlock"}

\* Every handle Init returned is in the registry or was torn down, once: a second
\* Close returns SQL_RDB_ERR_INVALID_HANDLE.
TornDownOnce == torn + Cardinality(live) = inits

\* Steps that read or write the handle find it allocated.
Touches == {"valid", "lock", "wait", "body", "unlock", "peek", "magic", "dead", "free"}

\* No call uses a handle's memory after Close freed it.
NoUseAfterFree == \A t \in Threads : th[t].pc \in Touches => The(t).alloc

\* A call on a shared handle returns: nobody waits for ever for the mutex.
CallsReturn == \A t \in Threads : (th[t].pc # "idle") ~> (th[t].pc = "idle")

=============================================================================
