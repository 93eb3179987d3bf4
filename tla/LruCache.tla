------------------------------ MODULE LruCache ------------------------------
(***************************************************************************)
(* What the statement cache promises, without lists and buckets: the texts *)
(* it remembers, most recently used first, and never more than its         *)
(* capacity.  A call uses one text at a time; the text in use is visible,  *)
(* so that an implementation cannot pass over the reordering a use brings. *)
(***************************************************************************)
EXTENDS Naturals, Sequences, SequencesExt

CONSTANTS Sqls, Capacities, None

VARIABLES order,      \* the remembered texts, most recently used first
          capacity,
          inUse,      \* the text a call is using, or None
          open        \* the handle is open

vars == <<order, capacity, inUse, open>>

Init == order = << >> /\ capacity \in Capacities /\ inUse = None /\ open = TRUE

\* A call asks for a text: a remembered one moves to the front, a new one pushes
\* the least recently used one out of a full cache, and a cache without room
\* remembers nothing.
Use(sql) ==
  /\ open /\ inUse = None
  /\ inUse' = sql
  /\ order' = IF Contains(order, sql) THEN <<sql>> \o Remove(order, sql)
              ELSE IF capacity = 0 THEN order
              ELSE <<sql>> \o (IF Len(order) = capacity THEN Front(order) ELSE order)
  /\ UNCHANGED <<capacity, open>>

Release ==
  /\ inUse # None
  /\ inUse' = None
  /\ UNCHANGED <<order, capacity, open>>

\* The memory for a new text ran out after room had been made for it.
LoseInsert ==
  /\ open /\ inUse = None
  /\ capacity > 0 /\ Len(order) = capacity
  /\ order' = Front(order)
  /\ UNCHANGED <<capacity, inUse, open>>

\* A smaller cache keeps the most recently used texts.  A resize that runs out of
\* memory changes nothing.
Resize(n) ==
  /\ open /\ inUse = None
  /\ order' = SubSeq(order, 1, IF n < Len(order) THEN n ELSE Len(order))
  /\ capacity' = n
  /\ UNCHANGED <<inUse, open>>

Close ==
  /\ open /\ inUse = None
  /\ open' = FALSE
  /\ order' = << >> /\ capacity' = 0
  /\ UNCHANGED inUse

Reopen ==
  /\ ~open
  /\ open' = TRUE
  /\ capacity' \in Capacities
  /\ UNCHANGED <<order, inUse>>

Next ==
  \/ \E sql \in Sqls : Use(sql)
  \/ Release \/ LoseInsert
  \/ \E n \in Capacities : Resize(n)
  \/ Close \/ Reopen

Spec == Init /\ [][Next]_vars

=============================================================================
