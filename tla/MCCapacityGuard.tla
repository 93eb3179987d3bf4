-------------------------- MODULE MCCapacityGuard ---------------------------
(* Clients with a handle each. *)
EXTENDS CapacityGuard, TLC

CONSTANTS c1, c2, c3, x1, x2, x3

OwnHandles == (c1 :> x1) @@ (c2 :> x2) @@ (c3 :> x3)

\* Keys are alike, and so are clients together with their handles.
Symmetry ==
  {p @@ [v \in Clients \cup Conns |->
           IF v \in Clients THEN q[v]
           ELSE OwnHandles[q[CHOOSE c \in Clients : OwnHandles[c] = v]]] :
     p \in Permutations(Keys), q \in Permutations(Clients)}

=============================================================================
