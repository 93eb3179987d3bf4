---------------------------- MODULE MCStatements ----------------------------
(* Statements with four texts, two of which share a bucket of every table,   *)
(* and capacities that need tables of different sizes.                       *)
EXTENDS Statements, TLC

CONSTANTS q1, q2, q3, q4

MCSqls == {q1, q2, q3, q4}
MCHash == (q1 :> 1) @@ (q2 :> 9) @@ (q3 :> 5) @@ (q4 :> 2)
StmtSymmetry == Permutations(Stmts)

=============================================================================
