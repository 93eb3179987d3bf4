------------------------------ MODULE NestedTx ------------------------------
(***************************************************************************)
(* What SqlRDBBeginTx, SqlRDBCommitTx and SqlRDBRollbackTx promise: a      *)
(* stack of nested transactions over one table.  Beginning saves the rows; *)
(* rolling back restores the rows the matching begin saved and nothing     *)
(* else; only the outermost commit changes the committed rows.             *)
(***************************************************************************)
EXTENDS Naturals, Sequences

CONSTANTS Rows,      \* the possible contents of the table
          MaxDepth   \* the deepest nesting

VARIABLES committed,   \* what every later connection sees
          saved,       \* the rows at each begin that is still open
          current,     \* what this connection sees
          done         \* what the last call did

vars == <<committed, saved, current, done>>

Top == saved[Len(saved)]
Pop == SubSeq(saved, 1, Len(saved) - 1)

Init ==
  /\ committed \in Rows
  /\ current = committed
  /\ saved = << >>
  /\ done = "Abandon"

Begin ==
  /\ done' = "Begin"
  /\ Len(saved) < MaxDepth
  /\ saved' = Append(saved, current)
  /\ UNCHANGED <<committed, current>>

Commit ==
  /\ done' = "Commit"
  /\ saved # << >>
  /\ saved' = Pop
  /\ committed' = IF Len(saved) = 1 THEN current ELSE committed
  /\ UNCHANGED current

Rollback ==
  /\ done' = "Rollback"
  /\ saved # << >>
  /\ saved' = Pop
  /\ current' = Top
  /\ UNCHANGED committed

\* Outside every transaction a change is committed at once.
Update ==
  /\ done' = "Update"
  /\ current' \in Rows
  /\ committed' = IF saved = << >> THEN current' ELSE committed
  /\ UNCHANGED saved

\* A batch stopped halfway: inside a transaction its first rows may stay in it,
\* outside there is no trace of it.
FailBatch ==
  /\ done' = "FailBatch"
  /\ current' \in Rows
  /\ saved = << >> => current' = current
  /\ UNCHANGED <<committed, saved>>

\* Any other call that fails changes nothing.
Fail ==
  /\ done' = "Fail"
  /\ UNCHANGED <<committed, saved, current>>

\* The connection is closed, or the process ends, or a new one is opened.
Abandon ==
  /\ done' = "Abandon"
  /\ current' = committed
  /\ saved' = << >>
  /\ UNCHANGED committed

Next == Begin \/ Commit \/ Rollback \/ Update \/ FailBatch \/ Fail \/ Abandon

Spec == Init /\ [][Next]_vars

=============================================================================
