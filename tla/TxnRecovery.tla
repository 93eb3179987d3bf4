---------------------------- MODULE TxnRecovery -----------------------------
(***************************************************************************)
(* Txn with a client that may follow the API guide: when a call inside a   *)
(* transaction fails it can decide to call RollbackTx until it is outside  *)
(* every transaction before it does anything else.  It can also ignore the *)
(* failure, so the behaviours of Txn are all here.                         *)
(***************************************************************************)
EXTENDS Txn

VARIABLE unwinding   \* the client saw a failure and is rolling back

rvars == <<vars, unwinding>>

RInit == Init /\ unwinding = FALSE

Work ==
  /\ ~unwinding
  /\ Next
  /\ unwinding' \in {FALSE, ret'.r # OK /\ txn'.depth > 0}

Unwind ==
  /\ unwinding
  /\ SqlRDBRollbackTx
  /\ unwinding' = (txn'.depth > 0)

RNext == Work \/ Unwind

\* The client does keep calling RollbackTx, it waits for nobody; and the statements
\* RollbackTx sends do not fail for ever if they can succeed.
RSpec == RInit /\ [][RNext]_rvars /\ WF_rvars(Unwind /\ ret'.r = OK)

\* A client that answers a failure with RollbackTx calls gets back to depth 0, from
\* every nesting level, after every failure and also when the first or the second
\* statement of a RollbackTx itself failed on the way.
UnwindEnds == unwinding ~> ~unwinding

=============================================================================
