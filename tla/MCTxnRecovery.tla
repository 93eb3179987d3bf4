--------------------------- MODULE MCTxnRecovery ----------------------------
(* TxnRecovery on two keys and one value, three nesting levels. *)
EXTENDS TxnRecovery

MCNames == 0..MaxTxDepth

=============================================================================
