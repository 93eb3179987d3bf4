------------------------------- MODULE MCTxn --------------------------------
(* Txn on two keys and one value, three nesting levels. *)
EXTENDS Txn

MCNames == 0..MaxTxDepth

=============================================================================
