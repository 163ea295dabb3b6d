-------------------------- MODULE MCTxClassifier ----------------------------
(* Small transactions for the classification of spends. *)
EXTENDS TxClassifier

(* Fees below, at and above the staking value of 2. *)
MCUnbondingFees == 1 .. 3
MCOutputValues  == 0 .. 1

=============================================================================
