-------------------------- MODULE MCExpiryChecker ---------------------------
(* Small instances of the service for TLC. *)
EXTENDS ExpiryChecker

(* Staked at height 1 for 3 blocks; the unbonding timelock is 1 block. *)
MCStakingStart  == [d \in Delegations |-> 1]
MCStakingTime   == [d \in Delegations |-> 3]
MCUnbondingTime == [d \in Delegations |-> 1]

=============================================================================
