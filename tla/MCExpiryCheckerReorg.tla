------------------------ MODULE MCExpiryCheckerReorg ------------------------
(* Small instances of the service on a chain that reorganises, for TLC. *)
EXTENDS ExpiryCheckerReorg

(* Staked at height 1 for 4 blocks; the unbonding timelock is 2 blocks, so *)
(* that one undone block is less than it.                                  *)
MCStakingStart  == [d \in Delegations |-> 1]
MCStakingTime   == [d \in Delegations |-> 4]
MCUnbondingTime == [d \in Delegations |-> 2]

=============================================================================
