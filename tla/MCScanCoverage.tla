--------------------------- MODULE MCScanCoverage ---------------------------
(* Three delegations in the whole service, for TLC: one more than a page   *)
(* holds.  Their staking timelocks end one after the other.                *)
EXTENDS ScanCoverage

MCStakingStart  == [d \in Delegations |-> 1]
MCStakingTime   == [d \in Delegations |-> d]
MCUnbondingTime == [d \in Delegations |-> 1]

=============================================================================
