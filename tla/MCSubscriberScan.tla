-------------------------- MODULE MCSubscriberScan --------------------------
(* A small database for the paging of the subscriber poller. *)
EXTENDS SubscriberScan

MCStakingStart  == [d \in Delegations |-> 1]
MCStakingTime   == [d \in Delegations |-> 1]
MCUnbondingTime == [d \in Delegations |-> 1]

=============================================================================
