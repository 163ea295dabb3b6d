------------------------ MODULE DelegationLifecycle -------------------------
(***************************************************************************)
(* What the service promises to the other users of the database: the life  *)
(* of each delegation document, step by step, against the chain.  There    *)
(* are no pollers, watchers, channels or timelock queue here; ExpiryChecker *)
(* is shown to implement this specification.                               *)
(***************************************************************************)
EXTENDS BitcoinChain

VARIABLES
    status,         \* the state of each delegation
    unbondingFrom   \* height of its unbonding transaction, 0 when unknown

lifecycleVars == <<status, unbondingFrom>>

Init ==
    /\ ChainInit
    /\ status = [d \in Delegations |-> Active]
    /\ unbondingFrom = [d \in Delegations |-> 0]

(* d goes from one of the states in from to the state to. *)
Move(d, from, to) ==
    /\ status[d] \in from
    /\ status' = [status EXCEPT ![d] = to]

(* The Phase 1 API takes a request, or hands the delegation to Phase 2. *)
Request(d) ==
    /\ Move(d, {Active}, UnbondingRequested) \/ Move(d, {Active}, Transitioned)
    /\ UNCHANGED unbondingFrom

(* Its unbonding transaction is on the chain; its height is recorded. *)
StartUnbonding(d) ==
    /\ stakingSpend[d].path = "unbonding"
    /\ Move(d, {Active, UnbondingRequested}, Unbonding)
    /\ unbondingFrom' = [unbondingFrom EXCEPT ![d] = stakingSpend[d].height]

StakingExpires(d) ==
    /\ tip >= StakingExpiry(d)
    /\ Move(d, {Active}, Unbonded)
    /\ UNCHANGED unbondingFrom

UnbondingExpires(d) ==
    /\ tip >= unbondingFrom[d] + UnbondingTime[d]
    /\ Move(d, {Unbonding}, Unbonded)
    /\ UNCHANGED unbondingFrom

(* The funds were taken out of the last output of the delegation. *)
Withdraw(d) ==
    /\ OutputGone(d)
    /\ Move(d, {Unbonded}, Withdrawn)
    /\ UNCHANGED unbondingFrom

LifecycleNext ==
    \E d \in Delegations :
        \/ Request(d)
        \/ StartUnbonding(d)
        \/ StakingExpires(d)
        \/ UnbondingExpires(d)
        \/ Withdraw(d)

Next ==
    \/ ChainNext /\ UNCHANGED lifecycleVars
    \/ LifecycleNext /\ UNCHANGED chainVars

Spec == Init /\ [][Next]_<<chainVars, lifecycleVars>>

=============================================================================
