--------------------------- MODULE ReorgLifecycle ---------------------------
(***************************************************************************)
(* The life of a delegation document on a chain that reorganises: what     *)
(* DelegationLifecycle becomes when a block can be undone after the        *)
(* service has read it.  There is no chain of the moment here, only what   *)
(* the chain has ever shown, and every move of a document rests on that.   *)
(***************************************************************************)
EXTENDS DelegationStates, Naturals

CONSTANTS
    StakingExpiry(_),   \* height at which a staking timelock is over
    UnbondingTime       \* unbonding timelock of each delegation

VARIABLES
    highest,        \* the highest block ever
    minedAt,        \* heights each unbonding transaction was ever mined at
    everGone,       \* delegations whose funds were ever gone
    status,         \* the state of each delegation
    unbondingFrom   \* recorded height of its unbonding transaction, or 0

historyVars == <<highest, minedAt, everGone>>

lifecycleVars == <<status, unbondingFrom>>

Init ==
    /\ highest \in Nat
    /\ minedAt = [d \in Delegations |-> {}]
    /\ everGone = {}
    /\ status = [d \in Delegations |-> Active]
    /\ unbondingFrom = [d \in Delegations |-> 0]

(* Blocks come and go; what has been seen is not forgotten. *)
HistoryNext ==
    /\ highest' >= highest
    /\ \A d \in Delegations : minedAt[d] \subseteq minedAt'[d]
    /\ everGone \subseteq everGone'

(* d goes from one of the states in from to the state to. *)
Move(d, from, to) ==
    /\ status[d] \in from
    /\ status' = [status EXCEPT ![d] = to]

Request(d) ==
    /\ Move(d, {Active}, UnbondingRequested) \/ Move(d, {Active}, Transitioned)
    /\ UNCHANGED unbondingFrom

(* The recorded height is that of some block that held the transaction. *)
StartUnbonding(d) ==
    /\ Move(d, {Active, UnbondingRequested}, Unbonding)
    /\ \E h \in minedAt[d] : unbondingFrom' = [unbondingFrom EXCEPT ![d] = h]

StakingExpires(d) ==
    /\ highest >= StakingExpiry(d)
    /\ Move(d, {Active}, Unbonded)
    /\ UNCHANGED unbondingFrom

(* The timelock was over for one of the blocks that held the transaction,  *)
(* not always for the recorded one: an entry queued before a restart keeps *)
(* the height of a block that was undone since.                            *)
UnbondingExpires(d) ==
    /\ \E h \in minedAt[d] : highest >= h + UnbondingTime[d]
    /\ Move(d, {Unbonding}, Unbonded)
    /\ UNCHANGED unbondingFrom

(* A delegation with a recorded unbonding transaction may be withdrawn     *)
(* because that transaction was undone.                                    *)
Withdraw(d) ==
    /\ d \in everGone \/ unbondingFrom[d] # 0
    /\ Move(d, {Unbonded}, Withdrawn)
    /\ UNCHANGED unbondingFrom

LifecycleNext ==
    \E d \in Delegations :
        \/ Request(d)
        \/ StartUnbonding(d)
        \/ StakingExpires(d)
        \/ UnbondingExpires(d)
        \/ Withdraw(d)

Next ==
    \/ HistoryNext /\ UNCHANGED lifecycleVars
    \/ LifecycleNext /\ UNCHANGED historyVars

Spec == Init /\ [][Next]_<<historyVars, lifecycleVars>>

=============================================================================
