---------------------------- MODULE BitcoinChain ----------------------------
(***************************************************************************)
(* The part of Bitcoin the service observes through its RPC client and its *)
(* chain notifier: the height of the best block and, for each delegation,  *)
(* the transaction that spends its staking output and the one that spends  *)
(* the output of its unbonding transaction.  Bitcoin is not in this        *)
(* repository; the consensus rule kept here is the relative timelock, which *)
(* is what the service's expiry heights stand for.  The blocks of this     *)
(* module stay; ExpiryCheckerReorg has the step that undoes one.           *)
(***************************************************************************)
EXTENDS DelegationStates, Naturals

CONSTANTS
    StakingStart,    \* height of the block holding each staking transaction
    StakingTime,     \* staking timelock of each delegation, in blocks
    UnbondingTime,   \* unbonding timelock of the parameters it was staked under
    StartTip,        \* height of the best block when the service is deployed
    MaxTip           \* bound: no block is mined above this height

ASSUME ChainAssumption ==
    /\ StakingStart \in [Delegations -> Nat]
    /\ StakingTime \in [Delegations -> Nat]
    /\ UnbondingTime \in [Delegations -> Nat]
    /\ StartTip \in Nat
    /\ MaxTip \in Nat

VARIABLES
    tip,              \* height of the best block
    stakingSpend,     \* the spend of each staking output
    unbondingSpend    \* the spend of each unbonding transaction's output

chainVars == <<tip, stakingSpend, unbondingSpend>>

SpendPath == {"none", "unbonding", "timelock", "slashing"}
Spend     == [path : SpendPath, height : Nat]
NoSpend   == [path |-> "none", height |-> 0]

StakingExpiry(d) == StakingStart[d] + StakingTime[d]

(* The first height at which the unbonding output's timelock path opens. *)
UnbondingExpiry(d) == stakingSpend[d].height + UnbondingTime[d]

ChainTypeOK ==
    /\ tip \in Nat
    /\ stakingSpend \in [Delegations -> Spend]
    /\ unbondingSpend \in [Delegations -> Spend]

ChainInit ==
    /\ tip = StartTip
    /\ stakingSpend = [d \in Delegations |-> NoSpend]
    /\ unbondingSpend = [d \in Delegations |-> NoSpend]

-----------------------------------------------------------------------------

NextBlock == tip < MaxTip /\ tip' = tip + 1

MineEmptyBlock ==
    /\ NextBlock
    /\ UNCHANGED <<stakingSpend, unbondingSpend>>

(* The next block spends the staking output of d.  The timelock path opens *)
(* once StakingTime blocks have been built on the staking transaction.     *)
MineStakingSpend(d, path) ==
    /\ stakingSpend[d] = NoSpend
    /\ path = "timelock" => tip + 1 >= StakingExpiry(d)
    /\ NextBlock
    /\ stakingSpend' = [stakingSpend EXCEPT
                            ![d] = [path |-> path, height |-> tip + 1]]
    /\ UNCHANGED unbondingSpend

(* The next block spends the only output of d's unbonding transaction. *)
MineUnbondingSpend(d, path) ==
    /\ stakingSpend[d].path = "unbonding"
    /\ unbondingSpend[d] = NoSpend
    /\ path = "timelock" => tip + 1 >= UnbondingExpiry(d)
    /\ NextBlock
    /\ unbondingSpend' = [unbondingSpend EXCEPT
                              ![d] = [path |-> path, height |-> tip + 1]]
    /\ UNCHANGED stakingSpend

ChainNext ==
    \/ MineEmptyBlock
    \/ \E d \in Delegations :
          \/ \E path \in {"unbonding", "timelock", "slashing"} :
                MineStakingSpend(d, path)
          \/ \E path \in {"timelock", "slashing"} :
                MineUnbondingSpend(d, path)

(* The funds of d have left the outputs the service tracks. *)
OutputGone(d) ==
    stakingSpend[d].path = "timelock" \/ unbondingSpend[d].path # "none"

=============================================================================
