--------------------------- MODULE SpendWatchers ----------------------------
(***************************************************************************)
(* The goroutines that wait for the notifier to report the spend of a      *)
(* staking or an unbonding output, classify the spending transaction and   *)
(* push an event to one of the two buffered channels                       *)
(* (internal/services/watch_btc_events.go).  The service only ever starts  *)
(* watchers; one ends with the spend it waited for, or with an error.      *)
(***************************************************************************)
EXTENDS DelegationStore, Sequences

CONSTANT ChanCap        \* capacity of each event channel (100 in the code)

ASSUME ChannelAssumption == ChanCap \in Nat \ {0}

VARIABLES
    watchers,       \* how many watchers of each kind and stage there are
    unbondingChan,  \* unbondingDelegationChan
    withdrawnChan   \* withdrawnDelegationChan

watcherVars == <<watchers, unbondingChan, withdrawnChan>>

Output  == {"staking", "unbonding"}
Stage   == {"registering", "watching"}
Watcher == Delegations \X Output \X Stage

UnbondingEvent == [hash : Delegations, startHeight : Nat, timelock : Nat]

WatcherTypeOK ==
    /\ watchers \in [Watcher -> Nat]
    /\ unbondingChan \in Seq(UnbondingEvent)
    /\ withdrawnChan \in Seq(Delegations)
    /\ Len(unbondingChan) <= ChanCap
    /\ Len(withdrawnChan) <= ChanCap

WatcherInit ==
    /\ watchers = [w \in Watcher |-> 0]
    /\ unbondingChan = <<>>
    /\ withdrawnChan = <<>>

-----------------------------------------------------------------------------

SpendOf(d, output) ==
    IF output = "staking" THEN stakingSpend[d] ELSE unbondingSpend[d]

(* The watchers once one at w has ended. *)
Ended(w) == [watchers EXCEPT ![w] = @ - 1]

(* The watchers once a new one has been started for an output of d. *)
Started(all, d, output) ==
    [all EXCEPT ![<<d, output, "registering">>] = @ + 1]

(* PushOrQuit on either channel: the caller waits while the channel is full. *)
PushUnbonding(event) ==
    /\ Len(unbondingChan) < ChanCap
    /\ unbondingChan' = Append(unbondingChan, event)

(* Faulty variant: the channel grows without bound. *)
PushWithdrawn_Unbounded(d) == withdrawnChan' = Append(withdrawnChan, d)

PushWithdrawn(d) ==
    /\ Len(withdrawnChan) < ChanCap
    /\ withdrawnChan' = Append(withdrawnChan, d)

(* RegisterSpendNtfn returns; a spend already on the chain is reported too. *)
RegisterSpendNtfn(d, output) ==
    /\ watchers[<<d, output, "registering">>] > 0
    /\ watchers' = [Ended(<<d, output, "registering">>) EXCEPT
                        ![<<d, output, "watching">>] = @ + 1]
    /\ UNCHANGED <<unbondingChan, withdrawnChan>>

(* A watcher receives the spend of its output. *)
Notified(d, output) ==
    /\ watchers[<<d, output, "watching">>] > 0
    /\ SpendOf(d, output) # NoSpend

(* Faulty variant: the timelock starts at the height the staking            *)
(* transaction was mined at.                                                *)
UnbondingEventFor_StakingHeight(d) ==
    [hash |-> d, startHeight |-> StakingStart[d], timelock |-> UnbondingTime[d]]

UnbondingEventFor(d) ==
    [hash |-> d, startHeight |-> stakingSpend[d].height,
     timelock |-> UnbondingTime[d]]

(* What the checks of scripts, parameters and witnesses find; the chain    *)
(* model says which path the spending transaction took.                    *)
IsValidUnbondingTx(d) == stakingSpend[d].path = "unbonding"

(* Faulty variant: the output of the unbonding transaction is not watched. *)
StakingSpentByUnbonding_NoWatch(d) ==
    /\ Notified(d, "staking")
    /\ IsValidUnbondingTx(d)
    /\ PushUnbonding(UnbondingEventFor(d))
    /\ watchers' = Ended(<<d, "staking", "watching">>)
    /\ UNCHANGED withdrawnChan

(* The spend is a valid unbonding transaction: hand it over, then watch    *)
(* its output.                                                             *)
StakingSpentByUnbonding(d) ==
    /\ Notified(d, "staking")
    /\ IsValidUnbondingTx(d)
    /\ PushUnbonding(UnbondingEventFor(d))
    /\ watchers' = Started(Ended(<<d, "staking", "watching">>), d, "unbonding")
    /\ UNCHANGED withdrawnChan

(* Faulty variant: any spend counts as a withdrawal. *)
IsWithdrawal_AnyPath(d, output) == SpendOf(d, output).path # "none"

(* validateWithdrawalTxFromStaking and validateWithdrawalTxFromUnbonding. *)
IsWithdrawal(d, output) == SpendOf(d, output).path = "timelock"

SpentByTimelock(d, output) ==
    /\ Notified(d, output)
    /\ IsWithdrawal(d, output)
    /\ PushWithdrawn(d)
    /\ watchers' = Ended(<<d, output, "watching">>)
    /\ UNCHANGED unbondingChan

(* Neither kind of transaction (an invalid unbonding transaction, or one   *)
(* that takes the slashing path): counted in a metric and forgotten.       *)
SpentOtherwise(d, output) ==
    /\ Notified(d, output)
    /\ SpendOf(d, output).path = "slashing"
    /\ watchers' = Ended(<<d, output, "watching">>)
    /\ UNCHANGED <<unbondingChan, withdrawnChan>>

(* The registration fails, or a query made while handling the spend does:  *)
(* the watcher logs the error and is gone; nothing starts another.         *)
WatcherFault(d, output) ==
    /\ FaultsAllowed
    /\ \E stage \in Stage :
          /\ watchers[<<d, output, stage>>] > 0
          /\ stage = "watching" => SpendOf(d, output) # NoSpend
          /\ watchers' = Ended(<<d, output, stage>>)
    /\ UNCHANGED <<unbondingChan, withdrawnChan>>

WatcherProgress(d) ==
    \/ StakingSpentByUnbonding(d)
    \/ \E output \in Output :
          \/ RegisterSpendNtfn(d, output)
          \/ SpentByTimelock(d, output)
          \/ SpentOtherwise(d, output)

=============================================================================
