--------------------------- MODULE SubscriberScan ---------------------------
(***************************************************************************)
(* The subscriber poller alone, after a restart, over a database of many   *)
(* delegations: what the pages of one poll cover while the API and the     *)
(* other goroutines move delegations into and out of the states it scans   *)
(* for.  The rest of the service is reduced to what it does to those       *)
(* states; what becomes of a watcher is left out, since no poll ever looks *)
(* at one (ExpiryChecker has them).                                        *)
(***************************************************************************)
EXTENDS SubscriberPoller

VARIABLES
    waiting,    \* history: the delegations to watch when the poll began
    reported    \* history: those whose withdrawal has been reported

scanVars == <<waiting, reported>>

vars == <<chainVars, storeVars, watcherVars, subscriberVars, scanVars>>

(* Nothing unbonding; its timelock over, its output spent or not. *)
NotUnbonding == {[state |-> s, unbondingTx |-> NoUnbondingTx] :
                    s \in {Active, UnbondingRequested, Unbonded}}

TxAtStart(d) == [startHeight |-> StakingStart[d], timelock |-> UnbondingTime[d]]

(* What the database may hold when the service starts: each delegation     *)
(* before or after its unbonding, and in the latter case with an output    *)
(* that is still there or was withdrawn while the service was down.        *)
Init ==
    /\ tip = StartTip
    /\ \E unbonded \in SUBSET Delegations, spent \in SUBSET Delegations :
          /\ spent \subseteq unbonded
          /\ stakingSpend = [d \in Delegations |->
                IF d \in unbonded
                THEN [path |-> "unbonding", height |-> StakingStart[d]]
                ELSE NoSpend]
          /\ unbondingSpend = [d \in Delegations |->
                IF d \in spent
                THEN [path |-> "timelock", height |-> StartTip]
                ELSE NoSpend]
          /\ \E others \in [Delegations \ unbonded -> NotUnbonding] :
                delegations = [d \in Delegations |->
                    IF d \in unbonded
                    THEN [state |-> Unbonded, unbondingTx |-> TxAtStart(d)]
                    ELSE others[d]]
    /\ timelockQueue = {}
    /\ WatcherInit
    /\ SubscriberInit
    /\ waiting = {}
    /\ reported = {}

ToWatch == {d \in Delegations : delegations[d].state \in StatesToWatch}

-----------------------------------------------------------------------------

(* The first page of a poll is where its obligations are noted. *)
StartOrContinueScan ==
    /\ FetchPage
    /\ waiting' = IF subscriberPc = "idle" THEN ToWatch ELSE waiting
    /\ UNCHANGED <<chainVars, storeVars, reported>>

ProcessDocument ==
    \E doc \in page :
        /\ \/ SkipTracked(doc) /\ UNCHANGED reported
           \/ ReportSpentOutput(doc) /\ reported' = reported \cup {doc.hash}
           \/ WatchUnbondingOutput(doc) /\ UNCHANGED reported
           \/ WatchStakingOutput(doc) /\ UNCHANGED reported
        /\ UNCHANGED <<chainVars, storeVars, waiting>>

(* A poll that fails owes nothing: the next tick starts over. *)
FailScan ==
    /\ SubscriberFault
    /\ waiting' = {}
    /\ UNCHANGED <<chainVars, storeVars, reported>>

(* The API takes a request, or the expiry poller unbonds a delegation. *)
JoinsMeanwhile ==
    /\ \E d \in Delegations :
          \/ ApiTransition(d, UnbondingRequested)
          \/ /\ delegations' = TransitionToUnbondedState(
                                   d, QualifiedStatesToUnbonded(ActiveTxType))
             /\ UNCHANGED timelockQueue
    /\ UNCHANGED <<chainVars, watcherVars, subscriberVars, scanVars>>

(* The withdrawn handler takes an event and marks its delegation. *)
LeavesMeanwhile ==
    /\ withdrawnChan # <<>>
    /\ delegations' = TransitionToWithdrawnState(
                          Head(withdrawnChan), QualifiedStatesToWithdraw)
    /\ withdrawnChan' = Tail(withdrawnChan)
    /\ UNCHANGED <<chainVars, timelockQueue, watchers, unbondingChan,
                   subscriberVars, scanVars>>

Next ==
    \/ StartOrContinueScan
    \/ ProcessDocument
    \/ FailScan
    \/ JoinsMeanwhile
    \/ LeavesMeanwhile

Spec == Init /\ [][Next]_vars

-----------------------------------------------------------------------------

(* A poll that ends without an error has missed nothing: every delegation  *)
(* that waited for a spend when it began is subscribed to, or its          *)
(* withdrawal has been reported, on whichever page it was.                 *)
ScanCoversWaiting ==
    subscriberPc = "idle" => waiting \subseteq trackedSubs \cup reported

=============================================================================
