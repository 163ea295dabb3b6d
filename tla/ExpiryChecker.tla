--------------------------- MODULE ExpiryChecker ----------------------------
(***************************************************************************)
(* The service as a whole (RunUntilShutdown in internal/services): two     *)
(* pollers, two event handlers and any number of watchers, each a          *)
(* goroutine, over one database and one view of the chain.  A step is one  *)
(* step of one of them.  A restart loses everything but the database.      *)
(***************************************************************************)
EXTENDS ExpiryPoller, SubscriberPoller, DelegationHandlers

CONSTANT MaxRestarts      \* bound: how often the service is restarted

ASSUME RestartAssumption == MaxRestarts \in Nat

VARIABLE restarts

memoryVars == <<expiryVars, watcherVars, subscriberVars, handlerVars>>

vars == <<chainVars, storeVars, memoryVars, restarts>>

MemoryInit ==
    /\ ExpiryInit
    /\ WatcherInit
    /\ SubscriberInit
    /\ HandlerInit

Init ==
    /\ ChainInit
    /\ StoreInit
    /\ MemoryInit
    /\ restarts = 0

-----------------------------------------------------------------------------
(* The steps of each party, with what they leave alone.                    *)

Chain == ChainNext /\ UNCHANGED <<storeVars, memoryVars, restarts>>

Api == ApiNext /\ UNCHANGED <<chainVars, memoryVars, restarts>>

Expiry ==
    /\ ExpiryProgress
    /\ UNCHANGED <<chainVars, watcherVars, subscriberVars, handlerVars, restarts>>

ExpiryFails ==
    /\ ExpiryFault
    /\ UNCHANGED <<chainVars, watcherVars, subscriberVars, handlerVars, restarts>>

Subscriber ==
    /\ SubscriberProgress
    /\ UNCHANGED <<chainVars, storeVars, expiryVars, handlerVars, restarts>>

SubscriberFails ==
    /\ SubscriberFault
    /\ UNCHANGED <<chainVars, storeVars, expiryVars, handlerVars, restarts>>

Watch(d) ==
    /\ WatcherProgress(d)
    /\ UNCHANGED <<chainVars, storeVars, expiryVars, subscriberVars,
                   handlerVars, restarts>>

WatcherFails ==
    /\ \E d \in Delegations, output \in Output : WatcherFault(d, output)
    /\ UNCHANGED <<chainVars, storeVars, expiryVars, subscriberVars,
                   handlerVars, restarts>>

UnbondingHandler ==
    /\ UnbondingProgress
    /\ UNCHANGED <<chainVars, expiryVars, subscriberVars, restarts>>

WithdrawnHandler ==
    /\ WithdrawnProgress
    /\ UNCHANGED <<chainVars, expiryVars, subscriberVars, restarts>>

HandlerFails ==
    /\ UnbondingFault \/ WithdrawnFault
    /\ UNCHANGED <<chainVars, expiryVars, subscriberVars, restarts>>

(* NewService: what the process holds in memory starts from nothing. *)
MemoryLost ==
    /\ EndExpiryPoll
    /\ watchers' = [w \in Watcher |-> 0]
    /\ unbondingChan' = <<>>
    /\ withdrawnChan' = <<>>
    /\ EndSubscriberPoll
    /\ trackedSubs' = {}
    /\ EndUnbonding
    /\ withdrawing' = {}

(* The process ends at any point, or is stopped, and is started again. *)
Restart ==
    /\ restarts < MaxRestarts
    /\ restarts' = restarts + 1
    /\ MemoryLost
    /\ UNCHANGED <<chainVars, storeVars>>

Next ==
    \/ Chain
    \/ Api
    \/ Expiry
    \/ ExpiryFails
    \/ Subscriber
    \/ SubscriberFails
    \/ \E d \in Delegations : Watch(d)
    \/ WatcherFails
    \/ UnbondingHandler
    \/ WithdrawnHandler
    \/ HandlerFails
    \/ Restart

Spec == Init /\ [][Next]_vars

(* Every goroutine that can take a step does so in the end: tickers fire,  *)
(* calls return and the scheduler is fair.  Blocks, requests, faults and   *)
(* restarts may or may not come.                                           *)
Fairness ==
    /\ WF_vars(Expiry)
    /\ WF_vars(Subscriber)
    /\ \A d \in Delegations : WF_vars(Watch(d))
    /\ WF_vars(UnbondingHandler)
    /\ WF_vars(WithdrawnHandler)

FairSpec == Spec /\ Fairness

(* Faults pass: a call that is made again and again is answered in the     *)
(* end.  A poller repeats at its next tick the call that failed; nobody    *)
(* repeats one of a watcher or of the unbonding handler, of which no more  *)
(* is asked than that they go on.                                          *)
RetryFairness ==
    /\ \A pc \in ExpiryPc : SF_vars(Expiry /\ expiryPc = pc)
    /\ \A pc \in SubscriberPc : SF_vars(Subscriber /\ subscriberPc = pc)
    /\ \A d \in Delegations : WF_vars(Watch(d))
    /\ WF_vars(UnbondingHandler)
    /\ SF_vars(WithdrawnHandler /\ withdrawing = {})
    /\ SF_vars(WithdrawnHandler /\ withdrawing # {})

RetrySpec == Spec /\ RetryFairness

-----------------------------------------------------------------------------

(* Every variable has its type; no channel holds more than its capacity. *)
TypeOK ==
    /\ ChainTypeOK
    /\ StoreTypeOK
    /\ ExpiryTypeOK
    /\ WatcherTypeOK
    /\ SubscriberTypeOK
    /\ HandlerTypeOK
    /\ restarts \in Nat

(* A delegation is unbonded no earlier than its funds are: its staking     *)
(* timelock is over, or its unbonding transaction is on the chain and the  *)
(* timelock of that one is over.                                           *)
UnbondedAfterExpiry ==
    \A d \in Delegations :
        delegations[d].state \in {Unbonded, Withdrawn} =>
            \/ tip >= StakingExpiry(d)
            \/ /\ stakingSpend[d].path = "unbonding"
               /\ tip >= UnbondingExpiry(d)

(* A delegation is withdrawn only when its funds have left the outputs of  *)
(* its staking and unbonding transactions, however late, duplicated or     *)
(* interleaved with a restart the events are.                              *)
WithdrawnOnlyIfGone ==
    \A d \in Delegations :
        delegations[d].state = Withdrawn => OutputGone(d)

(* The unbonding transaction a delegation carries is the one on the chain, *)
(* with the height it was mined at.                                        *)
UnbondingTxOnChain ==
    \A d \in Delegations :
        delegations[d].unbondingTx # NoUnbondingTx =>
            /\ stakingSpend[d].path = "unbonding"
            /\ delegations[d].unbondingTx =
                  [startHeight |-> stakingSpend[d].height,
                   timelock |-> UnbondingTime[d]]

(* The entry that will end the timelock of d. *)
Queued(d, txType, height) ==
    \E t \in timelockQueue :
        t.hash = d /\ t.txType = txType /\ t.expireHeight = height

(* An active delegation never loses the entry that will unbond it, whatever *)
(* fails between the update of the delegation and the deletion.            *)
ActiveHasTimelock ==
    \A d \in Delegations :
        delegations[d].state = Active =>
            Queued(d, ActiveTxType, StakingExpiry(d))

(* A delegation that is unbonding has the entry that will unbond it, for   *)
(* as long as that entry has not expired.                                  *)
UnbondingHasTimelock ==
    \A d \in Delegations :
        delegations[d].state = Unbonding /\ tip < UnbondingExpiry(d) =>
            Queued(d, UnbondingTxType, UnbondingExpiry(d))

(* The poller still finds in the queue what it has to delete, so that      *)
(* DeleteExpiredDelegation never reports a missing document.               *)
BatchIsQueued ==
    expiredBatch \cup current \subseteq timelockQueue

(* No output is watched twice, although the subscriber poller, the staking *)
(* watchers and the service's restarts all start watchers.                 *)
OneWatcherPerOutput ==
    \A d \in Delegations, output \in Output :
        watchers[<<d, output, "registering">>]
          + watchers[<<d, output, "watching">>] <= 1

(* What a handler has read of a delegation still holds when it writes:     *)
(* the update finds the delegation in an eligible state, although the API, *)
(* the expiry poller and repeated events come between the two calls.       *)
HandledIsEligible ==
    /\ \A event \in unbondingEvent :
          delegations[event.hash].state = UnbondingRequested
    /\ \A d \in withdrawing : delegations[d].state = Unbonded

UnbondingEntries(d) ==
    {t \in timelockQueue : t.hash = d /\ t.txType = UnbondingTxType}

(* InsertOne writes an entry each time an unbonding is handled, and nothing *)
(* in the database keeps two of one delegation apart; still no more than   *)
(* one is written in each life of the process.                             *)
UnbondingEntriesBounded ==
    \A d \in Delegations : Cardinality(UnbondingEntries(d)) <= 1 + restarts

(* The funds of d are in neither of its outputs any more, whatever path    *)
(* they took: there is nothing left to watch.                              *)
SpentForGood(d) ==
    \/ stakingSpend[d].path \in {"timelock", "slashing"}
    \/ unbondingSpend[d] # NoSpend

IsWatched(d, output) ==
    \E stage \in Stage : watchers[<<d, output, stage>>] > 0

(* The unbonding of d has been reported and is not handled yet. *)
UnbondingReported(d) ==
    \/ \E i \in 1 .. Len(unbondingChan) : unbondingChan[i].hash = d
    \/ \E event \in unbondingEvent : event.hash = d

(* A tracked delegation is never polled again, so the one watcher it got   *)
(* must not be lost on its way from output to output, and neither may the  *)
(* event of a requested unbonding between watcher, channel and handler.    *)
(* Failing calls do lose both.                                             *)
NoSpendIsLost ==
    ~ FaultsAllowed =>
        \A d \in trackedSubs :
            /\ SpentForGood(d) \/ \E output \in Output : IsWatched(d, output)
            /\ delegations[d].state = UnbondingRequested =>
                  \/ stakingSpend[d].path \in {"timelock", "slashing"}
                  \/ IsWatched(d, "staking")
                  \/ UnbondingReported(d)

(* The service implements the life of a delegation as the users of the     *)
(* database understand it: every step changes nothing they see, or is one  *)
(* of the steps of DelegationLifecycle.                                    *)
Lifecycle ==
    INSTANCE DelegationLifecycle
        WITH status <- [d \in Delegations |-> delegations[d].state],
             unbondingFrom <- [d \in Delegations |->
                                  delegations[d].unbondingTx.startHeight]

ImplementsLifecycle == Lifecycle!Spec

-----------------------------------------------------------------------------
(* The inductive invariant: what the safety properties above rest on.      *)

(* A spend has a path, and the output of an unbonding transaction is spent *)
(* only when that transaction has spent the staking output.                *)
ChainConsistent ==
    \A d \in Delegations :
        /\ stakingSpend[d].path = "none" => stakingSpend[d] = NoSpend
        /\ unbondingSpend[d].path = "none" => unbondingSpend[d] = NoSpend
        /\ unbondingSpend[d] # NoSpend => stakingSpend[d].path = "unbonding"

(* A timelock document stands for a timelock on the chain. *)
EntryMatchesChain(t) ==
    IF t.txType = ActiveTxType
    THEN t.expireHeight = StakingExpiry(t.hash)
    ELSE /\ stakingSpend[t.hash].path = "unbonding"
         /\ t.expireHeight = UnbondingExpiry(t.hash)

QueueConsistent ==
    /\ \A t \in timelockQueue : EntryMatchesChain(t)
    /\ \A t, u \in timelockQueue : t.id = u.id => t = u

(* The poller works on expired documents; once it is about to delete the   *)
(* entry of a staking timelock, the delegation is not active any more.     *)
PollConsistent ==
    /\ btcTip <= tip
    /\ \A t \in expiredBatch : t.expireHeight <= btcTip
    /\ \A t \in current : t.expireHeight <= btcTip
    /\ expiryPc # "delete" => current = {}
    /\ \A t \in current :
          t.txType = ActiveTxType => delegations[t.hash].state # Active

EventMatchesChain(event) ==
    /\ stakingSpend[event.hash].path = "unbonding"
    /\ event = UnbondingEventFor(event.hash)

(* No event is ahead of the chain, in a channel or with a handler, and the *)
(* unbonding handler has one at a time.                                    *)
EventsConsistent ==
    /\ \A event, other \in unbondingEvent : event = other
    /\ \A i \in 1 .. Len(unbondingChan) : EventMatchesChain(unbondingChan[i])
    /\ \A event \in unbondingEvent : EventMatchesChain(event)
    /\ \A i \in 1 .. Len(withdrawnChan) : OutputGone(withdrawnChan[i])
    /\ \A d \in withdrawing : OutputGone(d)

(* Between the two writes of the unbonding handler the entry is queued, or *)
(* has expired already: then the poller may have consumed it.              *)
SavedBeforeTransition ==
    unbondingPc = "transition" =>
        \A event \in unbondingEvent :
            \/ tip >= UnbondingExpiry(event.hash)
            \/ Queued(event.hash, UnbondingTxType, UnbondingExpiry(event.hash))

UnbondingHasTx ==
    \A d \in Delegations :
        delegations[d].state = Unbonding =>
            /\ stakingSpend[d].path = "unbonding"
            /\ delegations[d].unbondingTx.startHeight = stakingSpend[d].height

(* A page never shows an unbonding transaction the chain does not have.    *)
PageConsistent ==
    \A doc \in page :
        doc.unbondingTx # NoUnbondingTx =>
            stakingSpend[doc.hash].path = "unbonding"

IInv ==
    /\ TypeOK
    /\ ChainConsistent
    /\ QueueConsistent
    /\ BatchIsQueued
    /\ PollConsistent
    /\ EventsConsistent
    /\ SavedBeforeTransition
    /\ UnbondingHasTx
    /\ UnbondingTxOnChain
    /\ UnbondedAfterExpiry
    /\ WithdrawnOnlyIfGone
    /\ ActiveHasTimelock
    /\ UnbondingHasTimelock
    /\ PageConsistent

-----------------------------------------------------------------------------
(* What must happen in the end, as long as no call fails for good.         *)

(* An active delegation whose staking timelock is over is dealt with, even *)
(* when the service is restarted between two steps of a poll.              *)
ExpiredIsUnbonded ==
    \A d \in Delegations :
        delegations[d].state = Active /\ tip >= StakingExpiry(d)
            ~> delegations[d].state # Active

(* Every expired entry leaves the queue, also one whose delegation is no   *)
(* longer in a state it qualifies for, so that old entries do not fill the *)
(* batches of later ticks.                                                 *)
QueueDrains ==
    \A i \in TimelockIds :
        (\E t \in timelockQueue : t.id = i /\ t.expireHeight <= tip)
            ~> ~ \E t \in timelockQueue : t.id = i /\ t.expireHeight <= tip

(* A requested unbonding is noticed once its transaction is on the chain,  *)
(* although the restart of the service may lose the watcher or the event.  *)
RequestedUnbondingNoticed ==
    \A d \in Delegations :
        (/\ delegations[d].state = UnbondingRequested
         /\ stakingSpend[d].path = "unbonding")
            ~> delegations[d].state # UnbondingRequested

(* The funds of d were taken after one of its timelocks. *)
WithdrawnOnChain(d) ==
    "timelock" \in {stakingSpend[d].path, unbondingSpend[d].path}

(* The withdrawal of a delegation is noticed when it comes after the       *)
(* delegation was marked as unbonded.                                      *)
LateWithdrawalNoticed ==
    \A d \in Delegations :
        [](delegations[d].state = Unbonded /\ ~ WithdrawnOnChain(d)
            => [](WithdrawnOnChain(d) => <>(delegations[d].state = Withdrawn)))

(* A withdrawal that went unnoticed is found after a restart, because the  *)
(* subscriptions are forgotten with the rest of the memory.                *)
UntrackedWithdrawalNoticed ==
    \A d \in Delegations :
        (/\ delegations[d].state = Unbonded
         /\ WithdrawnOnChain(d)
         /\ d \notin trackedSubs)
            ~> delegations[d].state = Withdrawn

(* When the poller finds the unbonding output of an unbonded delegation    *)
(* spent, a failing call costs no more than a tick: it reports the         *)
(* delegation again and again until it is withdrawn.                       *)
SpentOutputIsRetried ==
    \A d \in Delegations :
        (/\ delegations[d].state = Unbonded
         /\ delegations[d].unbondingTx # NoUnbondingTx
         /\ unbondingSpend[d] # NoSpend
         /\ d \notin trackedSubs)
            ~> delegations[d].state = Withdrawn

(* No event keeps a channel full for ever: the watchers and the poller     *)
(* blocked on it go on.                                                    *)
ChannelsDrain ==
    /\ Len(unbondingChan) = ChanCap ~> Len(unbondingChan) < ChanCap
    /\ Len(withdrawnChan) = ChanCap ~> Len(withdrawnChan) < ChanCap

-----------------------------------------------------------------------------
(* What the README says and the code does not do: see the findings.        *)

(* README, key responsibility 1: an unbonding timelock that has expired is *)
(* identified, and the delegation is marked as Unbonded.  Refuted: the     *)
(* entry may be consumed between the two writes of the unbonding handler,  *)
(* and the delegation stays in state unbonding with its funds untouched.   *)
UnbondingIsUnbonded ==
    \A d \in Delegations :
        delegations[d].state = Unbonding /\ tip >= UnbondingExpiry(d)
            ~> \/ delegations[d].state # Unbonding
               \/ unbondingSpend[d] # NoSpend

(* README, key responsibility 1, for a staking timelock that runs out while *)
(* unbonding is requested.  Refuted: the entry is deleted without effect.  *)
RequestedIsUnbonded ==
    \A d \in Delegations :
        delegations[d].state = UnbondingRequested /\ tip >= StakingExpiry(d)
            ~> \/ delegations[d].state # UnbondingRequested
               \/ stakingSpend[d] # NoSpend

(* README, key responsibility 3: a withdrawal is noticed.  Refuted: an     *)
(* event that comes before the delegation is unbonded is dropped, and the  *)
(* delegation stays tracked.                                               *)
WithdrawalNoticed ==
    \A d \in Delegations :
        delegations[d].state = Unbonded /\ WithdrawnOnChain(d)
            ~> delegations[d].state = Withdrawn

(* README, key responsibility 3: withdrawn means spent through a timelock  *)
(* path.  Refuted: the subscriber poller does not look at the spending     *)
(* transaction of an unbonding output that is spent already.               *)
WithdrawnByTimelock ==
    \A d \in Delegations :
        delegations[d].state = Withdrawn => WithdrawnOnChain(d)

=============================================================================
