--------------------- MODULE ExpiryCheckerHandlerProofs ---------------------
(***************************************************************************)
(* The handlers of ExpiryChecker never write on the strength of a state    *)
(* that is out of date.  The argument: the poller subscribes to no active  *)
(* delegation and none becomes active again, so an unbonding event is      *)
(* accepted for a requested unbonding only, and this state only the        *)
(* handler itself ends; an unbonded delegation is ended by the other one.  *)
(* The second part bounds what the unbonding handler writes to the queue   *)
(* by the number of lives of the process; the third shows what the events  *)
(* of the handlers leave for a poll to find; the fourth that no watcher    *)
(* and no event is lost as long as no call fails.                          *)
(***************************************************************************)
EXTENDS ExpiryCheckerRefinement, ScanCoverage, FiniteSetTheorems

USE DEF Active, UnbondingRequested, Unbonding, Unbonded, Withdrawn,
        Transitioned, ActiveTxType, UnbondingTxType

(* No active delegation is tracked, on a page or in an event. *)
NoneActive ==
    /\ \A d \in trackedSubs : delegations[d].state # Active
    /\ \A doc \in page : delegations[doc.hash].state # Active
    /\ \A i \in 1 .. Len(unbondingChan) :
          delegations[unbondingChan[i].hash].state # Active

-----------------------------------------------------------------------------

(* The four ways a step touches the documents. *)
LEMMA DocumentChanges ==
    ASSUME [Next]_storeVars
    PROVE  \/ UNCHANGED delegations
           \/ ApiNext
           \/ \E t \in expiredBatch :
                 delegations' = TransitionToUnbondedState(
                                    t.hash, QualifiedStatesToUnbonded(t.txType))
           \/ \E event \in unbondingEvent :
                 delegations' = TransitionToUnbondingState(
                                    event.hash, event.startHeight, event.timelock)
           \/ \E d \in withdrawing :
                 delegations' = TransitionToWithdrawnState(
                                    d, QualifiedStatesToWithdraw)
<1>1. CASE Expiry \/ ExpiryFails
  BY <1>1
     DEF Expiry, ExpiryFails, ExpiryProgress, ExpiryTick,
         FindExpiredDelegations, TransitionExpired, DeleteExpired,
         ExpiryFault, storeVars
<1>2. CASE UnbondingHandler \/ WithdrawnHandler \/ HandlerFails
  BY <1>2
     DEF UnbondingHandler, WithdrawnHandler, HandlerFails, UnbondingProgress,
         UnbondingFault, WithdrawnProgress, WithdrawnFault, AcceptUnbonding,
         DropUnbonding, SaveUnbondingExpiry, StartUnbonding, AcceptWithdrawn,
         DropWithdrawn, Withdraw, storeVars
<1>3. CASE UNCHANGED storeVars
  BY <1>3 DEF storeVars
<1> QED
  BY <1>1, <1>2, <1>3
     DEF Next, Chain, Api, Subscriber,
         SubscriberFails, Watch, WatcherFails, Restart

LEMMA StaysInactive ==
    ASSUME TypeOK, [Next]_vars, NEW d \in Delegations,
           delegations[d].state # Active
    PROVE  delegations'[d].state # Active
<1>1. StoreTypeOK
  BY DEF TypeOK
<1>2. CASE ApiNext
  BY <1>1, <1>2 DEF ApiNext, ApiTransition, StoreTypeOK, DelegationDocument
<1>3. CASE \E t \in expiredBatch :
              delegations' = TransitionToUnbondedState(
                                 t.hash, QualifiedStatesToUnbonded(t.txType))
  BY <1>1, <1>3, TypeFacts, TransitionEffect DEF TransitionToUnbondedState
<1>4. CASE \E event \in unbondingEvent :
              delegations' = TransitionToUnbondingState(
                                 event.hash, event.startHeight, event.timelock)
  <2>1. \A event \in unbondingEvent : event.hash \in Delegations
    BY DEF TypeOK, HandlerTypeOK, UnbondingEvent
  <2> QED BY <1>1, <1>4, <2>1, TransitionEffect DEF TransitionToUnbondingState
<1>5. CASE \E e \in withdrawing :
              delegations' = TransitionToWithdrawnState(
                                 e, QualifiedStatesToWithdraw)
  <2>1. \A e \in withdrawing : e \in Delegations
    BY DEF TypeOK, HandlerTypeOK
  <2> QED BY <1>1, <1>5, <2>1, TransitionEffect DEF TransitionToWithdrawnState
<1> QED BY <1>2, <1>3, <1>4, <1>5, DocumentChanges DEF vars

(* What a step adds to the subscriptions and to the page. *)
LEMMA SubscriberAdds ==
    ASSUME TypeOK, [Next]_vars
    PROVE  /\ \A d \in trackedSubs' :
                 d \in trackedSubs \/ \E doc \in page : d = doc.hash
           /\ \/ page' \subseteq page
              \/ \A doc \in page' :
                    /\ doc.hash \in Delegations
                    /\ delegations[doc.hash].state # Active
<1>1. CASE Subscriber \/ SubscriberFails
  <2>1. \A d \in trackedSubs' :
           d \in trackedSubs \/ \E doc \in page : d = doc.hash
    BY <1>1
       DEF Subscriber, SubscriberFails, SubscriberProgress, SubscriberFault,
           FetchPage, SkipTracked, ReportSpentOutput, WatchUnbondingOutput,
           WatchStakingOutput, Track
  <2>2. page' \subseteq page \/ FetchPage
    BY <1>1
       DEF Subscriber, SubscriberFails, SubscriberProgress, SubscriberFault,
           SkipTracked, ReportSpentOutput, WatchUnbondingOutput,
           WatchStakingOutput, DocumentDone, EndSubscriberPoll
  <2>3. CASE FetchPage
    <3>1. PICK S \in SUBSET Delegations :
             /\ S \subseteq Remaining(StatesToWatch, pageToken)
             /\ page' = {[hash |-> d, state |-> delegations[d].state,
                          unbondingTx |-> delegations[d].unbondingTx] : d \in S}
      BY <2>3 DEF FetchPage, IsPage
    <3>2. \A doc \in page' : doc.hash \in S
      BY <3>1
    <3>3. \A d \in S : d \in Delegations /\ delegations[d].state # Active
      BY <3>1 DEF Remaining, StatesToWatch
    <3> QED BY <2>1, <3>2, <3>3
  <2> QED BY <2>1, <2>2, <2>3
<1>2. CASE Restart
  BY <1>2 DEF Restart, MemoryLost, EndSubscriberPoll
<1>3. CASE UNCHANGED subscriberVars
  BY <1>3 DEF subscriberVars
<1> QED
  BY <1>1, <1>2, <1>3
     DEF Next, Chain, Api, Expiry, ExpiryFails, Watch, WatcherFails,
         UnbondingHandler, WithdrawnHandler, HandlerFails, vars, memoryVars

(* What a step does to the channel of the unbonding events. *)
LEMMA UnbondingChanStep ==
    ASSUME TypeOK, WatchersTracked, [Next]_vars
    PROVE  \/ unbondingChan' \in {unbondingChan, <<>>}
           \/ unbondingChan # <<>> /\ unbondingChan' = Tail(unbondingChan)
           \/ \E d \in trackedSubs :
                 unbondingChan' = Append(unbondingChan, UnbondingEventFor(d))
<1>1. CASE \E d \in Delegations : Watch(d)
  <2>1. PICK d \in Delegations : WatcherProgress(d)
    BY <1>1 DEF Watch
  <2>2. CASE StakingSpentByUnbonding(d)
    <3>1. watchers[<<d, "staking", "watching">>] > 0
      BY <2>2 DEF StakingSpentByUnbonding, Notified
    <3>2. Total(watchers, d) > 0
      BY <3>1, Kinds, TotalEnded
    <3>3. d \in trackedSubs
      BY <3>2 DEF WatchersTracked
    <3> QED BY <2>2, <3>3 DEF StakingSpentByUnbonding, PushUnbonding
  <2> QED
    BY <2>1, <2>2
       DEF WatcherProgress, RegisterSpendNtfn, SpentByTimelock, SpentOtherwise
<1>2. CASE UnbondingHandler \/ WithdrawnHandler \/ HandlerFails
  BY <1>2
     DEF UnbondingHandler, WithdrawnHandler, HandlerFails, UnbondingProgress,
         UnbondingFault, WithdrawnProgress, WithdrawnFault, AcceptUnbonding,
         DropUnbonding, ReceiveUnbonding, SaveUnbondingExpiry, StartUnbonding,
         AcceptWithdrawn, DropWithdrawn, Withdraw, watcherVars
<1>3. CASE Subscriber \/ SubscriberFails \/ WatcherFails
  BY <1>3
     DEF Subscriber, SubscriberFails, WatcherFails, SubscriberProgress,
         SubscriberFault, FetchPage, SkipTracked, ReportSpentOutput,
         WatchUnbondingOutput, WatchStakingOutput, WatcherFault, watcherVars
<1>4. CASE Restart
  BY <1>4 DEF Restart, MemoryLost
<1>5. CASE UNCHANGED watcherVars
  BY <1>5 DEF watcherVars
<1> QED
  BY <1>1, <1>2, <1>3, <1>4, <1>5
     DEF Next, Chain, Api, Expiry, ExpiryFails, vars, memoryVars

LEMMA NoneActiveStep ==
    ASSUME TypeOK, WatchersTracked, NoneActive, [Next]_vars
    PROVE  NoneActive'
<1>1. /\ trackedSubs \subseteq Delegations
      /\ \A doc \in page : doc.hash \in Delegations
      /\ unbondingChan \in Seq(UnbondingEvent)
      /\ \A i \in 1 .. Len(unbondingChan) :
            unbondingChan[i].hash \in Delegations
  <2>1. unbondingChan \in Seq(UnbondingEvent)
    BY DEF TypeOK, WatcherTypeOK
  <2>2. \A i \in 1 .. Len(unbondingChan) : unbondingChan[i] \in UnbondingEvent
    BY <2>1, ElementOfSeq
  <2> QED
    BY <2>1, <2>2 DEF TypeOK, SubscriberTypeOK, PageDocument, UnbondingEvent
<1>2. \A d \in trackedSubs' : delegations'[d].state # Active
  BY <1>1, SubscriberAdds, StaysInactive DEF NoneActive
<1>3. \A doc \in page' : delegations'[doc.hash].state # Active
  BY <1>1, SubscriberAdds, StaysInactive DEF NoneActive
<1>4. \A i \in 1 .. Len(unbondingChan) :
         delegations'[unbondingChan[i].hash].state # Active
  BY <1>1, StaysInactive DEF NoneActive
<1>5. \A i \in 1 .. Len(unbondingChan') :
         delegations'[unbondingChan'[i].hash].state # Active
  <2>1. CASE unbondingChan' \in {unbondingChan, <<>>}
    BY <1>4, <2>1
  <2>2. CASE unbondingChan # <<>> /\ unbondingChan' = Tail(unbondingChan)
    <3>1. /\ Len(unbondingChan') = Len(unbondingChan) - 1
          /\ \A i \in 1 .. Len(unbondingChan') :
                unbondingChan'[i] = unbondingChan[i + 1]
      BY <1>1, <2>2, HeadTailProperties
    <3>2. Len(unbondingChan) \in Nat
      BY <1>1, LenProperties
    <3>3. \A i \in 1 .. Len(unbondingChan') : i + 1 \in 1 .. Len(unbondingChan)
      BY <3>1, <3>2
    <3> QED BY <1>4, <3>1, <3>3
  <2>3. ASSUME NEW d \in trackedSubs,
               unbondingChan' = Append(unbondingChan, UnbondingEventFor(d))
        PROVE  \A i \in 1 .. Len(unbondingChan') :
                  delegations'[unbondingChan'[i].hash].state # Active
    <3>1. UnbondingEventFor(d) \in UnbondingEvent
      BY <1>1, ConstantTypes, TypeFacts
         DEF TypeOK, UnbondingEventFor, UnbondingEvent, Spend
    <3>2. delegations'[UnbondingEventFor(d).hash].state # Active
      BY <1>1, StaysInactive DEF NoneActive, UnbondingEventFor
    <3>3. /\ Len(unbondingChan') = Len(unbondingChan) + 1
          /\ \A i \in 1 .. Len(unbondingChan) :
                unbondingChan'[i] = unbondingChan[i]
          /\ unbondingChan'[Len(unbondingChan) + 1] = UnbondingEventFor(d)
      BY <1>1, <2>3, <3>1, AppendProperties
    <3>4. \A i \in 1 .. Len(unbondingChan') :
             i \in 1 .. Len(unbondingChan) \/ i = Len(unbondingChan) + 1
      BY <1>1, <3>3, LenProperties
    <3> QED BY <1>4, <3>2, <3>3, <3>4
  <2> QED BY <2>1, <2>2, <2>3, UnbondingChanStep
<1> QED BY <1>2, <1>3, <1>5 DEF NoneActive

-----------------------------------------------------------------------------

(* The delegations in state s stay in it. *)
Keeps(s) ==
    \A d \in Delegations :
        delegations[d].state = s => delegations'[d].state = s

LEMMA OthersKeep ==
    ASSUME TypeOK, Api \/ Expiry \/ ExpiryFails
    PROVE  Keeps(UnbondingRequested) /\ Keeps(Unbonded)
<1>1. CASE Api
  BY <1>1 DEF Api, ApiNext, ApiTransition, Keeps, TypeOK, StoreTypeOK,
              DelegationDocument
<1>2. CASE Expiry \/ ExpiryFails
  <2>1. \/ UNCHANGED delegations
        \/ \E t \in expiredBatch :
              delegations' = TransitionToUnbondedState(
                                 t.hash, QualifiedStatesToUnbonded(t.txType))
    BY <1>2 DEF Expiry, ExpiryFails, ExpiryProgress, ExpiryTick,
                FindExpiredDelegations, TransitionExpired, DeleteExpired,
                ExpiryFault, storeVars
  <2>2. ASSUME NEW t \in expiredBatch,
               delegations' = TransitionToUnbondedState(
                                  t.hash, QualifiedStatesToUnbonded(t.txType))
        PROVE  Keeps(UnbondingRequested) /\ Keeps(Unbonded)
    <3>1. t.hash \in Delegations
      BY TypeFacts
    <3>2. QualifiedStatesToUnbonded(t.txType) \subseteq {Active, Unbonding}
      BY DEF QualifiedStatesToUnbonded
    <3> QED
      BY <2>2, <3>1, <3>2, TransitionEffect
         DEF TransitionToUnbondedState, Keeps, TypeOK
  <2> QED BY <2>1, <2>2 DEF Keeps
<1> QED BY <1>1, <1>2

LEMMA UnbondingHandlerKeeps ==
    ASSUME TypeOK, NoneActive, HandledIsEligible,
           UnbondingProgress \/ UnbondingFault
    PROVE  /\ Keeps(Unbonded)
           /\ \A event \in unbondingEvent' :
                 delegations'[event.hash].state = UnbondingRequested
           /\ UNCHANGED withdrawing
<1>1. UNCHANGED withdrawing
  BY DEF UnbondingProgress, UnbondingFault, AcceptUnbonding, DropUnbonding,
         SaveUnbondingExpiry, StartUnbonding, handlerVars
<1>2. Keeps(Unbonded)
  <2>1. \/ UNCHANGED delegations
        \/ \E event \in unbondingEvent :
              delegations' = TransitionToUnbondingState(
                                 event.hash, event.startHeight, event.timelock)
    BY DEF UnbondingProgress, AcceptUnbonding, DropUnbonding,
           SaveUnbondingExpiry, StartUnbonding, UnbondingFault, storeVars
  <2>2. ASSUME NEW event \in unbondingEvent,
               delegations' = TransitionToUnbondingState(
                                  event.hash, event.startHeight, event.timelock)
        PROVE  Keeps(Unbonded)
    <3>1. event.hash \in Delegations
      BY DEF TypeOK, HandlerTypeOK, UnbondingEvent
    <3> QED
      BY <2>2, <3>1, TransitionEffect
         DEF TransitionToUnbondingState, QualifiedStatesToUnbonding, Keeps,
             TypeOK
  <2> QED BY <2>1, <2>2 DEF Keeps
<1>3. CASE AcceptUnbonding
  <2>1. unbondingChan \in Seq(UnbondingEvent) /\ unbondingChan # <<>>
    BY <1>3 DEF AcceptUnbonding, ReceiveUnbonding, TypeOK, WatcherTypeOK
  <2>2. Head(unbondingChan) = unbondingChan[1] /\ 1 \in 1 .. Len(unbondingChan)
    BY <2>1, LenProperties, EmptySeq
  <2>3. delegations[Head(unbondingChan).hash].state # Active
    BY <2>2 DEF NoneActive
  <2>4. /\ delegations[Head(unbondingChan).hash].state \in
              QualifiedStatesToUnbonding
        /\ unbondingEvent' = {Head(unbondingChan)}
        /\ delegations' = delegations
    BY <1>3 DEF AcceptUnbonding, storeVars
  <2> QED BY <1>1, <1>2, <2>3, <2>4 DEF QualifiedStatesToUnbonding
<1>4. \/ AcceptUnbonding
      \/ unbondingEvent' = {}
      \/ unbondingEvent' = unbondingEvent /\ UNCHANGED delegations
  BY DEF UnbondingProgress, UnbondingFault, DropUnbonding,
         SaveUnbondingExpiry, StartUnbonding, EndUnbonding, handlerVars,
         storeVars
<1> QED BY <1>1, <1>2, <1>3, <1>4 DEF HandledIsEligible

LEMMA WithdrawnHandlerKeeps ==
    ASSUME TypeOK, HandledIsEligible, WithdrawnProgress \/ WithdrawnFault
    PROVE  /\ Keeps(UnbondingRequested)
           /\ \A d \in withdrawing' : delegations'[d].state = Unbonded
           /\ UNCHANGED unbondingEvent
<1>1. UNCHANGED unbondingEvent
  BY DEF WithdrawnProgress, WithdrawnFault, AcceptWithdrawn, DropWithdrawn,
         Withdraw, handlerVars
<1>2. Keeps(UnbondingRequested)
  <2>1. \/ UNCHANGED delegations
        \/ \E d \in withdrawing :
              delegations' = TransitionToWithdrawnState(
                                 d, QualifiedStatesToWithdraw)
    BY DEF WithdrawnProgress, AcceptWithdrawn, DropWithdrawn, Withdraw,
           WithdrawnFault, storeVars
  <2>2. withdrawing \subseteq Delegations
    BY DEF TypeOK, HandlerTypeOK
  <2> QED
    BY <2>1, <2>2, TransitionEffect
       DEF TransitionToWithdrawnState, QualifiedStatesToWithdraw, Keeps, TypeOK
<1>3. CASE AcceptWithdrawn
  BY <1>1, <1>2, <1>3
     DEF AcceptWithdrawn, QualifiedStatesToWithdraw, storeVars
<1>4. \/ AcceptWithdrawn
      \/ withdrawing' = {}
      \/ withdrawing' = withdrawing /\ UNCHANGED delegations
  BY DEF WithdrawnProgress, WithdrawnFault, DropWithdrawn, Withdraw,
         handlerVars, storeVars
<1> QED BY <1>1, <1>2, <1>3, <1>4 DEF HandledIsEligible

LEMMA EligibleStep ==
    ASSUME TypeOK, NoneActive, HandledIsEligible, [Next]_vars
    PROVE  HandledIsEligible'
<1> USE DEF HandledIsEligible
<1>1. /\ \A event \in unbondingEvent : event.hash \in Delegations
      /\ withdrawing \subseteq Delegations
  BY DEF TypeOK, HandlerTypeOK, UnbondingEvent
<1>2. CASE UnbondingProgress \/ UnbondingFault
  BY <1>1, <1>2, UnbondingHandlerKeeps DEF Keeps
<1>3. CASE WithdrawnProgress \/ WithdrawnFault
  BY <1>1, <1>3, WithdrawnHandlerKeeps DEF Keeps
<1>4. CASE Api \/ Expiry \/ ExpiryFails
  <2>1. UNCHANGED <<unbondingEvent, withdrawing>>
    BY <1>4 DEF Api, Expiry, ExpiryFails, memoryVars, handlerVars
  <2> QED BY <1>1, <1>4, <2>1, OthersKeep DEF Keeps
<1>5. CASE Restart
  BY <1>5 DEF Restart, MemoryLost, EndUnbonding
<1>6. CASE UNCHANGED <<delegations, unbondingEvent, withdrawing>>
  BY <1>6
<1> QED
  BY <1>2, <1>3, <1>4, <1>5, <1>6
     DEF Next, Chain, Subscriber, SubscriberFails, Watch, WatcherFails,
         UnbondingHandler, WithdrawnHandler, HandlerFails, vars, memoryVars,
         storeVars, handlerVars

(* The inductive invariant of this module. The chain has no part in it.    *)
HInv == WatchersTracked /\ NoneActive /\ HandledIsEligible

LEMMA HandlersInit == Init => HInv
<1>1. Init => WatchersTracked
  BY TotalOfNone DEF Init, MemoryInit, WatcherInit, WatchersTracked
<1> QED
  BY <1>1 DEF Init, MemoryInit, WatcherInit, SubscriberInit, HandlerInit,
              NoneActive, HandledIsEligible, HInv

LEMMA HandlersStep == TypeOK /\ HInv /\ [Next]_vars => HInv'
  BY WatchersTrackedStep, NoneActiveStep, EligibleStep DEF HInv

(* handleUnbondingDelegation and handleWithdrawnDelegation read a          *)
(* delegation and write it in later calls; whatever the API, the poller    *)
(* and repeated events do in between, the state they have read still holds *)
(* when they write, so the update finds its document.                      *)
THEOREM HandledStaysEligible == Spec => []HandledIsEligible
<1>1. HInv => HandledIsEligible
  BY DEF HInv
<1> QED BY <1>1, HandlersInit, HandlersStep, TypeCorrect, PTL DEF Spec

-----------------------------------------------------------------------------
(* The entries of an unbonding.  In one life of the process a delegation   *)
(* has one ticket for an entry: it is not subscribed to yet, or a watcher  *)
(* of its staking output, an event in the channel, or the event that the   *)
(* handler is about to save holds the ticket.                              *)

Watched(f, d) ==
    \/ f[<<d, "staking", "registering">>] > 0
    \/ f[<<d, "staking", "watching">>] > 0

Pushed(chan, d) == \E i \in 1 .. Len(chan) : chan[i].hash = d

PushedOnce(chan) ==
    \A i, j \in 1 .. Len(chan) : chan[i].hash = chan[j].hash => i = j

Saving(d) ==
    unbondingPc = "save" /\ \E event \in unbondingEvent : event.hash = d

Ticket(d) ==
    \/ d \notin trackedSubs
    \/ Watched(watchers, d)
    \/ Pushed(unbondingChan, d)
    \/ Saving(d)

(* No two hold one. *)
OneTicket ==
    /\ PushedOnce(unbondingChan)
    /\ \A event, other \in unbondingEvent : event = other
    /\ \A d \in Delegations :
          /\ Watched(watchers, d) =>
                /\ d \in trackedSubs
                /\ ~ Pushed(unbondingChan, d)
                /\ ~ Saving(d)
          /\ Pushed(unbondingChan, d) => d \in trackedSubs /\ ~ Saving(d)
          /\ Saving(d) => d \in trackedSubs

(* Each life of the process begins with a ticket, used up or not. *)
TicketsCounted ==
    \A d \in Delegations :
        /\ IsFiniteSet(UnbondingEntries(d))
        /\ Cardinality(UnbondingEntries(d)) + (IF Ticket(d) THEN 1 ELSE 0)
              <= 1 + restarts

TInv == OneTicket /\ TicketsCounted

LEMMA TailPushed ==
    ASSUME NEW chan \in Seq(UnbondingEvent), chan # <<>>, PushedOnce(chan)
    PROVE  /\ PushedOnce(Tail(chan))
           /\ \A d : Pushed(Tail(chan), d) => Pushed(chan, d)
           /\ Pushed(chan, Head(chan).hash)
           /\ ~ Pushed(Tail(chan), Head(chan).hash)
<1>1. /\ Len(chan) \in Nat
      /\ Len(Tail(chan)) = Len(chan) - 1
      /\ \A i \in 1 .. Len(Tail(chan)) : Tail(chan)[i] = chan[i + 1]
  BY HeadTailProperties, LenProperties
<1>2. Head(chan) = chan[1] /\ 1 \in 1 .. Len(chan)
  BY LenProperties, EmptySeq
<1>3. \A i \in 1 .. Len(Tail(chan)) :
         i + 1 \in 1 .. Len(chan) /\ i + 1 # 1 /\ Tail(chan)[i] = chan[i + 1]
  BY <1>1
<1>4. PushedOnce(Tail(chan))
  <2> SUFFICES ASSUME NEW i \in 1 .. Len(Tail(chan)),
                      NEW j \in 1 .. Len(Tail(chan)),
                      Tail(chan)[i].hash = Tail(chan)[j].hash
               PROVE  i = j
    BY DEF PushedOnce
  <2>1. i + 1 = j + 1
    BY <1>3 DEF PushedOnce
  <2> QED BY <2>1
<1>5. \A d : Pushed(Tail(chan), d) => Pushed(chan, d)
  BY <1>3 DEF Pushed
<1>6. Pushed(chan, Head(chan).hash)
  BY <1>2 DEF Pushed
<1>7. ~ Pushed(Tail(chan), Head(chan).hash)
  BY <1>2, <1>3 DEF Pushed, PushedOnce
<1> QED BY <1>4, <1>5, <1>6, <1>7

LEMMA AppendPushed ==
    ASSUME NEW chan \in Seq(UnbondingEvent), NEW event \in UnbondingEvent,
           PushedOnce(chan), ~ Pushed(chan, event.hash)
    PROVE  /\ PushedOnce(Append(chan, event))
           /\ \A d : Pushed(Append(chan, event), d) =>
                        Pushed(chan, d) \/ d = event.hash
<1>1. /\ Len(chan) \in Nat
      /\ Len(Append(chan, event)) = Len(chan) + 1
      /\ \A i \in 1 .. Len(chan) : Append(chan, event)[i] = chan[i]
      /\ Append(chan, event)[Len(chan) + 1] = event
  BY AppendProperties, LenProperties
<1>2. \A i \in 1 .. Len(Append(chan, event)) :
         i \in 1 .. Len(chan) \/ i = Len(chan) + 1
  BY <1>1
<1>3. \A i \in 1 .. Len(chan) : chan[i].hash # event.hash
  BY DEF Pushed
<1>4. PushedOnce(Append(chan, event))
  BY <1>1, <1>2, <1>3 DEF PushedOnce
<1>5. \A d : Pushed(Append(chan, event), d) => Pushed(chan, d) \/ d = event.hash
  BY <1>1, <1>2 DEF Pushed
<1> QED BY <1>4, <1>5

(* A smaller queue, or one that is the same to d, keeps its count.         *)
LEMMA FewerEntries ==
    ASSUME NEW d \in Delegations, IsFiniteSet(UnbondingEntries(d)),
           UnbondingEntries(d)' \subseteq UnbondingEntries(d)
    PROVE  /\ IsFiniteSet(UnbondingEntries(d)')
           /\ Cardinality(UnbondingEntries(d)) \in Nat
           /\ Cardinality(UnbondingEntries(d)') \in Nat
           /\ Cardinality(UnbondingEntries(d)') <= Cardinality(UnbondingEntries(d))
  BY FS_Subset, FS_CardinalityType

(* A step after which no more hold a ticket, and no more is queued.        *)
LEMMA TicketsKept ==
    ASSUME TypeOK, TInv, restarts' = restarts, OneTicket',
           \A d \in Delegations : Ticket(d)' => Ticket(d),
           \A d \in Delegations :
               UnbondingEntries(d)' \subseteq UnbondingEntries(d)
    PROVE  TInv'
<1> SUFFICES ASSUME NEW d \in Delegations
             PROVE  /\ IsFiniteSet(UnbondingEntries(d)')
                    /\ Cardinality(UnbondingEntries(d)')
                          + (IF Ticket(d)' THEN 1 ELSE 0) <= 1 + restarts
  BY DEF TInv, TicketsCounted
<1>1. /\ IsFiniteSet(UnbondingEntries(d)')
      /\ Cardinality(UnbondingEntries(d)) \in Nat
      /\ Cardinality(UnbondingEntries(d)') \in Nat
      /\ Cardinality(UnbondingEntries(d)') <= Cardinality(UnbondingEntries(d))
  BY FewerEntries DEF TInv, TicketsCounted
<1>2. Cardinality(UnbondingEntries(d)) + (IF Ticket(d) THEN 1 ELSE 0)
         <= 1 + restarts
  BY DEF TInv, TicketsCounted
<1>3. restarts \in Nat
  BY DEF TypeOK
<1>4. Ticket(d)' => Ticket(d)
  OBVIOUS
<1>5. CASE Ticket(d)
  BY <1>1, <1>2, <1>3, <1>5
<1>6. CASE ~ Ticket(d)
  BY <1>1, <1>2, <1>3, <1>4, <1>6
<1> QED BY <1>5, <1>6

(* Nobody gets a ticket in this step, though a ticket may be thrown away.  *)
LEMMA NoNewTicket ==
    ASSUME TypeOK, TInv, restarts' = restarts,
           trackedSubs \subseteq trackedSubs',
           \A d \in Delegations : Watched(watchers', d) => Watched(watchers, d),
           \/ UNCHANGED unbondingChan
           \/ unbondingChan # <<>> /\ unbondingChan' = Tail(unbondingChan),
           unbondingEvent' \subseteq unbondingEvent,
           \A d \in Delegations : Saving(d)' => Saving(d),
           \A d \in Delegations :
               UnbondingEntries(d)' \subseteq UnbondingEntries(d)
    PROVE  TInv'
<1>1. unbondingChan \in Seq(UnbondingEvent)
  BY DEF TypeOK, WatcherTypeOK
<1>2. /\ PushedOnce(unbondingChan)
      /\ \A event, other \in unbondingEvent : event = other
      /\ \A d \in Delegations :
            /\ Watched(watchers, d) =>
                  /\ d \in trackedSubs
                  /\ ~ Pushed(unbondingChan, d)
                  /\ ~ Saving(d)
            /\ Pushed(unbondingChan, d) => d \in trackedSubs /\ ~ Saving(d)
            /\ Saving(d) => d \in trackedSubs
  BY DEF TInv, OneTicket
<1>3. /\ PushedOnce(unbondingChan')
      /\ \A d \in Delegations :
            Pushed(unbondingChan', d) => Pushed(unbondingChan, d)
  <2>1. CASE UNCHANGED unbondingChan
    BY <1>2, <2>1
  <2>2. CASE unbondingChan # <<>> /\ unbondingChan' = Tail(unbondingChan)
    <3>1. /\ PushedOnce(Tail(unbondingChan))
          /\ \A d \in Delegations :
                Pushed(Tail(unbondingChan), d) => Pushed(unbondingChan, d)
      BY <1>1, <1>2, <2>2, TailPushed
    <3> QED BY <2>2, <3>1
  <2> QED BY <2>1, <2>2
<1>4. OneTicket'
  BY <1>2, <1>3 DEF OneTicket
<1>5. \A d \in Delegations : Ticket(d)' => Ticket(d)
  BY <1>3 DEF Ticket
<1> QED BY <1>4, <1>5, TicketsKept

(* The watchers of a staking output, when watchers end and start. *)
LEMMA WatchedEnded ==
    ASSUME TypeOK, NEW e \in Delegations, NEW output \in Output,
           NEW stage \in Stage
    PROVE  /\ Ended(<<e, output, stage>>) \in [Watcher -> Int]
           /\ \A d \in Delegations :
                 Watched(Ended(<<e, output, stage>>), d) => Watched(watchers, d)
<1>1. <<e, output, stage>> \in Watcher
  BY DEF Watcher
<1>2. Changed(watchers, Ended(<<e, output, stage>>), <<e, output, stage>>, -1)
  BY <1>1, EndedChanged
<1>3. \A w \in Watcher :
         /\ watchers[w] \in Int
         /\ Ended(<<e, output, stage>>)[w] \in {watchers[w], watchers[w] + (-1)}
  BY <1>2 DEF Changed
<1>4. \A w \in Watcher :
         Ended(<<e, output, stage>>)[w] > 0 => watchers[w] > 0
  BY <1>3
<1>5. ASSUME NEW d \in Delegations,
             Watched(Ended(<<e, output, stage>>), d)
      PROVE  Watched(watchers, d)
  <2>1. /\ <<d, "staking", "registering">> \in Watcher
        /\ <<d, "staking", "watching">> \in Watcher
    BY AllWatchers
  <2> QED BY <1>4, <1>5, <2>1 DEF Watched
<1> QED BY <1>2, <1>5 DEF Changed

LEMMA WatchedStarted ==
    ASSUME NEW f, NEW g, NEW e \in Delegations, NEW output \in Output,
           NEW stage \in Stage, Changed(f, g, <<e, output, stage>>, 1)
    PROVE  \A d \in Delegations :
              Watched(g, d) =>
                 Watched(f, d) \/ (d = e /\ output = "staking")
<1> TAKE d \in Delegations
<1>1. \A w \in Watcher : w # <<e, output, stage>> => g[w] = f[w]
  BY DEF Changed
<1>2. /\ <<d, "staking", "registering">> \in Watcher
      /\ <<d, "staking", "watching">> \in Watcher
  BY AllWatchers
<1>3. CASE d # e \/ output # "staking"
  <2>1. /\ <<d, "staking", "registering">> # <<e, output, stage>>
        /\ <<d, "staking", "watching">> # <<e, output, stage>>
    BY <1>3
  <2>2. /\ g[<<d, "staking", "registering">>] = f[<<d, "staking", "registering">>]
        /\ g[<<d, "staking", "watching">>] = f[<<d, "staking", "watching">>]
    BY <1>1, <1>2, <2>1
  <2> QED BY <2>2 DEF Watched
<1> QED BY <1>3

(* A watcher that holds no event has its ticket, or none. *)
LEMMA WatchedMoves ==
    ASSUME TypeOK, NEW e \in Delegations,
           \/ \E output \in Output :
                 \/ RegisterSpendNtfn(e, output)
                 \/ SpentByTimelock(e, output)
                 \/ SpentOtherwise(e, output)
           \/ \E output \in Output : WatcherFault(e, output)
    PROVE  \A d \in Delegations : Watched(watchers', d) => Watched(watchers, d)
<1>1. CASE \E output \in Output, stage \in Stage :
              watchers' = Ended(<<e, output, stage>>)
  BY <1>1, WatchedEnded
<1>2. ASSUME NEW output \in Output, RegisterSpendNtfn(e, output)
      PROVE  \A d \in Delegations : Watched(watchers', d) => Watched(watchers, d)
  <2>1. /\ watchers[<<e, output, "registering">>] > 0
        /\ watchers' = [Ended(<<e, output, "registering">>) EXCEPT
                           ![<<e, output, "watching">>] = @ + 1]
    BY <1>2 DEF RegisterSpendNtfn
  <2>2. output = "staking" => Watched(watchers, e)
    BY <2>1 DEF Watched
  <2>3. Ended(<<e, output, "registering">>) \in [Watcher -> Int]
    BY Kinds, WatchedEnded
  <2>4. \A d \in Delegations :
           Watched(watchers', d) =>
              \/ Watched(Ended(<<e, output, "registering">>), d)
              \/ d = e /\ output = "staking"
    <3> PICK f : f = Ended(<<e, output, "registering">>)
      OBVIOUS
    <3> PICK g : g = watchers'
      OBVIOUS
    <3>1. Changed(f, g, <<e, output, "watching">>, 1)
      BY <2>1, <2>3, Kinds, StartedChanged DEF Watcher
    <3>2. \A d \in Delegations :
             Watched(g, d) => Watched(f, d) \/ (d = e /\ output = "staking")
      BY <3>1, Kinds, WatchedStarted
    <3> QED BY <3>2
  <2> QED BY <2>2, <2>4, Kinds, WatchedEnded
<1> QED
  BY <1>1, <1>2, Kinds
     DEF SpentByTimelock, SpentOtherwise, WatcherFault

(* A delegation is subscribed to: a watcher gets its ticket. *)
LEMMA TicketSubscribed ==
    ASSUME TypeOK, TInv, NEW doc \in page, WatchStakingOutput(doc),
           UNCHANGED <<storeVars, handlerVars, restarts>>
    PROVE  TInv'
<1>1. /\ doc.hash \in Delegations
      /\ doc.hash \notin trackedSubs
      /\ trackedSubs' = trackedSubs \cup {doc.hash}
      /\ watchers' = [watchers EXCEPT
                         ![<<doc.hash, "staking", "registering">>] = @ + 1]
      /\ UNCHANGED <<unbondingChan, unbondingPc, unbondingEvent, timelockQueue>>
  BY DEF WatchStakingOutput, Track, Started, TypeOK, SubscriberTypeOK,
         PageDocument, storeVars, handlerVars
<1>2. \A d \in Delegations :
         Watched(watchers', d) => Watched(watchers, d) \/ d = doc.hash
  <2>1. watchers \in [Watcher -> Int]
    BY DEF TypeOK, WatcherTypeOK
  <2> PICK output \in Output : output = "staking"
    BY Kinds
  <2> PICK g : g = watchers'
    OBVIOUS
  <2>2. Changed(watchers, g, <<doc.hash, output, "registering">>, 1)
    BY <1>1, <2>1, Kinds, StartedChanged DEF Watcher
  <2>3. \A d \in Delegations :
           Watched(g, d) =>
              Watched(watchers, d) \/ (d = doc.hash /\ output = "staking")
    BY <1>1, <2>2, Kinds, WatchedStarted
  <2> QED BY <2>3
<1>3. \A d \in Delegations : Saving(d)' = Saving(d)
  BY <1>1 DEF Saving
<1>4. OneTicket'
  BY <1>1, <1>2, <1>3 DEF TInv, OneTicket
<1>5. \A d \in Delegations : Ticket(d)' => Ticket(d)
  BY <1>1, <1>2, <1>3 DEF Ticket
<1>6. \A d \in Delegations : UnbondingEntries(d)' \subseteq UnbondingEntries(d)
  BY <1>1 DEF UnbondingEntries
<1> QED BY <1>1, <1>4, <1>5, <1>6, TicketsKept

(* A watcher reports an unbonding: the event takes its ticket over. *)
LEMMA TicketReported ==
    ASSUME TypeOK, WatchersTracked, TInv, NEW e \in Delegations,
           StakingSpentByUnbonding(e),
           UNCHANGED <<storeVars, trackedSubs, handlerVars, restarts>>
    PROVE  TInv'
<1> DEFINE w == <<e, "staking", "watching">>
<1>1. /\ watchers[w] > 0
      /\ watchers' = [Ended(w) EXCEPT
                         ![<<e, "unbonding", "registering">>] = @ + 1]
      /\ unbondingChan' = Append(unbondingChan, UnbondingEventFor(e))
      /\ UNCHANGED <<unbondingPc, unbondingEvent, timelockQueue>>
  BY DEF StakingSpentByUnbonding, Notified, PushUnbonding, Started, storeVars,
         handlerVars
<1>2. Watched(watchers, e)
  BY <1>1 DEF Watched
<1>3. Ended(w) \in [Watcher -> Int]
  BY Kinds, WatchedEnded
<1>4. ~ Watched(Ended(w), e)
  <2>1. Total(watchers, e) = 1
    BY <1>1, Kinds, TotalEnded DEF WatchersTracked
  <2>2. /\ watchers[<<e, "staking", "registering">>] \in Nat
        /\ watchers[<<e, "staking", "watching">>] \in Nat
        /\ watchers[<<e, "unbonding", "registering">>] \in Nat
        /\ watchers[<<e, "unbonding", "watching">>] \in Nat
    BY AllWatchers DEF TypeOK, WatcherTypeOK
  <2>3. /\ watchers[<<e, "staking", "registering">>] = 0
        /\ watchers[<<e, "staking", "watching">>] = 1
    BY <1>1, <2>1, <2>2 DEF Total
  <2>4. /\ Ended(w)[<<e, "staking", "registering">>] =
              watchers[<<e, "staking", "registering">>]
        /\ Ended(w)[<<e, "staking", "watching">>] =
              watchers[<<e, "staking", "watching">>] - 1
    BY AllWatchers DEF Ended, TypeOK, WatcherTypeOK
  <2> QED BY <2>3, <2>4 DEF Watched
<1>5. \A d \in Delegations :
         Watched(watchers', d) => Watched(watchers, d) /\ d # e
  <2>1. \A d \in Delegations : Watched(watchers', d) => Watched(Ended(w), d)
    <3> PICK f : f = Ended(w)
      OBVIOUS
    <3> PICK g : g = watchers'
      OBVIOUS
    <3> PICK output \in Output : output = "unbonding"
      BY Kinds
    <3>1. Changed(f, g, <<e, output, "registering">>, 1)
      BY <1>1, <1>3, Kinds, StartedChanged DEF Watcher
    <3>2. \A d \in Delegations :
             Watched(g, d) => Watched(f, d) \/ (d = e /\ output = "staking")
      BY <3>1, Kinds, WatchedStarted
    <3> QED BY <3>2
  <2> QED BY <1>4, <2>1, Kinds, WatchedEnded
<1>6. /\ PushedOnce(unbondingChan')
      /\ \A d \in Delegations :
            Pushed(unbondingChan', d) => Pushed(unbondingChan, d) \/ d = e
  <2>1. /\ unbondingChan \in Seq(UnbondingEvent)
        /\ UnbondingEventFor(e) \in UnbondingEvent
        /\ UnbondingEventFor(e).hash = e
    BY ConstantTypes, TypeFacts
       DEF UnbondingEventFor, UnbondingEvent, TypeOK, WatcherTypeOK, Spend
  <2>2. PushedOnce(unbondingChan) /\ ~ Pushed(unbondingChan, e)
    BY <1>2 DEF TInv, OneTicket
  <2> QED BY <1>1, <2>1, <2>2, AppendPushed
<1>7. \A d \in Delegations : Saving(d)' = Saving(d)
  BY <1>1 DEF Saving
<1>8. OneTicket'
  BY <1>1, <1>2, <1>5, <1>6, <1>7 DEF TInv, OneTicket
<1>9. \A d \in Delegations : Ticket(d)' => Ticket(d)
  BY <1>2, <1>5, <1>6, <1>7 DEF Ticket
<1>10. \A d \in Delegations : UnbondingEntries(d)' \subseteq UnbondingEntries(d)
  BY <1>1 DEF UnbondingEntries
<1> QED BY <1>8, <1>9, <1>10, TicketsKept

(* The handler accepts an event, and its ticket. *)
LEMMA TicketAccepted ==
    ASSUME TypeOK, TInv, AcceptUnbonding, UNCHANGED <<trackedSubs, restarts>>
    PROVE  TInv'
<1> DEFINE event == Head(unbondingChan)
<1>1. /\ unbondingChan \in Seq(UnbondingEvent)
      /\ unbondingChan # <<>>
      /\ unbondingChan' = Tail(unbondingChan)
      /\ unbondingPc = "idle"
      /\ unbondingEvent' = {event}
      /\ UNCHANGED <<watchers, timelockQueue>>
  BY DEF AcceptUnbonding, ReceiveUnbonding, TypeOK, WatcherTypeOK, storeVars
<1> HIDE DEF event
<1>2. PushedOnce(unbondingChan)
  BY DEF TInv, OneTicket
<1>3. /\ PushedOnce(unbondingChan')
      /\ \A d \in Delegations :
            Pushed(unbondingChan', d) => Pushed(unbondingChan, d)
      /\ Pushed(unbondingChan, event.hash)
      /\ ~ Pushed(unbondingChan', event.hash)
  BY <1>1, <1>2, TailPushed DEF event
<1>4. \A d \in Delegations : Saving(d)' => d = event.hash
  BY <1>1 DEF Saving
<1>5. \A d \in Delegations : ~ Saving(d)
  BY <1>1 DEF Saving
<1>6. /\ \A e1, e2 \in unbondingEvent' : e1 = e2
      /\ UNCHANGED <<watchers, trackedSubs>>
  BY <1>1
<1>7. OneTicket'
  BY <1>3, <1>4, <1>6 DEF TInv, OneTicket
<1>8. \A d \in Delegations : Ticket(d)' => Ticket(d)
  BY <1>3, <1>4, <1>6 DEF Ticket
<1>9. \A d \in Delegations : UnbondingEntries(d)' \subseteq UnbondingEntries(d)
  BY <1>1 DEF UnbondingEntries
<1> QED BY <1>7, <1>8, <1>9, TicketsKept

LEMMA OneEntryMore ==
    ASSUME NEW d, IsFiniteSet(UnbondingEntries(d)), NEW entry,
           UnbondingEntries(d)' \subseteq UnbondingEntries(d) \cup {entry}
    PROVE  /\ IsFiniteSet(UnbondingEntries(d)')
           /\ Cardinality(UnbondingEntries(d)') \in Nat
           /\ Cardinality(UnbondingEntries(d)')
                 <= Cardinality(UnbondingEntries(d)) + 1
<1> PICK S : S = UnbondingEntries(d)
  OBVIOUS
<1> PICK T : T = UnbondingEntries(d)'
  OBVIOUS
<1>1. IsFiniteSet(S) /\ T \subseteq S \cup {entry}
  OBVIOUS
<1>2. /\ IsFiniteSet(S \cup {entry})
      /\ Cardinality(S) \in Nat
      /\ Cardinality(S \cup {entry}) \in Nat
      /\ Cardinality(S \cup {entry}) \in {Cardinality(S), Cardinality(S) + 1}
  BY <1>1, FS_AddElement, FS_CardinalityType
<1>3. /\ IsFiniteSet(T)
      /\ Cardinality(T) \in Nat
      /\ Cardinality(T) <= Cardinality(S \cup {entry})
  BY <1>1, <1>2, FS_Subset, FS_CardinalityType
<1>4. Cardinality(T) <= Cardinality(S) + 1
  BY <1>2, <1>3
<1> QED BY <1>3, <1>4

(* InsertOne uses up the ticket of the handler: one entry more, and no     *)
(* ticket of its delegation is left.                                       *)
LEMMA TicketSaved ==
    ASSUME TypeOK, TInv, NEW event \in unbondingEvent, unbondingPc = "save",
           SaveNewTimeLockExpire(event), unbondingPc' # "save",
           unbondingEvent' \subseteq unbondingEvent,
           UNCHANGED <<watcherVars, trackedSubs, restarts>>
    PROVE  TInv'
<1>1. event.hash \in Delegations
  BY DEF TypeOK, HandlerTypeOK, UnbondingEvent
<1>2. Saving(event.hash)
  BY DEF Saving
<1>3. UNCHANGED <<watchers, unbondingChan, trackedSubs>>
  BY DEF watcherVars
<1>4. \A d \in Delegations : ~ Saving(d)'
  BY DEF Saving
<1>5. OneTicket'
  BY <1>3, <1>4 DEF TInv, OneTicket
<1>6. /\ Ticket(event.hash)
      /\ ~ Ticket(event.hash)'
      /\ \A d \in Delegations : Ticket(d)' => Ticket(d)
  BY <1>1, <1>2, <1>3, <1>4 DEF Ticket, TInv, OneTicket
<1>7. PICK entry : /\ entry.hash = event.hash
                   /\ timelockQueue' = timelockQueue \cup {entry}
  <2> DEFINE new(i) == [id |-> i, hash |-> event.hash,
                        expireHeight |-> event.startHeight + event.timelock,
                        txType |-> UnbondingTxType]
  <2>1. PICK i \in TimelockIds : timelockQueue' = timelockQueue \cup {new(i)}
    BY SaveEffect DEF SaveNewTimeLockExpire
  <2>2. new(i).hash = event.hash
    OBVIOUS
  <2> HIDE DEF new
  <2> QED BY <2>1, <2>2
<1> SUFFICES ASSUME NEW d \in Delegations
             PROVE  /\ IsFiniteSet(UnbondingEntries(d)')
                    /\ Cardinality(UnbondingEntries(d)')
                          + (IF Ticket(d)' THEN 1 ELSE 0) <= 1 + restarts
  BY <1>5 DEF TInv, TicketsCounted
<1>8. /\ IsFiniteSet(UnbondingEntries(d))
      /\ Cardinality(UnbondingEntries(d)) \in Nat
      /\ Cardinality(UnbondingEntries(d)) + (IF Ticket(d) THEN 1 ELSE 0)
            <= 1 + restarts
      /\ restarts \in Nat
  BY FS_CardinalityType DEF TInv, TicketsCounted, TypeOK
<1>9. CASE d = event.hash
  <2>1. UnbondingEntries(d)' \subseteq UnbondingEntries(d) \cup {entry}
    BY <1>7 DEF UnbondingEntries
  <2>2. /\ IsFiniteSet(UnbondingEntries(d)')
        /\ Cardinality(UnbondingEntries(d)') \in Nat
        /\ Cardinality(UnbondingEntries(d)')
              <= Cardinality(UnbondingEntries(d)) + 1
    BY <1>8, <2>1, OneEntryMore
  <2>3. Ticket(d) /\ ~ Ticket(d)'
    BY <1>6, <1>9
  <2> QED BY <1>8, <2>2, <2>3
<1>10. CASE d # event.hash
  <2>1. UnbondingEntries(d)' \subseteq UnbondingEntries(d)
    BY <1>7, <1>10 DEF UnbondingEntries
  <2>2. /\ IsFiniteSet(UnbondingEntries(d)')
        /\ Cardinality(UnbondingEntries(d)') \in Nat
        /\ Cardinality(UnbondingEntries(d)') <= Cardinality(UnbondingEntries(d))
    BY <1>8, <2>1, FewerEntries
  <2>3. Ticket(d)' => Ticket(d)
    BY <1>6
  <2>4. CASE Ticket(d)
    BY <1>8, <2>2, <2>4
  <2>5. CASE ~ Ticket(d)
    BY <1>8, <2>2, <2>3, <2>5
  <2> QED BY <2>4, <2>5
<1> QED BY <1>9, <1>10

(* A new life of the process gives a ticket to every delegation. *)
LEMMA TicketsRenewed ==
    ASSUME TypeOK, TInv, Restart
    PROVE  TInv'
<1>1. /\ watchers' = [w \in Watcher |-> 0]
      /\ unbondingChan' = <<>>
      /\ unbondingPc' = "idle"
      /\ unbondingEvent' = {}
      /\ restarts' = restarts + 1
      /\ UNCHANGED timelockQueue
  BY DEF Restart, MemoryLost, EndUnbonding, storeVars
<1>2. PushedOnce(unbondingChan') /\ \A d : ~ Pushed(unbondingChan', d)
  BY <1>1 DEF PushedOnce, Pushed
<1>3. \A d : ~ Saving(d)'
  BY <1>1 DEF Saving
<1>4. ASSUME NEW d \in Delegations PROVE ~ Watched(watchers', d)
  <2> PICK none : none = watchers'
    OBVIOUS
  <2>1. \A w \in Watcher : none[w] = 0
    BY <1>1
  <2>2. /\ none[<<d, "staking", "registering">>] = 0
        /\ none[<<d, "staking", "watching">>] = 0
    BY <2>1, AllWatchers
  <2>3. ~ Watched(none, d)
    BY <2>2 DEF Watched
  <2> QED BY <2>3
<1>5. OneTicket'
  BY <1>1, <1>2, <1>3, <1>4 DEF OneTicket
<1> SUFFICES ASSUME NEW d \in Delegations
             PROVE  /\ IsFiniteSet(UnbondingEntries(d)')
                    /\ Cardinality(UnbondingEntries(d)')
                          + (IF Ticket(d)' THEN 1 ELSE 0) <= 1 + restarts'
  BY <1>5 DEF TInv, TicketsCounted
<1>6. UnbondingEntries(d)' = UnbondingEntries(d)
  BY <1>1 DEF UnbondingEntries
<1>7. /\ IsFiniteSet(UnbondingEntries(d))
      /\ Cardinality(UnbondingEntries(d)) \in Nat
      /\ Cardinality(UnbondingEntries(d)) + (IF Ticket(d) THEN 1 ELSE 0)
            <= 1 + restarts
      /\ restarts \in Nat
  BY FS_CardinalityType DEF TInv, TicketsCounted, TypeOK
<1>8. Cardinality(UnbondingEntries(d)) <= 1 + restarts
  BY <1>7
<1> QED BY <1>1, <1>6, <1>7, <1>8

LEMMA TicketsUntouched ==
    ASSUME TypeOK, TInv,
           UNCHANGED <<watchers, unbondingChan, trackedSubs, unbondingPc,
                       unbondingEvent, timelockQueue, restarts>>
    PROVE  TInv'
<1>1. \A d \in Delegations :
         /\ Saving(d)' => Saving(d)
         /\ UnbondingEntries(d)' \subseteq UnbondingEntries(d)
  BY DEF Saving, UnbondingEntries
<1> QED BY <1>1, NoNewTicket

(* The poller only takes entries out of the queue. *)
LEMMA TicketsOfExpiry ==
    ASSUME TypeOK, TInv, Expiry \/ ExpiryFails
    PROVE  TInv'
<1>1. timelockQueue' \subseteq timelockQueue
  BY DEF Expiry, ExpiryFails, ExpiryProgress, ExpiryTick, ExpiryFault,
         FindExpiredDelegations, TransitionExpired, DeleteExpired,
         DeleteExpiredDelegation, storeVars
<1>2. UNCHANGED <<watchers, unbondingChan, trackedSubs, unbondingPc,
                  unbondingEvent, restarts>>
  BY DEF Expiry, ExpiryFails, watcherVars, subscriberVars, handlerVars
<1>3. \A d \in Delegations :
         /\ Saving(d)' => Saving(d)
         /\ UnbondingEntries(d)' \subseteq UnbondingEntries(d)
  BY <1>1, <1>2 DEF Saving, UnbondingEntries
<1> QED BY <1>2, <1>3, NoNewTicket

LEMMA TicketsOfWatchers ==
    ASSUME TypeOK, WatchersTracked, TInv,
           (\E d \in Delegations : Watch(d)) \/ WatcherFails
    PROVE  TInv'
<1>1. UNCHANGED <<trackedSubs, unbondingPc, unbondingEvent, timelockQueue,
                  restarts>>
  BY DEF Watch, WatcherFails, storeVars, subscriberVars, handlerVars
<1>2. CASE \E e \in Delegations : StakingSpentByUnbonding(e)
  <2>1. UNCHANGED <<storeVars, trackedSubs, handlerVars, restarts>>
    BY DEF Watch, WatcherFails, subscriberVars
  <2> QED BY <1>2, <2>1, TicketReported
<1>3. CASE \E e \in Delegations, output \in Output :
              \/ RegisterSpendNtfn(e, output)
              \/ SpentByTimelock(e, output)
              \/ SpentOtherwise(e, output)
              \/ WatcherFault(e, output)
  <2>1. \A d \in Delegations : Watched(watchers', d) => Watched(watchers, d)
    BY <1>3, WatchedMoves
  <2>2. UNCHANGED unbondingChan
    BY <1>3 DEF RegisterSpendNtfn, SpentByTimelock, SpentOtherwise, WatcherFault
  <2>3. \A d \in Delegations :
           /\ Saving(d)' => Saving(d)
           /\ UnbondingEntries(d)' \subseteq UnbondingEntries(d)
    BY <1>1 DEF Saving, UnbondingEntries
  <2> QED BY <1>1, <2>1, <2>2, <2>3, NoNewTicket
<1> QED BY <1>2, <1>3 DEF Watch, WatcherFails, WatcherProgress

LEMMA TicketsOfSubscriber ==
    ASSUME TypeOK, TInv, Subscriber \/ SubscriberFails
    PROVE  TInv'
<1>1. UNCHANGED <<unbondingPc, unbondingEvent, timelockQueue, restarts>>
  BY DEF Subscriber, SubscriberFails, storeVars, handlerVars
<1>2. \A d \in Delegations :
         /\ Saving(d)' => Saving(d)
         /\ UnbondingEntries(d)' \subseteq UnbondingEntries(d)
  BY <1>1 DEF Saving, UnbondingEntries
<1>3. CASE UNCHANGED <<watchers, unbondingChan, trackedSubs>>
  BY <1>1, <1>3, TicketsUntouched
<1>4. ASSUME NEW doc \in page, WatchStakingOutput(doc)
      PROVE  TInv'
  BY <1>4, TicketSubscribed DEF Subscriber, SubscriberFails
<1>5. ASSUME NEW doc \in page, WatchUnbondingOutput(doc)
      PROVE  TInv'
  <2>1. /\ doc.hash \in Delegations
        /\ trackedSubs \subseteq trackedSubs'
        /\ UNCHANGED unbondingChan
    BY <1>5 DEF WatchUnbondingOutput, Track, TypeOK, SubscriberTypeOK,
                PageDocument
  <2>2. \A d \in Delegations : Watched(watchers', d) => Watched(watchers, d)
    <3> PICK g : g = watchers'
      OBVIOUS
    <3> PICK output \in Output : output = "unbonding"
      BY Kinds
    <3>1. watchers \in [Watcher -> Int]
      BY DEF TypeOK, WatcherTypeOK
    <3>2. Changed(watchers, g, <<doc.hash, output, "registering">>, 1)
      BY <1>5, <2>1, <3>1, Kinds, StartedChanged
         DEF Watcher, WatchUnbondingOutput, Started
    <3>3. \A d \in Delegations :
             Watched(g, d) =>
                Watched(watchers, d) \/ (d = doc.hash /\ output = "staking")
      BY <2>1, <3>2, Kinds, WatchedStarted
    <3> QED BY <3>3
  <2> QED BY <1>1, <1>2, <2>1, <2>2, NoNewTicket
<1> QED
  BY <1>3, <1>4, <1>5
     DEF Subscriber, SubscriberFails, SubscriberProgress, SubscriberFault,
         FetchPage, SkipTracked, ReportSpentOutput, watcherVars

LEMMA TicketsOfUnbonding ==
    ASSUME TypeOK, TInv, UnbondingProgress \/ UnbondingFault,
           UNCHANGED <<trackedSubs, restarts>>
    PROVE  TInv'
<1>1. CASE AcceptUnbonding
  BY <1>1, TicketAccepted
<1>2. ASSUME NEW event \in unbondingEvent, unbondingPc = "save",
             SaveNewTimeLockExpire(event), unbondingPc' # "save",
             unbondingEvent' \subseteq unbondingEvent, UNCHANGED watcherVars
      PROVE  TInv'
  BY <1>2, TicketSaved
<1>3. ASSUME UNCHANGED <<watchers, timelockQueue>>,
             \/ UNCHANGED unbondingChan
             \/ unbondingChan # <<>> /\ unbondingChan' = Tail(unbondingChan),
             \/ UNCHANGED <<unbondingPc, unbondingEvent>>
             \/ EndUnbonding
      PROVE  TInv'
  <2>1. \A d \in Delegations :
           /\ Saving(d)' => Saving(d)
           /\ UnbondingEntries(d)' \subseteq UnbondingEntries(d)
    BY <1>3 DEF Saving, UnbondingEntries, EndUnbonding
  <2>2. unbondingEvent' \subseteq unbondingEvent
    BY <1>3 DEF EndUnbonding
  <2> QED BY <1>3, <2>1, <2>2, NoNewTicket
<1>4. CASE DropUnbonding \/ StartUnbonding
  BY <1>3, <1>4
     DEF DropUnbonding, StartUnbonding, ReceiveUnbonding, handlerVars,
         storeVars, watcherVars
<1>5. CASE SaveUnbondingExpiry
  BY <1>2, <1>5 DEF SaveUnbondingExpiry
<1>6. CASE UnbondingFault
  <2>1. CASE \E event \in unbondingEvent :
                /\ unbondingPc = "save"
                /\ SaveNewTimeLockExpire(event)
                /\ EndUnbonding
                /\ UNCHANGED watcherVars
    BY <1>2, <2>1 DEF EndUnbonding
  <2> QED
    BY <1>3, <1>6, <2>1
       DEF UnbondingFault, ReceiveUnbonding, handlerVars, storeVars, watcherVars
<1> QED BY <1>1, <1>4, <1>5, <1>6 DEF UnbondingProgress

LEMMA TicketsStep ==
    ASSUME TypeOK, WatchersTracked, TInv, [Next]_vars
    PROVE  TInv'
<1>1. CASE Chain \/ Api \/ UNCHANGED vars
  BY <1>1, TicketsUntouched
     DEF Chain, Api, ApiNext, ApiTransition, vars, memoryVars, storeVars,
         watcherVars, subscriberVars, handlerVars
<1>2. CASE UnbondingHandler \/ (HandlerFails /\ UnbondingFault)
  BY <1>2, TicketsOfUnbonding
     DEF UnbondingHandler, HandlerFails, subscriberVars
<1>3. CASE WithdrawnHandler \/ (HandlerFails /\ WithdrawnFault)
  BY <1>3, TicketsUntouched
     DEF WithdrawnHandler, HandlerFails, WithdrawnProgress, WithdrawnFault,
         ReceiveWithdrawn, AcceptWithdrawn, DropWithdrawn, Withdraw,
         subscriberVars, watcherVars, handlerVars, storeVars
<1> QED
  BY <1>1, <1>2, <1>3, TicketsOfExpiry, TicketsOfWatchers,
     TicketsOfSubscriber, TicketsRenewed
     DEF Next, HandlerFails

LEMMA TicketsInit == Init => TInv
<1> SUFFICES ASSUME Init
             PROVE  TInv
  OBVIOUS
<1>1. /\ watchers = [w \in Watcher |-> 0]
      /\ unbondingChan = <<>>
      /\ trackedSubs = {}
      /\ unbondingPc = "idle"
      /\ unbondingEvent = {}
      /\ restarts = 0
  BY DEF Init, MemoryInit, WatcherInit, SubscriberInit, HandlerInit
<1>2. PushedOnce(unbondingChan) /\ \A d : ~ Pushed(unbondingChan, d)
  BY <1>1 DEF PushedOnce, Pushed
<1>3. \A d \in Delegations : ~ Watched(watchers, d)
  <2> PICK none : none = watchers
    OBVIOUS
  <2> TAKE d \in Delegations
  <2>1. \A w \in Watcher : none[w] = 0
    BY <1>1
  <2>2. /\ none[<<d, "staking", "registering">>] = 0
        /\ none[<<d, "staking", "watching">>] = 0
    BY <2>1, AllWatchers
  <2>3. ~ Watched(none, d)
    BY <2>2 DEF Watched
  <2> QED BY <2>3
<1>4. \A d : ~ Saving(d)
  BY <1>1 DEF Saving
<1>5. OneTicket
  BY <1>1, <1>2, <1>3, <1>4 DEF OneTicket
<1>6. \A d \in Delegations : UnbondingEntries(d) = {}
  <2>1. \A t \in timelockQueue : t.txType = ActiveTxType
    BY DEF Init, StoreInit
  <2> QED BY <2>1 DEF UnbondingEntries
<1> QED BY <1>1, <1>5, <1>6, FS_EmptySet DEF TInv, TicketsCounted

LEMMA TicketsBound == TypeOK /\ TInv => UnbondingEntriesBounded
<1> SUFFICES ASSUME TypeOK, TInv, NEW d \in Delegations
             PROVE  Cardinality(UnbondingEntries(d)) <= 1 + restarts
  BY DEF UnbondingEntriesBounded
<1>1. /\ Cardinality(UnbondingEntries(d)) \in Nat
      /\ restarts \in Nat
  BY FS_CardinalityType DEF TInv, TicketsCounted, TypeOK
<1>2. Cardinality(UnbondingEntries(d)) + (IF Ticket(d) THEN 1 ELSE 0)
         <= 1 + restarts
  BY DEF TInv, TicketsCounted
<1> QED BY <1>1, <1>2

(* A restart, a failed write or a repeated event makes the handler insert  *)
(* the entry of an unbonding again (SaveNewTimeLockExpire is an InsertOne  *)
(* under a fresh id); one life of the process adds at most one, so the     *)
(* entries of a delegation never outnumber the lives of the process.       *)
THEOREM EntriesBounded == Spec => []UnbondingEntriesBounded
<1>1. TypeOK /\ TInv => UnbondingEntriesBounded
  BY TicketsBound
<1>2. HInv => WatchersTracked
  BY DEF HInv
<1>3. TypeOK /\ HInv /\ TInv /\ [Next]_vars => TInv'
  BY <1>2, TicketsStep
<1> QED
  BY <1>1, <1>3, TicketsInit, HandlersInit, HandlersStep, TypeCorrect, PTL
     DEF Spec

-----------------------------------------------------------------------------
(* What a poll covers.  A delegation that waited when the poll began can   *)
(* leave the states that are scanned only by an event; events come from    *)
(* watchers, which the tracked delegations have, and from the reports of   *)
(* the poller itself.                                                      *)

(* Between polls nothing is left of the one before, and a next page is     *)
(* asked for when this one is done.                                        *)
PollState ==
    /\ subscriberPc = "idle" => page = {} /\ pageToken = 0
    /\ subscriberPc = "fetch" => page = {}

Covered == trackedSubs \cup reported

EventsCovered ==
    /\ \A i \in 1 .. Len(unbondingChan) : unbondingChan[i].hash \in trackedSubs
    /\ \A event \in unbondingEvent : event.hash \in trackedSubs
    /\ \A i \in 1 .. Len(withdrawnChan) : withdrawnChan[i] \in Covered
    /\ withdrawing \subseteq Covered

(* The poll under way will still come to d: on its page, or on a later one. *)
StillToCome(d) ==
    \/ \E doc \in page : doc.hash = d
    \/ pageToken # 0 /\ d \in Remaining(StatesToWatch, pageToken)

CInv ==
    /\ PollState
    /\ EventsCovered
    /\ waiting \subseteq Delegations
    /\ \A d \in waiting : d \in Covered \/ StillToCome(d)

(* A channel that gives up its first event, or gets a good one. *)
LEMMA ChannelKeeps ==
    ASSUME NEW T, NEW Good, NEW chan \in Seq(T), NEW next,
           \A i \in 1 .. Len(chan) : chan[i] \in Good,
           \/ next \in {chan, <<>>}
           \/ chan # <<>> /\ next = Tail(chan)
           \/ \E x \in T \cap Good : next = Append(chan, x)
    PROVE  \A i \in 1 .. Len(next) : next[i] \in Good
<1>1. CASE next \in {chan, <<>>}
  BY <1>1
<1>2. CASE chan # <<>> /\ next = Tail(chan)
  <2>1. /\ Len(next) = Len(chan) - 1
        /\ \A i \in 1 .. Len(next) : next[i] = chan[i + 1]
        /\ Len(chan) \in Nat
    BY <1>2, HeadTailProperties, LenProperties
  <2>2. \A i \in 1 .. Len(next) : i + 1 \in 1 .. Len(chan)
    BY <2>1
  <2> QED BY <2>1, <2>2
<1>3. ASSUME NEW x \in T \cap Good, next = Append(chan, x)
      PROVE  \A i \in 1 .. Len(next) : next[i] \in Good
  <2>1. /\ Len(next) = Len(chan) + 1
        /\ \A i \in 1 .. Len(chan) : next[i] = chan[i]
        /\ next[Len(chan) + 1] = x
        /\ Len(chan) \in Nat
    BY <1>3, AppendProperties, LenProperties
  <2>2. \A i \in 1 .. Len(next) : i \in 1 .. Len(chan) \/ i = Len(chan) + 1
    BY <2>1
  <2> QED BY <2>1, <2>2
<1> QED BY <1>1, <1>2, <1>3

(* Only a watcher or the poller pushes an event of a withdrawal. *)
LEMMA ReportChanStep ==
    ASSUME TypeOK, WatchersTracked, CoverageNext, restarts' = restarts
    PROVE  \/ withdrawnChan' = withdrawnChan
           \/ withdrawnChan # <<>> /\ withdrawnChan' = Tail(withdrawnChan)
           \/ \E d \in trackedSubs \cup reported' :
                 withdrawnChan' = Append(withdrawnChan, d)
<1>1. CASE \E d \in Delegations, output \in Output : SpentByTimelock(d, output)
  <2>1. PICK d \in Delegations, output \in Output : SpentByTimelock(d, output)
    BY <1>1
  <2>2. d \in trackedSubs
    BY <2>1, Kinds, TotalEnded
       DEF SpentByTimelock, Notified, WatchersTracked
  <2> QED BY <2>1, <2>2 DEF SpentByTimelock, PushWithdrawn
<1>2. CASE \E doc \in page : ReportSpentOutput(doc)
  <2>1. PICK doc \in page : ReportSpentOutput(doc)
    BY <1>2
  <2>2. doc.hash \in Delegations
    BY DEF TypeOK, SubscriberTypeOK, PageDocument
  <2>3. doc.hash \in reported'
    BY <2>1, <2>2 DEF CoverageNext, NoteReported
  <2> QED BY <2>1, <2>3 DEF ReportSpentOutput, PushWithdrawn
<1>3. CASE Subscriber \/ SubscriberFails
  BY <1>2, <1>3
     DEF Subscriber, SubscriberFails, SubscriberProgress, SubscriberFault,
         FetchPage, SkipTracked, WatchUnbondingOutput, WatchStakingOutput,
         watcherVars
<1>4. CASE (\E d \in Delegations : Watch(d)) \/ WatcherFails
  BY <1>1, <1>4
     DEF Watch, WatcherFails, WatcherProgress, WatcherFault,
         StakingSpentByUnbonding, RegisterSpendNtfn, SpentOtherwise
<1>5. CASE UnbondingHandler \/ WithdrawnHandler \/ HandlerFails
  BY <1>5
     DEF UnbondingHandler, WithdrawnHandler, HandlerFails, UnbondingProgress,
         UnbondingFault, WithdrawnProgress, WithdrawnFault, AcceptUnbonding,
         DropUnbonding, SaveUnbondingExpiry, StartUnbonding,
         ReceiveWithdrawn, AcceptWithdrawn, DropWithdrawn, Withdraw,
         watcherVars
<1>6. CASE UNCHANGED watcherVars
  BY <1>6 DEF watcherVars
<1>7. ~ Restart
  BY DEF Restart, TypeOK
<1> QED
  BY <1>3, <1>4, <1>5, <1>6, <1>7
     DEF CoverageNext, Next, Chain, Api, Expiry, ExpiryFails, memoryVars

(* Nothing covered is forgotten, but by a restart. *)
LEMMA CoverageGrows ==
    ASSUME CoverageNext, restarts' = restarts, TypeOK
    PROVE  trackedSubs \subseteq trackedSubs' /\ reported \subseteq reported'
<1>1. reported \subseteq reported'
  BY DEF CoverageNext, NoteReported
<1>2. ~ Restart
  BY DEF Restart, TypeOK
<1>3. trackedSubs \subseteq trackedSubs'
  BY <1>2
     DEF CoverageNext, Next, Chain, Api, Expiry, ExpiryFails, Subscriber,
         SubscriberFails, SubscriberProgress, SubscriberFault, FetchPage,
         SkipTracked, ReportSpentOutput, WatchUnbondingOutput,
         WatchStakingOutput, Track, Watch, WatcherFails, UnbondingHandler,
         WithdrawnHandler, HandlerFails, memoryVars, subscriberVars
<1> QED BY <1>1, <1>3

LEMMA EventsCoveredStep ==
    ASSUME TypeOK, WatchersTracked, EventsCovered, CoverageNext,
           restarts' = restarts
    PROVE  EventsCovered'
<1>1. trackedSubs \subseteq trackedSubs' /\ reported \subseteq reported'
  BY CoverageGrows
<1>2. \A i \in 1 .. Len(unbondingChan') : unbondingChan'[i].hash \in trackedSubs
  <2> DEFINE Good == {event \in UnbondingEvent : event.hash \in trackedSubs}
  <2>1. unbondingChan \in Seq(UnbondingEvent)
    BY DEF TypeOK, WatcherTypeOK
  <2>2. \A i \in 1 .. Len(unbondingChan) : unbondingChan[i] \in Good
    BY <2>1, ElementOfSeq DEF EventsCovered
  <2>3. \A d \in trackedSubs : UnbondingEventFor(d) \in UnbondingEvent \cap Good
    BY ConstantTypes, TypeFacts
       DEF UnbondingEventFor, UnbondingEvent, TypeOK, Spend, SubscriberTypeOK
  <2>4. \/ unbondingChan' \in {unbondingChan, <<>>}
        \/ unbondingChan # <<>> /\ unbondingChan' = Tail(unbondingChan)
        \/ \E x \in UnbondingEvent \cap Good :
              unbondingChan' = Append(unbondingChan, x)
    BY <2>3, UnbondingChanStep DEF CoverageNext
  <2>5. \A event \in Good : event.hash \in trackedSubs
    OBVIOUS
  <2> HIDE DEF Good
  <2>6. \A i \in 1 .. Len(unbondingChan') : unbondingChan'[i] \in Good
    BY <2>1, <2>2, <2>4, ChannelKeeps
  <2> QED BY <2>5, <2>6
<1>3. \A i \in 1 .. Len(withdrawnChan') :
         withdrawnChan'[i] \in trackedSubs \cup reported'
  <2> DEFINE Good == trackedSubs \cup reported'
  <2>1. withdrawnChan \in Seq(Delegations)
    BY DEF TypeOK, WatcherTypeOK
  <2>2. \A i \in 1 .. Len(withdrawnChan) : withdrawnChan[i] \in Good
    BY <1>1 DEF EventsCovered, Covered
  <2>3. \A d \in Delegations : d \in Good => d \in Delegations \cap Good
    OBVIOUS
  <2>4. \A d \in Good :
           withdrawnChan' = Append(withdrawnChan, d) => d \in Delegations
    <3> SUFFICES ASSUME NEW d, withdrawnChan' = Append(withdrawnChan, d),
                        d \in Good
                 PROVE  d \in Delegations
      OBVIOUS
    <3>1. withdrawnChan' \in Seq(Delegations)
      BY TypeStep DEF CoverageNext, TypeOK, WatcherTypeOK
    <3>2. /\ Len(withdrawnChan') = Len(withdrawnChan) + 1
          /\ withdrawnChan'[Len(withdrawnChan) + 1] = d
          /\ Len(withdrawnChan) \in Nat
      BY <2>1, AppendProperties, LenProperties
    <3>3. Len(withdrawnChan) + 1 \in 1 .. Len(withdrawnChan')
      BY <3>2
    <3> QED BY <3>1, <3>2, <3>3, ElementOfSeq
  <2>5. \/ withdrawnChan' \in {withdrawnChan, <<>>}
        \/ withdrawnChan # <<>> /\ withdrawnChan' = Tail(withdrawnChan)
        \/ \E x \in Delegations \cap Good :
              withdrawnChan' = Append(withdrawnChan, x)
    BY <2>4, ReportChanStep
  <2> HIDE DEF Good
  <2>6. \A i \in 1 .. Len(withdrawnChan') : withdrawnChan'[i] \in Good
    BY <2>1, <2>2, <2>5, ChannelKeeps
  <2> QED BY <2>6 DEF Good
<1>4. \/ unbondingEvent' \subseteq unbondingEvent
      \/ unbondingChan # <<>> /\ unbondingEvent' = {Head(unbondingChan)}
  BY DEF CoverageNext, Next, Chain, Api, Expiry, ExpiryFails, Subscriber,
         SubscriberFails, Watch, WatcherFails, UnbondingHandler,
         WithdrawnHandler, HandlerFails, UnbondingProgress, UnbondingFault,
         WithdrawnProgress, WithdrawnFault, ReceiveUnbonding,
         AcceptUnbonding, DropUnbonding, SaveUnbondingExpiry, StartUnbonding,
         EndUnbonding, AcceptWithdrawn, DropWithdrawn, Withdraw, Restart,
         MemoryLost, memoryVars, handlerVars
<1>5. \A event \in unbondingEvent' : event.hash \in trackedSubs
  <2>1. unbondingChan \in Seq(UnbondingEvent)
    BY DEF TypeOK, WatcherTypeOK
  <2>2. unbondingChan # <<>> =>
           /\ Head(unbondingChan) = unbondingChan[1]
           /\ 1 \in 1 .. Len(unbondingChan)
    BY <2>1, LenProperties, EmptySeq
  <2> QED BY <1>4, <2>2 DEF EventsCovered
<1>6. \/ withdrawing' \subseteq withdrawing
      \/ withdrawnChan # <<>> /\ withdrawing' = {Head(withdrawnChan)}
  BY DEF CoverageNext, Next, Chain, Api, Expiry, ExpiryFails, Subscriber,
         SubscriberFails, Watch, WatcherFails, UnbondingHandler,
         WithdrawnHandler, HandlerFails, UnbondingProgress, UnbondingFault,
         WithdrawnProgress, WithdrawnFault, AcceptUnbonding, DropUnbonding,
         SaveUnbondingExpiry, StartUnbonding, ReceiveWithdrawn,
         AcceptWithdrawn, DropWithdrawn, Withdraw, Restart, MemoryLost,
         memoryVars, handlerVars
<1>7. withdrawing' \subseteq Covered
  <2>1. withdrawnChan \in Seq(Delegations)
    BY DEF TypeOK, WatcherTypeOK
  <2>2. withdrawnChan # <<>> =>
           /\ Head(withdrawnChan) = withdrawnChan[1]
           /\ 1 \in 1 .. Len(withdrawnChan)
    BY <2>1, LenProperties, EmptySeq
  <2> QED BY <1>6, <2>2 DEF EventsCovered
<1> QED BY <1>1, <1>2, <1>3, <1>5, <1>7 DEF EventsCovered, Covered

(* Nobody else takes a delegation out of the states that are scanned. *)
LEMMA ScannedStays ==
    ASSUME TypeOK, EventsCovered, [Next]_vars, NEW d \in Delegations,
           delegations[d].state \in StatesToWatch, d \notin Covered
    PROVE  delegations'[d].state \in StatesToWatch
<1> USE DEF StatesToWatch
<1>1. StoreTypeOK
  BY DEF TypeOK
<1>2. CASE UNCHANGED delegations
  BY <1>2
<1>3. CASE ApiNext
  BY <1>1, <1>3 DEF ApiNext, ApiTransition, StoreTypeOK, DelegationDocument
<1>4. CASE \E t \in expiredBatch :
              delegations' = TransitionToUnbondedState(
                                 t.hash, QualifiedStatesToUnbonded(t.txType))
  BY <1>1, <1>4, TypeFacts, TransitionEffect DEF TransitionToUnbondedState
<1>5. CASE \E event \in unbondingEvent :
              delegations' = TransitionToUnbondingState(
                                 event.hash, event.startHeight, event.timelock)
  <2>1. \A event \in unbondingEvent :
           event.hash \in Delegations /\ event.hash # d
    BY DEF TypeOK, HandlerTypeOK, UnbondingEvent, EventsCovered, Covered
  <2> QED BY <1>1, <1>5, <2>1, TransitionEffect DEF TransitionToUnbondingState
<1>6. CASE \E e \in withdrawing :
              delegations' = TransitionToWithdrawnState(
                                 e, QualifiedStatesToWithdraw)
  <2>1. \A e \in withdrawing : e \in Delegations /\ e # d
    BY DEF TypeOK, HandlerTypeOK, EventsCovered
  <2> QED BY <1>1, <1>6, <2>1, TransitionEffect DEF TransitionToWithdrawnState
<1> QED BY <1>2, <1>3, <1>4, <1>5, <1>6, DocumentChanges DEF vars

(* What is left when a page is fetched is on it, or after its token.       *)
LEMMA FetchedOrLater ==
    ASSUME NEW S \in SUBSET Delegations, NEW next \in Delegations \cup {0},
           NEW token \in Delegations \cup {0},
           IsPage(S, StatesToWatch, token),
           IsNextToken(next, S, StatesToWatch, token)
    PROVE  /\ \A d \in Remaining(StatesToWatch, token) :
                d \in S \/ (next # 0 /\ d \in Remaining(StatesToWatch, next))
           /\ S = {} => next = 0
<1>1. \A d \in Delegations : d \in Nat /\ d # 0
  BY StoreAssumption
<1>2. CASE S = Remaining(StatesToWatch, token)
  BY <1>2 DEF IsNextToken
<1>3. CASE S # Remaining(StatesToWatch, token)
  <2>1. next \in S
    BY <1>3 DEF IsNextToken
  <2>2. \A d \in Remaining(StatesToWatch, token) \ S : next < d
    BY <2>1 DEF IsPage
  <2>3. next # 0 /\ next \in Nat
    BY <1>1, <2>1
  <2>4. \A d \in Remaining(StatesToWatch, token) \ S :
           d \in Remaining(StatesToWatch, next)
    BY <1>1, <2>2, <2>3 DEF Remaining
  <2> QED BY <2>1, <2>3, <2>4
<1> QED BY <1>2, <1>3
(* A page is fetched: the poll goes on with what it owed, or begins. *)
LEMMA FetchCovers ==
    ASSUME TypeOK, CInv, FetchPage, NoteWaiting, UNCHANGED <<delegations, restarts>>,
           reported \subseteq reported'
    PROVE  /\ PollState'
           /\ waiting' \subseteq Delegations
           /\ \A d \in waiting' : d \in Covered' \/ StillToCome(d)'
<1>1. PICK S \in SUBSET Delegations, next \in Delegations \cup {0} :
         /\ IsPage(S, StatesToWatch, pageToken)
         /\ IsNextToken(next, S, StatesToWatch, pageToken)
         /\ page' = {[hash |-> d, state |-> delegations[d].state,
                      unbondingTx |-> delegations[d].unbondingTx] : d \in S}
         /\ pageToken' = next
         /\ subscriberPc' = IF S = {} THEN "idle" ELSE "process"
  BY DEF FetchPage
<1>2. UNCHANGED trackedSubs /\ subscriberPc \in {"idle", "fetch"}
  BY DEF FetchPage
<1>3. pageToken \in Delegations \cup {0}
  BY DEF TypeOK, SubscriberTypeOK
<1>4. /\ \A d \in Remaining(StatesToWatch, pageToken) :
            d \in S \/ (next # 0 /\ d \in Remaining(StatesToWatch, next))
      /\ S = {} => next = 0
  BY <1>1, <1>3, FetchedOrLater
<1>5. PollState'
  BY <1>1, <1>4 DEF PollState
<1>6. waiting' = IF subscriberPc = "idle" /\ subscriberPc' # "idle"
                 THEN ToWatch ELSE waiting
  BY DEF NoteWaiting
<1>7. waiting' \subseteq Delegations
  BY <1>6 DEF CInv, ToWatch
<1>8. ASSUME NEW d \in waiting'
      PROVE  d \in Covered \/ d \in Remaining(StatesToWatch, pageToken)
  <2>1. CASE waiting' = ToWatch /\ subscriberPc = "idle"
    <3>1. pageToken = 0 /\ d \in Delegations /\ d \in Nat /\ d # 0
      BY <1>7, <1>8, <2>1, StoreAssumption DEF CInv, PollState
    <3> QED BY <1>8, <2>1, <3>1 DEF ToWatch, Remaining
  <2>2. CASE d \in waiting /\ page = {}
    BY <2>2 DEF CInv, StillToCome
  <2> QED BY <1>2, <1>6, <1>8, <2>1, <2>2 DEF CInv, PollState
<1>9. ASSUME NEW d \in Remaining(StatesToWatch, pageToken)
      PROVE  StillToCome(d)'
  <2>1. CASE d \in S
    <3> DEFINE doc == [hash |-> d, state |-> delegations[d].state,
                       unbondingTx |-> delegations[d].unbondingTx]
    <3>1. doc \in page' /\ doc.hash = d
      BY <1>1, <2>1
    <3> HIDE DEF doc
    <3> QED BY <3>1 DEF StillToCome
  <2>2. CASE next # 0 /\ d \in Remaining(StatesToWatch, next)
    BY <1>1, <2>2 DEF StillToCome, Remaining
  <2> QED BY <1>4, <2>1, <2>2
<1>10. Covered \subseteq Covered'
  BY <1>2 DEF Covered
<1> QED BY <1>5, <1>7, <1>8, <1>9, <1>10

(* A document is dealt with. *)
LEMMA DocumentCovers ==
    ASSUME TypeOK, CInv, CoverageNext, NEW doc \in page,
           \/ SkipTracked(doc)
           \/ ReportSpentOutput(doc)
           \/ WatchUnbondingOutput(doc)
           \/ WatchStakingOutput(doc),
           UNCHANGED <<delegations, restarts>>
    PROVE  /\ PollState'
           /\ waiting' \subseteq Delegations
           /\ \A d \in waiting' : d \in Covered' \/ StillToCome(d)'
<1>1. NextInPage(doc) /\ DocumentDone(doc)
  BY DEF SkipTracked, ReportSpentOutput, WatchUnbondingOutput,
         WatchStakingOutput
<1>2. trackedSubs \subseteq trackedSubs' /\ reported \subseteq reported'
  BY CoverageGrows
<1>3. doc.hash \in Delegations
  BY DEF TypeOK, SubscriberTypeOK, PageDocument
<1>4. doc.hash \in Covered'
  <2>1. CASE ReportSpentOutput(doc)
    BY <1>3, <2>1 DEF CoverageNext, NoteReported, Covered
  <2> QED
    BY <1>2, <2>1
       DEF SkipTracked, WatchUnbondingOutput, WatchStakingOutput, Track, Covered
<1>5. waiting' \subseteq waiting
  BY <1>1 DEF CoverageNext, NoteWaiting, NextInPage
<1>6. PollState'
  BY <1>1 DEF DocumentDone, PollState
<1>7. ASSUME NEW d \in waiting, d # doc.hash, d \notin Covered
      PROVE  StillToCome(d)'
  <2>1. CASE \E other \in page : other.hash = d
    BY <1>1, <1>7, <2>1 DEF DocumentDone, StillToCome
  <2>2. CASE pageToken # 0 /\ d \in Remaining(StatesToWatch, pageToken)
    BY <1>1, <2>2 DEF DocumentDone, StillToCome, Remaining
  <2> QED BY <1>7, <2>1, <2>2 DEF CInv, StillToCome
<1> QED BY <1>2, <1>4, <1>5, <1>6, <1>7 DEF CInv, Covered

(* Whoever else takes a step, what the poll owes is still to come. *)
LEMMA OthersCover ==
    ASSUME TypeOK, CInv, [Next]_vars,
           waiting' \subseteq waiting, UNCHANGED subscriberVars,
           reported \subseteq reported'
    PROVE  /\ PollState'
           /\ waiting' \subseteq Delegations
           /\ \A d \in waiting' : d \in Covered' \/ StillToCome(d)'
<1>1. PollState'
  BY DEF CInv, PollState, subscriberVars
<1>2. Covered \subseteq Covered'
  BY DEF Covered, subscriberVars
<1>3. ASSUME NEW d \in waiting, d \notin Covered
      PROVE  StillToCome(d)'
  <2>1. d \in Delegations /\ StillToCome(d)
    BY <1>3 DEF CInv
  <2>2. CASE \E doc \in page : doc.hash = d
    BY <2>2 DEF StillToCome, subscriberVars
  <2>3. CASE pageToken # 0 /\ d \in Remaining(StatesToWatch, pageToken)
    <3>1. delegations'[d].state \in StatesToWatch
      BY <1>3, <2>1, <2>3, ScannedStays DEF Remaining, CInv
    <3> QED BY <2>3, <3>1 DEF Remaining, StillToCome, subscriberVars
  <2> QED BY <2>1, <2>2, <2>3 DEF StillToCome
<1> QED BY <1>1, <1>2, <1>3 DEF CInv

(* A poll that fails, or is lost with the process. *)
LEMMA NothingOwed ==
    ASSUME waiting' = {}, EndSubscriberPoll
    PROVE  /\ PollState'
           /\ waiting' \subseteq Delegations
           /\ \A d \in waiting' : d \in Covered' \/ StillToCome(d)'
  BY DEF EndSubscriberPoll, PollState

LEMMA CoverageStep ==
    ASSUME TypeOK, WatchersTracked, CInv, [CoverageNext]_coverageVars
    PROVE  CInv'
<1>1. CASE UNCHANGED coverageVars
  <2>1. UNCHANGED <<delegations, waiting, reported, subscriberVars,
                    unbondingChan, withdrawnChan, unbondingEvent, withdrawing>>
    BY <1>1 DEF coverageVars, vars, storeVars, memoryVars, watcherVars,
                handlerVars
  <2>2. EventsCovered'
    BY <2>1 DEF CInv, EventsCovered, Covered, subscriberVars
  <2>3. [Next]_vars
    BY <1>1 DEF coverageVars
  <2> QED BY <2>1, <2>2, <2>3, OthersCover DEF CInv
<1>2. CASE CoverageNext /\ Restart
  <2>1. /\ waiting' = {} /\ EndSubscriberPoll
        /\ unbondingChan' = <<>> /\ withdrawnChan' = <<>>
        /\ unbondingEvent' = {} /\ withdrawing' = {}
    BY <1>2
       DEF Restart, MemoryLost, EndUnbonding, CoverageNext, NoteWaiting, TypeOK
  <2>2. EventsCovered'
    BY <2>1 DEF EventsCovered
  <2> QED BY <2>1, <2>2, NothingOwed DEF CInv
<1>3. CASE CoverageNext /\ ~ Restart
  <2>1. restarts' = restarts
    BY <1>3
       DEF CoverageNext, Next, Chain, Api, Expiry, ExpiryFails, Subscriber,
           SubscriberFails, Watch, WatcherFails, UnbondingHandler,
           WithdrawnHandler, HandlerFails
  <2>2. EventsCovered' /\ reported \subseteq reported'
    BY <1>3, <2>1, EventsCoveredStep, CoverageGrows DEF CInv
  <2>3. CASE Subscriber
    <3>1. UNCHANGED <<delegations, restarts>>
      BY <2>3 DEF Subscriber, storeVars
    <3>2. CASE FetchPage
      BY <1>3, <2>2, <3>1, <3>2, FetchCovers DEF CInv, CoverageNext
    <3> QED
      BY <1>3, <2>2, <2>3, <3>1, <3>2, DocumentCovers
         DEF CInv, Subscriber, SubscriberProgress
  <2>4. CASE SubscriberFails
    <3>1. UNCHANGED <<delegations, restarts>> /\ EndSubscriberPoll
      BY <2>4 DEF SubscriberFails, SubscriberFault, storeVars
    <3>2. CASE FetchPage
      BY <1>3, <2>2, <3>1, <3>2, FetchCovers DEF CInv, CoverageNext
    <3>3. CASE ~ FetchPage
      <4>1. waiting' = {}
        BY <1>3, <2>4, <3>3 DEF CoverageNext, NoteWaiting, SubscriberFails
      <4> QED BY <2>2, <3>1, <4>1, NothingOwed DEF CInv
    <3> QED BY <3>2, <3>3
  <2>5. CASE UNCHANGED subscriberVars
    <3>1. waiting' \subseteq waiting
      BY <1>3, <2>5 DEF CoverageNext, NoteWaiting, subscriberVars
    <3> QED BY <1>3, <2>2, <2>5, <3>1, OthersCover DEF CInv, CoverageNext
  <2> QED
    BY <1>3, <2>3, <2>4, <2>5
       DEF CoverageNext, Next, Chain, Api, Expiry, ExpiryFails, Watch,
           WatcherFails, UnbondingHandler, WithdrawnHandler, HandlerFails,
           memoryVars
<1> QED BY <1>1, <1>2, <1>3

(* A poll that ends without an error has dealt with every delegation that  *)
(* waited when it began, whatever the chain, the API, the expiry poller,   *)
(* the watchers and the handlers did between its pages.                    *)
THEOREM PollCoversService == CoverageSpec => []PollMissesNothing
<1>1. CoverageInit => TypeOK /\ WatchersTracked /\ CInv
  <2> SUFFICES ASSUME CoverageInit PROVE TypeOK /\ WatchersTracked /\ CInv
    OBVIOUS
  <2>1. TypeOK /\ WatchersTracked
    BY InitTypes, HandlersInit DEF CoverageInit, HInv
  <2>2. CInv
    BY DEF CoverageInit, Init, MemoryInit, WatcherInit, SubscriberInit,
           HandlerInit, CInv, PollState, EventsCovered
  <2> QED BY <2>1, <2>2
<1>2. TypeOK /\ WatchersTracked /\ CInv /\ [CoverageNext]_coverageVars
         => (TypeOK /\ WatchersTracked /\ CInv)'
  <2> SUFFICES ASSUME TypeOK, WatchersTracked, CInv,
                      [CoverageNext]_coverageVars
               PROVE  (TypeOK /\ WatchersTracked /\ CInv)'
    OBVIOUS
  <2>1. [Next]_vars
    BY DEF CoverageNext, coverageVars
  <2> QED BY <2>1, TypeStep, WatchersTrackedStep, CoverageStep
<1>3. CInv => PollMissesNothing
  BY DEF CInv, PollState, PollMissesNothing, StillToCome, Covered
<1> QED BY <1>1, <1>2, <1>3, PTL DEF CoverageSpec
-----------------------------------------------------------------------------
(* What the service looks out for.  A tracked delegation is polled no more, *)
(* so the watcher that the poller started, and the event it ends with, are *)
(* all there is until the next restart.                                    *)

(* The staking output of d went another way than to unbonding. *)
StakingTaken(d) == stakingSpend[d].path \in {"timelock", "slashing"}

(* A page shows no delegation as past its request that is still before it. *)
PageTellsRequests ==
    \A doc \in page :
        doc.state # UnbondingRequested =>
            delegations[doc.hash].state # UnbondingRequested

(* An idle handler has no event to lose when it takes the next one. *)
IdleHasNone == unbondingPc = "idle" => unbondingEvent = {}

NInv == NoSpendIsLost /\ PageTellsRequests /\ IdleHasNone

(* Where the watcher of an output is after a step: it has moved on to the  *)
(* unbonding output only with an event, and has ended only with its spend. *)
WatchGoesOn(d, output) ==
    \/ IsWatched(d, output)'
    \/ output = "staking" /\ StakingTaken(d)
    \/ output = "unbonding" /\ unbondingSpend[d] # NoSpend
    \/ /\ output = "staking"
       /\ IsWatched(d, "unbonding")'
       /\ unbondingChan' = Append(unbondingChan, UnbondingEventFor(d))

LEMMA WatcherNumbers ==
    ASSUME TypeOK, NEW d \in Delegations, NEW output \in Output,
           NEW stage \in Stage
    PROVE  /\ <<d, output, stage>> \in Watcher
           /\ watchers[<<d, output, stage>>] \in Nat
  BY DEF Watcher, TypeOK, WatcherTypeOK

(* One watcher moves from v to w, the others stay. *)
LEMMA MovedWatchers ==
    ASSUME TypeOK, NEW v \in Watcher, NEW w \in Watcher, v # w,
           watchers' = [Ended(v) EXCEPT ![w] = @ + 1]
    PROVE  /\ \A u \in Watcher :
                 u # v /\ watchers[u] > 0 => watchers'[u] > 0
           /\ watchers'[w] > 0
<1>1. watchers \in [Watcher -> Nat]
  BY DEF TypeOK, WatcherTypeOK
<1>2. watchers'[w] = watchers[w] + 1
  BY <1>1 DEF Ended
<1>3. \A u \in Watcher : u # v /\ u # w => watchers'[u] = watchers[u]
  BY <1>1 DEF Ended
<1>4. watchers[w] \in Nat
  BY <1>1
<1>5. watchers'[w] > 0
  BY <1>2, <1>4
<1> QED BY <1>3, <1>5

LEMMA WatcherGoesOn ==
    ASSUME TypeOK, NEW e \in Delegations, WatcherProgress(e),
           NEW d \in Delegations, NEW output \in Output, IsWatched(d, output)
    PROVE  WatchGoesOn(d, output)
<1>1. PICK stage \in Stage : watchers[<<d, output, stage>>] > 0
  BY DEF IsWatched
<1>2. <<d, output, stage>> \in Watcher
  BY WatcherNumbers
<1>3. CASE StakingSpentByUnbonding(e)
  <2> DEFINE v == <<e, "staking", "watching">>
             w == <<e, "unbonding", "registering">>
  <2>1. /\ v \in Watcher /\ w \in Watcher /\ v # w
        /\ watchers' = [Ended(v) EXCEPT ![w] = @ + 1]
        /\ unbondingChan' = Append(unbondingChan, UnbondingEventFor(e))
    BY <1>3, AllWatchers DEF StakingSpentByUnbonding, Started, PushUnbonding
  <2>2. /\ \A u \in Watcher : u # v /\ watchers[u] > 0 => watchers'[u] > 0
        /\ watchers'[w] > 0
    BY <2>1, MovedWatchers
  <2>3. CASE <<d, output, stage>> = v
    BY <2>1, <2>2, <2>3, Kinds DEF WatchGoesOn, IsWatched
  <2>4. CASE <<d, output, stage>> # v
    BY <1>1, <1>2, <2>2, <2>4 DEF WatchGoesOn, IsWatched
  <2> QED BY <2>3, <2>4
<1>4. ASSUME NEW o \in Output, RegisterSpendNtfn(e, o)
      PROVE  WatchGoesOn(d, output)
  <2> DEFINE v == <<e, o, "registering">>
             w == <<e, o, "watching">>
  <2>1. v \in Watcher /\ w \in Watcher /\ v # w
    BY Kinds DEF Watcher
  <2>2. watchers' = [Ended(v) EXCEPT ![w] = @ + 1]
    BY <1>4 DEF RegisterSpendNtfn
  <2>3. /\ \A u \in Watcher : u # v /\ watchers[u] > 0 => watchers'[u] > 0
        /\ watchers'[w] > 0
    BY <2>1, <2>2, MovedWatchers
  <2>4. CASE <<d, output, stage>> = v
    BY <2>3, <2>4, Kinds DEF WatchGoesOn, IsWatched
  <2>5. CASE <<d, output, stage>> # v
    BY <1>1, <1>2, <2>3, <2>5 DEF WatchGoesOn, IsWatched
  <2> QED BY <2>4, <2>5
<1>5. ASSUME NEW o \in Output, SpentByTimelock(e, o) \/ SpentOtherwise(e, o)
      PROVE  WatchGoesOn(d, output)
  <2> DEFINE v == <<e, o, "watching">>
  <2>1. v \in Watcher /\ watchers' = Ended(v)
    BY <1>5, Kinds DEF SpentByTimelock, SpentOtherwise, Watcher
  <2>2. CASE <<d, output, stage>> = v
    BY <1>5, <2>2
       DEF SpentByTimelock, SpentOtherwise, Notified, IsWithdrawal, SpendOf,
           WatchGoesOn, StakingTaken, Output
  <2>3. CASE <<d, output, stage>> # v
    <3>1. watchers'[<<d, output, stage>>] = watchers[<<d, output, stage>>]
      BY <1>2, <2>1, <2>3 DEF Ended, TypeOK, WatcherTypeOK
    <3> QED BY <1>1, <3>1 DEF WatchGoesOn, IsWatched
  <2> QED BY <2>2, <2>3
<1> QED BY <1>3, <1>4, <1>5 DEF WatcherProgress

(* A subscription adds a watcher and ends none. *)
LEMMA StartedWatch ==
    ASSUME TypeOK, NEW e \in Delegations, NEW o \in Output,
           watchers' = Started(watchers, e, o)
    PROVE  /\ IsWatched(e, o)'
           /\ \A d \in Delegations, output \in Output :
                 IsWatched(d, output) => IsWatched(d, output)'
<1> DEFINE w == <<e, o, "registering">>
<1>1. w \in Watcher /\ watchers \in [Watcher -> Nat]
  BY Kinds DEF Watcher, TypeOK, WatcherTypeOK
<1>2. watchers'[w] = watchers[w] + 1 /\ watchers[w] \in Nat
  BY <1>1 DEF Started
<1>3. watchers'[w] > 0
  BY <1>2
<1>4. \A u \in Watcher : u # w => watchers'[u] = watchers[u]
  BY <1>1 DEF Started
<1>5. \A u \in Watcher : watchers[u] > 0 => watchers'[u] > 0
  BY <1>3, <1>4
<1>6. \A d \in Delegations, output \in Output, stage \in Stage :
         <<d, output, stage>> \in Watcher
  BY DEF Watcher
<1> QED BY <1>3, <1>5, <1>6, Kinds DEF IsWatched

LEMMA WatchesGoOn ==
    ASSUME TypeOK, ~ FaultsAllowed, [Next]_vars, ~ Restart,
           NEW d \in Delegations, NEW output \in Output, IsWatched(d, output)
    PROVE  WatchGoesOn(d, output)
<1>1. CASE UNCHANGED watchers
  BY <1>1 DEF WatchGoesOn, IsWatched
<1>2. CASE \E e \in Delegations : Watch(e)
  BY <1>2, WatcherGoesOn DEF Watch
<1>3. CASE Subscriber
  <2>1. \A doc \in page : doc.hash \in Delegations
    BY DEF TypeOK, SubscriberTypeOK, PageDocument
  <2>2. CASE \E doc \in page, o \in Output :
                watchers' = Started(watchers, doc.hash, o)
    BY <2>1, <2>2, StartedWatch DEF WatchGoesOn
  <2> QED
    BY <1>1, <1>3, <2>2, Kinds
       DEF Subscriber, SubscriberProgress, FetchPage, SkipTracked,
           ReportSpentOutput, WatchUnbondingOutput, WatchStakingOutput,
           watcherVars
<1>4. CASE UnbondingHandler \/ WithdrawnHandler
  BY <1>1, <1>4
     DEF UnbondingHandler, WithdrawnHandler, UnbondingProgress,
         WithdrawnProgress, AcceptUnbonding, DropUnbonding,
         SaveUnbondingExpiry, StartUnbonding, AcceptWithdrawn, DropWithdrawn,
         Withdraw, watcherVars
<1>5. ~ SubscriberFails /\ ~ WatcherFails /\ ~ HandlerFails
  BY DEF SubscriberFails, SubscriberFault, WatcherFails, WatcherFault,
         HandlerFails, UnbondingFault, WithdrawnFault
<1> QED
  BY <1>1, <1>2, <1>3, <1>4, <1>5
     DEF Next, Chain, Api, Expiry, ExpiryFails, vars, memoryVars, watcherVars

(* What is spent stays spent. *)
LEMMA SpendsStay ==
    ASSUME TypeOK, ChainConsistent, [Next]_vars, NEW d \in Delegations
    PROVE  /\ StakingTaken(d) => StakingTaken(d)'
           /\ SpentForGood(d) => SpentForGood(d)'
<1>1. CASE ChainNext
  <2>1. /\ stakingSpend[d].path # "none" => stakingSpend'[d] = stakingSpend[d]
        /\ OutputGone(d) => OutputGone(d)'
    BY <1>1, ChainGrows
  <2>2. unbondingSpend[d] # NoSpend => unbondingSpend[d].path # "none"
    BY DEF ChainConsistent
  <2>3. OutputGone(d)' => SpentForGood(d)'
    BY DEF OutputGone, SpentForGood, NoSpend
  <2> QED BY <2>1, <2>2, <2>3 DEF StakingTaken, SpentForGood, OutputGone
<1>2. CASE UNCHANGED <<stakingSpend, unbondingSpend>>
  BY <1>2 DEF StakingTaken, SpentForGood
<1> QED
  BY <1>1, <1>2
     DEF Next, Chain, Api, Expiry, ExpiryFails, Subscriber, SubscriberFails,
         Watch, WatcherFails, UnbondingHandler, WithdrawnHandler,
         HandlerFails, Restart, vars, chainVars

(* A request comes from the API, for an active delegation. *)
LEMMA RequestedBefore ==
    ASSUME TypeOK, [Next]_vars, NEW d \in Delegations,
           delegations[d].state # Active,
           delegations'[d].state = UnbondingRequested
    PROVE  delegations[d].state = UnbondingRequested
<1>1. StoreTypeOK
  BY DEF TypeOK
<1>2. CASE ApiNext
  BY <1>1, <1>2 DEF ApiNext, ApiTransition, StoreTypeOK, DelegationDocument
<1>3. CASE \E t \in expiredBatch :
              delegations' = TransitionToUnbondedState(
                                 t.hash, QualifiedStatesToUnbonded(t.txType))
  BY <1>1, <1>3, TypeFacts, TransitionEffect DEF TransitionToUnbondedState
<1>4. CASE \E event \in unbondingEvent :
              delegations' = TransitionToUnbondingState(
                                 event.hash, event.startHeight, event.timelock)
  <2>1. \A event \in unbondingEvent : event.hash \in Delegations
    BY DEF TypeOK, HandlerTypeOK, UnbondingEvent
  <2> QED BY <1>1, <1>4, <2>1, TransitionEffect DEF TransitionToUnbondingState
<1>5. CASE \E e \in withdrawing :
              delegations' = TransitionToWithdrawnState(
                                 e, QualifiedStatesToWithdraw)
  <2>1. \A e \in withdrawing : e \in Delegations
    BY DEF TypeOK, HandlerTypeOK
  <2> QED BY <1>1, <1>5, <2>1, TransitionEffect DEF TransitionToWithdrawnState
<1> QED BY <1>2, <1>3, <1>4, <1>5, DocumentChanges DEF vars
(* A reported unbonding of a requested delegation goes from the channel to *)
(* the handler, which ends it only with the move of the delegation.        *)
LEMMA ReportTaken ==
    ASSUME TypeOK, IdleHasNone, AcceptUnbonding \/ DropUnbonding,
           NEW d \in Delegations, UnbondingReported(d),
           delegations[d].state = UnbondingRequested
    PROVE  UnbondingReported(d)'
<1>1. /\ unbondingChan \in Seq(UnbondingEvent)
      /\ unbondingChan # <<>>
      /\ unbondingChan' = Tail(unbondingChan)
      /\ unbondingEvent = {}
  BY DEF AcceptUnbonding, DropUnbonding, ReceiveUnbonding, IdleHasNone,
         TypeOK, WatcherTypeOK
<1>2. PICK i \in 1 .. Len(unbondingChan) : unbondingChan[i].hash = d
  BY <1>1 DEF UnbondingReported
<1>3. CASE i = 1
  <2>1. Head(unbondingChan) = unbondingChan[1]
    BY <1>1
  <2>2. AcceptUnbonding
    BY <1>2, <1>3, <2>1
       DEF DropUnbonding, OutdatedStatesForUnbonding,
           QualifiedStatesToUnbonding
  <2>3. unbondingEvent' = {Head(unbondingChan)}
    BY <2>2 DEF AcceptUnbonding
  <2> QED BY <1>2, <1>3, <2>1, <2>3 DEF UnbondingReported
<1>4. CASE i # 1
  <2>1. /\ Len(unbondingChan') = Len(unbondingChan) - 1
        /\ \A j \in 1 .. Len(unbondingChan') :
              unbondingChan'[j] = unbondingChan[j + 1]
        /\ Len(unbondingChan) \in Nat
    BY <1>1, HeadTailProperties, LenProperties
  <2>2. i - 1 \in 1 .. Len(unbondingChan') /\ (i - 1) + 1 = i
    BY <1>2, <1>4, <2>1
  <2>3. unbondingChan'[i - 1] = unbondingChan[i]
    BY <2>1, <2>2
  <2> QED BY <1>2, <2>2, <2>3 DEF UnbondingReported
<1> QED BY <1>3, <1>4

LEMMA ReportAppended ==
    ASSUME TypeOK, NEW event \in UnbondingEvent, NEW d \in Delegations,
           unbondingChan' = Append(unbondingChan, event),
           UNCHANGED unbondingEvent
    PROVE  /\ UnbondingReported(d) => UnbondingReported(d)'
           /\ event.hash = d => UnbondingReported(d)'
<1>1. /\ Len(unbondingChan') = Len(unbondingChan) + 1
      /\ \A i \in 1 .. Len(unbondingChan) :
            unbondingChan'[i] = unbondingChan[i]
      /\ unbondingChan'[Len(unbondingChan) + 1] = event
      /\ Len(unbondingChan) \in Nat
  BY AppendProperties, LenProperties DEF TypeOK, WatcherTypeOK
<1>2. /\ Len(unbondingChan) + 1 \in 1 .. Len(unbondingChan')
      /\ \A i \in 1 .. Len(unbondingChan) : i \in 1 .. Len(unbondingChan')
  BY <1>1
<1> QED BY <1>1, <1>2 DEF UnbondingReported

LEMMA ReportGoesOn ==
    ASSUME TypeOK, HandledIsEligible, EventsConsistent, IdleHasNone,
           ~ FaultsAllowed, [Next]_vars, ~ Restart, NEW d \in Delegations,
           UnbondingReported(d), delegations[d].state = UnbondingRequested,
           delegations'[d].state = UnbondingRequested
    PROVE  UnbondingReported(d)'
<1>1. CASE UNCHANGED <<unbondingChan, unbondingEvent>>
  BY <1>1 DEF UnbondingReported
<1>2. CASE AcceptUnbonding \/ DropUnbonding
  BY <1>2, ReportTaken
<1>3. CASE StartUnbonding
  <2>1. PICK event \in unbondingEvent :
           /\ delegations' = TransitionToUnbondingState(
                                 event.hash, event.startHeight, event.timelock)
           /\ UNCHANGED unbondingChan
    BY <1>3 DEF StartUnbonding, watcherVars
  <2>2. /\ event.hash \in Delegations
        /\ delegations[event.hash].state = UnbondingRequested
    BY DEF TypeOK, HandlerTypeOK, UnbondingEvent, HandledIsEligible
  <2>3. delegations'[event.hash].state = Unbonding
    BY <2>1, <2>2
       DEF TransitionToUnbondingState, TransitionState,
           QualifiedStatesToUnbonding, TypeOK, StoreTypeOK
  <2>4. event.hash # d
    BY <2>3
  <2>5. \A other \in unbondingEvent : other = event
    BY DEF EventsConsistent
  <2> QED BY <2>1, <2>4, <2>5 DEF UnbondingReported
<1>4. CASE SaveUnbondingExpiry \/ WithdrawnHandler
  BY <1>1, <1>4
     DEF SaveUnbondingExpiry, WithdrawnHandler, WithdrawnProgress,
         AcceptWithdrawn, DropWithdrawn, Withdraw, watcherVars, handlerVars
<1>5. CASE \E e \in Delegations : StakingSpentByUnbonding(e) /\ Watch(e)
  <2>1. PICK e \in Delegations : StakingSpentByUnbonding(e) /\ Watch(e)
    BY <1>5
  <2>2. UnbondingEventFor(e) \in UnbondingEvent
    BY ConstantTypes, TypeFacts
       DEF UnbondingEventFor, UnbondingEvent, Spend
  <2>3. /\ unbondingChan' = Append(unbondingChan, UnbondingEventFor(e))
        /\ UNCHANGED unbondingEvent
    BY <2>1 DEF StakingSpentByUnbonding, PushUnbonding, Watch, handlerVars
  <2> QED BY <2>2, <2>3, ReportAppended
<1>6. CASE \E e \in Delegations : Watch(e)
  BY <1>1, <1>5, <1>6
     DEF Watch, WatcherProgress, RegisterSpendNtfn, SpentByTimelock,
         SpentOtherwise, handlerVars
<1>7. CASE Subscriber
  BY <1>1, <1>7
     DEF Subscriber, SubscriberProgress, FetchPage, SkipTracked,
         ReportSpentOutput, WatchUnbondingOutput, WatchStakingOutput,
         watcherVars, handlerVars
<1>8. ~ SubscriberFails /\ ~ WatcherFails /\ ~ HandlerFails
  BY DEF SubscriberFails, SubscriberFault, WatcherFails, WatcherFault,
         HandlerFails, UnbondingFault, WithdrawnFault
<1>9. CASE Chain \/ Api \/ Expiry \/ ExpiryFails \/ UNCHANGED vars
  BY <1>1, <1>9
     DEF Chain, Api, Expiry, ExpiryFails, vars, memoryVars, watcherVars,
         handlerVars
<1> QED
  BY <1>2, <1>3, <1>4, <1>6, <1>7, <1>8, <1>9
     DEF Next, UnbondingHandler, UnbondingProgress

LEMMA PageTellsStep ==
    ASSUME TypeOK, NoneActive, PageTellsRequests, [Next]_vars
    PROVE  PageTellsRequests'
<1>1. \A doc \in page :
         doc.hash \in Delegations /\ delegations[doc.hash].state # Active
  BY DEF TypeOK, SubscriberTypeOK, PageDocument, NoneActive
<1>2. CASE page' \subseteq page
  BY <1>1, <1>2, RequestedBefore DEF PageTellsRequests
<1>3. CASE FetchPage /\ UNCHANGED delegations
  <2>1. \A doc \in page' : doc.state = delegations[doc.hash].state
    BY <1>3 DEF FetchPage
  <2> QED BY <1>3, <2>1 DEF PageTellsRequests
<1>4. CASE Subscriber \/ SubscriberFails
  BY <1>2, <1>3, <1>4
     DEF Subscriber, SubscriberFails, SubscriberProgress, SubscriberFault,
         SkipTracked, ReportSpentOutput, WatchUnbondingOutput,
         WatchStakingOutput, DocumentDone, EndSubscriberPoll, storeVars
<1>5. CASE Restart
  BY <1>2, <1>5 DEF Restart, MemoryLost, EndSubscriberPoll
<1>6. CASE UNCHANGED page
  BY <1>2, <1>6
<1> QED
  BY <1>4, <1>5, <1>6
     DEF Next, Chain, Api, Expiry, ExpiryFails, Watch, WatcherFails,
         UnbondingHandler, WithdrawnHandler, HandlerFails, vars, memoryVars,
         subscriberVars

LEMMA IdleHasNoneStep ==
    ASSUME IdleHasNone, [Next]_vars
    PROVE  IdleHasNone'
<1> USE DEF IdleHasNone
<1>1. CASE UNCHANGED handlerVars
  BY <1>1 DEF handlerVars
<1>2. CASE Restart
  BY <1>2 DEF Restart, MemoryLost, EndUnbonding
<1>3. CASE UnbondingHandler \/ WithdrawnHandler \/ HandlerFails
  BY <1>3
     DEF UnbondingHandler, WithdrawnHandler, HandlerFails, UnbondingProgress,
         UnbondingFault, WithdrawnProgress, WithdrawnFault, AcceptUnbonding,
         DropUnbonding, SaveUnbondingExpiry, StartUnbonding, EndUnbonding,
         AcceptWithdrawn, DropWithdrawn, Withdraw, handlerVars
<1> QED
  BY <1>1, <1>2, <1>3
     DEF Next, Chain, Api, Expiry, ExpiryFails, Subscriber, SubscriberFails,
         Watch, WatcherFails, vars, memoryVars

(* What is said of a tracked delegation. *)
LookedOutFor(d) ==
    /\ SpentForGood(d) \/ \E output \in Output : IsWatched(d, output)
    /\ delegations[d].state = UnbondingRequested =>
          \/ StakingTaken(d)
          \/ IsWatched(d, "staking")
          \/ UnbondingReported(d)

(* A delegation that is tracked stays looked out for. *)
LEMMA TrackedGoesOn ==
    ASSUME IInv, HInv, IdleHasNone, ~ FaultsAllowed, [Next]_vars, ~ Restart,
           NEW d \in trackedSubs, LookedOutFor(d)
    PROVE  LookedOutFor(d)'
<1>1. /\ TypeOK /\ ChainConsistent /\ EventsConsistent
      /\ NoneActive /\ HandledIsEligible
      /\ d \in Delegations
  BY DEF IInv, HInv, TypeOK, SubscriberTypeOK
<1>2. /\ StakingTaken(d) => StakingTaken(d)'
      /\ SpentForGood(d) => SpentForGood(d)'
  BY <1>1, SpendsStay
<1>3. /\ StakingTaken(d) => SpentForGood(d)
      /\ unbondingSpend[d] # NoSpend => SpentForGood(d)
  BY DEF StakingTaken, SpentForGood
<1>4. \A output \in Output : IsWatched(d, output) => WatchGoesOn(d, output)
  BY <1>1, WatchesGoOn
<1>5. SpentForGood(d)' \/ \E output \in Output : IsWatched(d, output)'
  BY <1>2, <1>3, <1>4, Kinds DEF LookedOutFor, WatchGoesOn
<1>6. ASSUME delegations'[d].state = UnbondingRequested
      PROVE  \/ StakingTaken(d)'
             \/ IsWatched(d, "staking")'
             \/ UnbondingReported(d)'
  <2>1. delegations[d].state = UnbondingRequested
    BY <1>1, <1>6, RequestedBefore DEF NoneActive
  <2>2. CASE IsWatched(d, "staking")
    <3>1. WatchGoesOn(d, "staking")
      BY <1>4, <2>2, Kinds
    <3>2. CASE unbondingChan' = Append(unbondingChan, UnbondingEventFor(d))
      <4>1. UnbondingEventFor(d) \in UnbondingEvent
        BY <1>1, ConstantTypes, TypeFacts
           DEF UnbondingEventFor, UnbondingEvent, Spend
      <4>2. UnbondingEventFor(d).hash = d
        BY DEF UnbondingEventFor
      <4>3. \E i \in 1 .. Len(unbondingChan') : unbondingChan'[i].hash = d
        <5>1. unbondingChan \in Seq(UnbondingEvent)
          BY <1>1 DEF TypeOK, WatcherTypeOK
        <5>2. /\ Len(unbondingChan') = Len(unbondingChan) + 1
              /\ unbondingChan'[Len(unbondingChan) + 1] = UnbondingEventFor(d)
              /\ Len(unbondingChan) \in Nat
          BY <3>2, <4>1, <5>1, AppendProperties, LenProperties
        <5>3. Len(unbondingChan) + 1 \in 1 .. Len(unbondingChan')
          BY <5>2
        <5> QED BY <4>2, <5>2, <5>3
      <4> QED BY <4>3 DEF UnbondingReported
    <3> QED BY <1>2, <3>1, <3>2 DEF WatchGoesOn
  <2>3. CASE UnbondingReported(d)
    BY <1>1, <1>6, <2>1, <2>3, ReportGoesOn
  <2> QED BY <1>2, <2>1, <2>2, <2>3 DEF LookedOutFor
<1> QED BY <1>5, <1>6 DEF LookedOutFor

(* A delegation that joins the tracked ones gets its watcher, and a        *)
(* requested one that of its staking output.                               *)
LEMMA TrackedStarts ==
    ASSUME TypeOK, PageTellsRequests, [Next]_vars,
           NEW d \in trackedSubs', d \notin trackedSubs
    PROVE  LookedOutFor(d)'
<1>1. CASE Subscriber
  <2>1. PICK doc \in page :
           \/ WatchUnbondingOutput(doc) /\ d = doc.hash
           \/ WatchStakingOutput(doc) /\ d = doc.hash
    BY <1>1
       DEF Subscriber, SubscriberProgress, FetchPage, SkipTracked,
           ReportSpentOutput, WatchUnbondingOutput, WatchStakingOutput, Track
  <2>2. d \in Delegations /\ UNCHANGED delegations
    BY <1>1, <2>1
       DEF TypeOK, SubscriberTypeOK, PageDocument, Subscriber, storeVars
  <2>3. CASE WatchUnbondingOutput(doc)
    <3>1. watchers' = Started(watchers, d, "unbonding")
      BY <2>1, <2>3 DEF WatchUnbondingOutput, WatchStakingOutput
    <3>2. IsWatched(d, "unbonding")'
      BY <2>2, <3>1, StartedWatch, Kinds
    <3>3. delegations[d].state # UnbondingRequested
      BY <2>1, <2>3
         DEF WatchUnbondingOutput, HasUnbondingOutput, PageTellsRequests
    <3> QED BY <2>2, <3>2, <3>3, Kinds DEF LookedOutFor
  <2>4. CASE WatchStakingOutput(doc)
    <3>1. watchers' = Started(watchers, d, "staking")
      BY <2>1, <2>4 DEF WatchUnbondingOutput, WatchStakingOutput
    <3>2. IsWatched(d, "staking")'
      BY <2>2, <3>1, StartedWatch, Kinds
    <3> QED BY <3>2, Kinds DEF LookedOutFor
  <2> QED BY <2>1, <2>3, <2>4
<1>2. CASE trackedSubs' \subseteq trackedSubs
  BY <1>2
<1> QED
  BY <1>1, <1>2
     DEF Next, Chain, Api, Expiry, ExpiryFails, SubscriberFails,
         SubscriberFault, Watch, WatcherFails, UnbondingHandler,
         WithdrawnHandler, HandlerFails, Restart, MemoryLost, vars,
         memoryVars, subscriberVars

LEMMA NothingLostStep ==
    ASSUME IInv, HInv, NInv, [Next]_vars
    PROVE  NInv'
<1>1. TypeOK /\ NoneActive
  BY DEF IInv, HInv
<1>2. PageTellsRequests' /\ IdleHasNone'
  BY <1>1, PageTellsStep, IdleHasNoneStep DEF NInv
<1>3. NoSpendIsLost'
  <2> SUFFICES ASSUME ~ FaultsAllowed, NEW d \in trackedSubs'
               PROVE  LookedOutFor(d)'
    BY DEF NoSpendIsLost, LookedOutFor, StakingTaken
  <2>1. CASE d \notin trackedSubs
    BY <1>1, <2>1, TrackedStarts DEF NInv
  <2>2. CASE d \in trackedSubs
    <3>1. LookedOutFor(d)
      BY <2>2 DEF NInv, NoSpendIsLost, LookedOutFor, StakingTaken
    <3>2. ~ Restart
      BY DEF Restart, MemoryLost
    <3> QED BY <2>2, <3>1, <3>2, TrackedGoesOn DEF NInv
  <2> QED BY <2>1, <2>2
<1> QED BY <1>2, <1>3 DEF NInv

(* As long as no call fails, what is tracked is looked out for: a watcher  *)
(* of each tracked delegation waits until its funds are gone, and the      *)
(* unbonding of a requested one is with its watcher, in the channel or     *)
(* with the handler.                                                       *)
THEOREM NothingIsLost == Spec => []NoSpendIsLost
<1>1. Init => NInv
  BY DEF Init, MemoryInit, SubscriberInit, HandlerInit, NInv, NoSpendIsLost,
         PageTellsRequests, IdleHasNone
<1>2. IInv /\ HInv /\ NInv /\ [Next]_vars => NInv'
  BY NothingLostStep
<1>3. IInv => TypeOK
  BY DEF IInv
<1>4. NInv => NoSpendIsLost
  BY DEF NInv
<1> QED
  BY <1>1, <1>2, <1>3, <1>4, Invariant, HandlersInit, HandlersStep, PTL
     DEF Spec

==============================================================================
