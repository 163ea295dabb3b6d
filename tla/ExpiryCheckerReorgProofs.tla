---------------------- MODULE ExpiryCheckerReorgProofs ----------------------
(***************************************************************************)
(* What ExpiryChecker keeps true on a chain that reorganises, for any      *)
(* number of undone blocks.  Nothing the service holds can be compared     *)
(* with the chain of the moment; the argument compares it with what the    *)
(* chain has ever shown, which only grows.                                 *)
(***************************************************************************)
EXTENDS ExpiryCheckerReorg, ExpiryCheckerHandlerProofs

USE DEF Active, UnbondingRequested, Unbonding, Unbonded, Withdrawn,
        Transitioned, ActiveTxType, UnbondingTxType

HistoryTypeOK ==
    /\ minedAt \in [Delegations -> SUBSET (Nat \ {0})]
    /\ highest \in Nat

(* A spend is in a block after the first, and the history knows the blocks *)
(* of the unbonding transactions and the best height.                      *)
HistoryKnowsChain ==
    /\ tip <= highest
    /\ \A d \in Delegations :
          /\ stakingSpend[d].path # "none" => stakingSpend[d].height # 0
          /\ stakingSpend[d].path = "unbonding" =>
                stakingSpend[d].height \in minedAt[d]

(* Some block held the transaction whose timelock t stands for. *)
EntryWasTrue(t) ==
    IF t.txType = ActiveTxType
    THEN t.expireHeight = StakingExpiry(t.hash)
    ELSE \E h \in minedAt[t.hash] : t.expireHeight = h + UnbondingTime[t.hash]

(* What the queue says, and the poller read, was true once.                *)
HistoryKnowsPoll ==
    /\ btcTip <= highest
    /\ \A t \in timelockQueue \cup expiredBatch : EntryWasTrue(t)
    /\ \A t \in expiredBatch : t.expireHeight <= highest

(* The event reports one of the blocks in mined.                           *)
EventWasTrue(event, mined) ==
    /\ event.startHeight \in mined[event.hash]
    /\ event.timelock = UnbondingTime[event.hash]

HistoryKnowsEvents ==
    /\ \A i \in 1 .. Len(unbondingChan) :
          EventWasTrue(unbondingChan[i], minedAt)
    /\ \A event \in unbondingEvent : EventWasTrue(event, minedAt)

StakingWasFree(d) == highest >= StakingExpiry(d)

UnbondingWasFree(d) ==
    \E h \in minedAt[d] : highest >= h + UnbondingTime[d]

(* The two properties, document by document. *)
HistoryKnowsDocument(d) ==
    /\ delegations[d].unbondingTx # NoUnbondingTx =>
          delegations[d].unbondingTx.startHeight \in minedAt[d]
    /\ delegations[d].state = Unbonding =>
          delegations[d].unbondingTx # NoUnbondingTx
    /\ delegations[d].state = Active =>
          delegations[d].unbondingTx = NoUnbondingTx
    /\ delegations[d].state \in {Unbonded, Withdrawn} =>
          IF delegations[d].unbondingTx = NoUnbondingTx
          THEN StakingWasFree(d)
          ELSE UnbondingWasFree(d)

RInv ==
    /\ TypeOK
    /\ HistoryTypeOK
    /\ HistoryKnowsChain
    /\ HistoryKnowsPoll
    /\ HistoryKnowsEvents
    /\ \A d \in Delegations : HistoryKnowsDocument(d)

-----------------------------------------------------------------------------
(* The chain and its history                                               *)

LEMMA ReorgInitInv == ReorgInit => RInv
<1> SUFFICES ASSUME ReorgInit PROVE RInv
  OBVIOUS
<1>1. Init
  BY DEF ReorgInit
<1>2. TypeOK /\ HistoryTypeOK
  BY <1>1, InitTypes, ConstantTypes DEF ReorgInit, HistoryTypeOK
<1>3. \A d \in Delegations : /\ stakingSpend[d] = NoSpend
                             /\ delegations[d].state = Active
                             /\ delegations[d].unbondingTx = NoUnbondingTx
  BY <1>1 DEF Init, ChainInit, StoreInit
<1>4. HistoryKnowsChain
  <2>1. \A d \in Delegations : stakingSpend[d].path = "none"
    BY <1>1 DEF Init, ChainInit, NoSpend
  <2>2. tip <= highest
    BY <1>1, ConstantTypes DEF Init, ChainInit, ReorgInit
  <2> QED BY <2>1, <2>2 DEF HistoryKnowsChain
<1>5. HistoryKnowsPoll
  <2>1. \A t \in timelockQueue :
           /\ t.txType = ActiveTxType
           /\ t.expireHeight = StakingExpiry(t.hash)
    BY <1>1 DEF Init, StoreInit
  <2>2. btcTip = 0 /\ expiredBatch = {}
    BY <1>1 DEF Init, MemoryInit, ExpiryInit
  <2> QED BY <1>2, <2>1, <2>2 DEF HistoryKnowsPoll, EntryWasTrue, HistoryTypeOK
<1>6. HistoryKnowsEvents
  BY <1>1 DEF Init, MemoryInit, WatcherInit, HandlerInit, HistoryKnowsEvents
<1>7. \A d \in Delegations : HistoryKnowsDocument(d)
  BY <1>3 DEF HistoryKnowsDocument
<1> QED BY <1>2, <1>4, <1>5, <1>6, <1>7 DEF RInv

(* A step of the service, or an undone block, which it does not notice.    *)
LEMMA ReorgSteps ==
    ASSUME ReorgNext
    PROVE  /\ Next \/ UNCHANGED <<storeVars, memoryVars>>
           /\ [Next]_storeVars
  BY DEF ReorgNext, DisconnectBlock

LEMMA ReorgTypes ==
    ASSUME TypeOK, ReorgNext
    PROVE  TypeOK'
<1>1. CASE Next
  BY <1>1, TypeStep
<1>2. CASE DisconnectBlock
  <2>1. UNCHANGED <<storeVars, memoryVars, restarts>>
    BY <1>2 DEF DisconnectBlock
  <2>2. tip' \in Nat
    BY <1>2, ConstantTypes DEF DisconnectBlock, TypeOK, ChainTypeOK
  <2>3. \A f \in [Delegations -> Spend] :
           Surviving(f, tip) \in [Delegations -> Spend]
    BY DEF Surviving, NoSpend, Spend, SpendPath
  <2>4. ChainTypeOK'
    BY <1>2, <2>2, <2>3 DEF DisconnectBlock, TypeOK, ChainTypeOK
  <2> QED
    BY <2>1, <2>4
       DEF TypeOK, StoreTypeOK, ExpiryTypeOK, WatcherTypeOK, SubscriberTypeOK,
           HandlerTypeOK, storeVars, memoryVars, expiryVars, watcherVars,
           subscriberVars, handlerVars
<1> QED BY <1>1, <1>2 DEF ReorgNext

(* Every spend on the chain is in a block after the first. *)
LEMMA SpendHeights ==
    ASSUME TypeOK, HistoryKnowsChain, ReorgNext, NEW d \in Delegations,
           stakingSpend'[d].path # "none"
    PROVE  stakingSpend'[d].height # 0
<1> USE DEF TypeOK, ChainTypeOK
<1>1. \/ ChainNext
      \/ DisconnectBlock
      \/ UNCHANGED chainVars
  BY DEF ReorgNext, Next, Chain, Api, Expiry, ExpiryFails, Subscriber,
         SubscriberFails, Watch, WatcherFails, UnbondingHandler,
         WithdrawnHandler, HandlerFails, Restart
<1>2. CASE ChainNext
  BY <1>2
     DEF ChainNext, MineEmptyBlock, MineStakingSpend, MineUnbondingSpend,
         NextBlock, HistoryKnowsChain
<1>3. CASE DisconnectBlock
  BY <1>3 DEF DisconnectBlock, Surviving, NoSpend, HistoryKnowsChain
<1>4. CASE UNCHANGED chainVars
  BY <1>4 DEF chainVars, HistoryKnowsChain
<1> QED BY <1>1, <1>2, <1>3, <1>4

LEMMA HistoryGrows ==
    ASSUME RInv, ReorgNext
    PROVE  /\ HistoryTypeOK'
           /\ \A d \in Delegations : minedAt[d] \subseteq minedAt'[d]
           /\ highest <= highest'
           /\ HistoryKnowsChain'
<1> USE DEF RInv, HistoryTypeOK
<1>1. TypeOK'
  BY ReorgTypes
<1>2. \A d \in Delegations :
         /\ stakingSpend'[d].height \in Nat
         /\ stakingSpend'[d].path # "none" => stakingSpend'[d].height # 0
  BY <1>1, SpendHeights DEF TypeOK, ChainTypeOK, Spend
<1>3. minedAt' = [d \in Delegations |->
          minedAt[d] \cup (IF stakingSpend'[d].path = "unbonding"
                           THEN {stakingSpend'[d].height} ELSE {})]
  BY DEF ReorgNext, Remember
<1>4. /\ \A d \in Delegations :
            /\ minedAt[d] \subseteq minedAt'[d]
            /\ stakingSpend'[d].path = "unbonding" =>
                  stakingSpend'[d].height \in minedAt'[d]
      /\ minedAt' \in [Delegations -> SUBSET (Nat \ {0})]
  BY <1>2, <1>3
<1>5. highest' \in Nat /\ highest <= highest' /\ tip' <= highest'
  BY <1>1 DEF ReorgNext, Remember, TypeOK, ChainTypeOK
<1> QED BY <1>2, <1>4, <1>5 DEF HistoryKnowsChain

(* What was true once stays so.                                            *)
LEMMA EntryStaysTrue ==
    ASSUME RInv, ReorgNext, NEW t, t.hash \in Delegations, EntryWasTrue(t)
    PROVE  EntryWasTrue(t)'
  BY HistoryGrows DEF EntryWasTrue, StakingExpiry

LEMMA FreeStaysTrue ==
    ASSUME RInv, ReorgNext, NEW d \in Delegations
    PROVE  /\ StakingWasFree(d) => StakingWasFree(d)'
           /\ UnbondingWasFree(d) => UnbondingWasFree(d)'
<1>1. /\ minedAt[d] \subseteq minedAt'[d]
      /\ minedAt'[d] \subseteq Nat
      /\ highest \in Nat /\ highest' \in Nat /\ highest <= highest'
  BY HistoryGrows DEF RInv, HistoryTypeOK
<1>2. StakingExpiry(d) \in Nat /\ UnbondingTime[d] \in Nat
  BY ConstantTypes DEF StakingExpiry
<1> QED BY <1>1, <1>2 DEF StakingWasFree, UnbondingWasFree, StakingExpiry

-----------------------------------------------------------------------------
(* The poller and the queue                                                *)

LEMMA QueueStep ==
    ASSUME RInv, ReorgNext
    PROVE  \A t \in timelockQueue' : EntryWasTrue(t)
<1> USE DEF RInv
<1>1. \/ timelockQueue' \subseteq timelockQueue
      \/ \E event \in unbondingEvent : SaveNewTimeLockExpire(event)
  BY DEF ReorgNext, DisconnectBlock, Next, Chain, Api, ApiNext, ApiTransition,
         Expiry, ExpiryFails, ExpiryProgress, ExpiryTick,
         FindExpiredDelegations, TransitionExpired, DeleteExpired,
         DeleteExpiredDelegation, ExpiryFault, Subscriber, SubscriberFails,
         Watch, WatcherFails, UnbondingHandler, WithdrawnHandler,
         HandlerFails, UnbondingProgress, UnbondingFault, WithdrawnProgress,
         WithdrawnFault, AcceptUnbonding, DropUnbonding, SaveUnbondingExpiry,
         StartUnbonding, AcceptWithdrawn, DropWithdrawn, Withdraw, Restart,
         storeVars
<1>2. ASSUME NEW event \in unbondingEvent, SaveNewTimeLockExpire(event),
             NEW t \in timelockQueue'
      PROVE  EntryWasTrue(t)
  <2>1. \/ t \in timelockQueue
        \/ /\ t.hash = event.hash
           /\ t.txType = UnbondingTxType
           /\ t.expireHeight = event.startHeight + event.timelock
    BY <1>2 DEF SaveNewTimeLockExpire, SaveTimeLockExpireCheck
  <2>2. EventWasTrue(event, minedAt)
    BY DEF HistoryKnowsEvents
  <2> QED
    BY <2>1, <2>2 DEF HistoryKnowsPoll, EntryWasTrue, EventWasTrue
<1> QED BY <1>1, <1>2 DEF HistoryKnowsPoll

LEMMA PollStep ==
    ASSUME RInv, ReorgNext
    PROVE  HistoryKnowsPoll'
<1> USE DEF RInv
<1>1. /\ highest \in Nat /\ highest' \in Nat /\ highest <= highest'
      /\ tip \in Nat /\ tip <= highest
      /\ btcTip \in Nat /\ btcTip <= highest
      /\ \A t \in timelockQueue \cup expiredBatch : t.expireHeight \in Nat
  BY HistoryGrows, TypeFacts
     DEF HistoryTypeOK, HistoryKnowsChain, HistoryKnowsPoll
<1>2. /\ TypeOK'
      /\ timelockQueue' \subseteq TimeLockDocument
      /\ expiredBatch' \subseteq TimeLockDocument
  BY ReorgTypes DEF TypeOK, StoreTypeOK, ExpiryTypeOK
<1>3. \A t \in timelockQueue' : EntryWasTrue(t)
  BY QueueStep
<1>4. /\ btcTip' <= highest'
      /\ \A t \in expiredBatch' :
            EntryWasTrue(t) /\ t.expireHeight <= highest
  <2>1. CASE ExpiryTick
    BY <1>1, <2>1 DEF ExpiryTick, HistoryKnowsPoll
  <2>2. CASE FindExpiredDelegations
    <3>1. \A t \in expiredBatch' :
             t \in timelockQueue /\ t.expireHeight <= btcTip
      BY <2>2 DEF FindExpiredDelegations, IsExpiredBatch, Expired
    <3>2. btcTip' \in {0, btcTip}
      BY <2>2 DEF FindExpiredDelegations
    <3> QED BY <1>1, <3>1, <3>2 DEF HistoryKnowsPoll
  <2>3. CASE /\ btcTip' \in {0, btcTip}
             /\ expiredBatch' \subseteq expiredBatch
    BY <1>1, <2>3 DEF HistoryKnowsPoll
  <2>4. CASE Expiry \/ ExpiryFails
    BY <2>1, <2>2, <2>3, <2>4
       DEF Expiry, ExpiryFails, ExpiryProgress, TransitionExpired,
           DeleteExpired, ExpiryFault, EndExpiryPoll
  <2>5. CASE Restart
    BY <2>3, <2>5 DEF Restart, MemoryLost, EndExpiryPoll
  <2> QED
    BY <2>3, <2>4, <2>5
       DEF ReorgNext, DisconnectBlock, Next, Chain, Api, Subscriber,
           SubscriberFails, Watch, WatcherFails, UnbondingHandler,
           WithdrawnHandler, HandlerFails, memoryVars, expiryVars
<1>5. \A t \in timelockQueue' \cup expiredBatch' :
         EntryWasTrue(t)' /\ t.expireHeight \in Nat
  BY <1>2, <1>3, <1>4, EntryStaysTrue DEF TimeLockDocument
<1>6. \A t \in expiredBatch' : t.expireHeight <= highest'
  BY <1>1, <1>4, <1>5
<1> QED BY <1>4, <1>5, <1>6 DEF HistoryKnowsPoll

-----------------------------------------------------------------------------
(* The events                                                              *)

LEMMA ReorgUnbondingChan ==
    ASSUME RInv, ReorgNext
    PROVE  \/ unbondingChan' \in {unbondingChan, <<>>}
           \/ unbondingChan # <<>> /\ unbondingChan' = Tail(unbondingChan)
           \/ \E d \in Delegations :
                 /\ stakingSpend[d].path = "unbonding"
                 /\ unbondingChan' = Append(unbondingChan, UnbondingEventFor(d))
<1>1. CASE (\E d \in Delegations : Watch(d)) \/ WatcherFails
  BY <1>1
     DEF Watch, WatcherFails, WatcherProgress, StakingSpentByUnbonding,
         IsValidUnbondingTx, PushUnbonding, RegisterSpendNtfn,
         SpentByTimelock, SpentOtherwise, WatcherFault
<1>2. CASE UnbondingHandler \/ WithdrawnHandler \/ HandlerFails
  BY <1>2
     DEF UnbondingHandler, WithdrawnHandler, HandlerFails, UnbondingProgress,
         UnbondingFault, WithdrawnProgress, WithdrawnFault, AcceptUnbonding,
         DropUnbonding, ReceiveUnbonding, SaveUnbondingExpiry, StartUnbonding,
         AcceptWithdrawn, DropWithdrawn, Withdraw, watcherVars
<1>3. CASE Subscriber \/ SubscriberFails
  BY <1>3
     DEF Subscriber, SubscriberFails, SubscriberProgress, SubscriberFault,
         FetchPage, SkipTracked, ReportSpentOutput, WatchUnbondingOutput,
         WatchStakingOutput, watcherVars
<1>4. CASE Restart
  BY <1>4 DEF Restart, MemoryLost
<1>5. CASE UNCHANGED watcherVars
  BY <1>5 DEF watcherVars
<1> QED
  BY <1>1, <1>2, <1>3, <1>4, <1>5
     DEF ReorgNext, DisconnectBlock, Next, Chain, Api, Expiry, ExpiryFails,
         memoryVars

LEMMA ReorgEventStep ==
    ASSUME RInv, ReorgNext
    PROVE  HistoryKnowsEvents'
<1> USE DEF RInv
<1>1. \A d \in Delegations : minedAt[d] \subseteq minedAt'[d]
  BY HistoryGrows
<1>2. /\ unbondingChan \in Seq(UnbondingEvent)
      /\ \A i \in 1 .. Len(unbondingChan) :
            unbondingChan[i].hash \in Delegations
      /\ \A event \in unbondingEvent : event.hash \in Delegations
  <2>1. unbondingChan \in Seq(UnbondingEvent)
    BY DEF TypeOK, WatcherTypeOK
  <2>2. \A i \in 1 .. Len(unbondingChan) : unbondingChan[i] \in UnbondingEvent
    BY <2>1, ElementOfSeq
  <2> QED BY <2>1, <2>2 DEF TypeOK, HandlerTypeOK, UnbondingEvent
<1>3. \A i \in 1 .. Len(unbondingChan) :
         EventWasTrue(unbondingChan[i], minedAt')
  BY <1>1, <1>2 DEF HistoryKnowsEvents, EventWasTrue
<1>4. \A i \in 1 .. Len(unbondingChan') :
         EventWasTrue(unbondingChan'[i], minedAt')
  <2>1. CASE unbondingChan' \in {unbondingChan, <<>>}
    BY <1>3, <2>1
  <2>2. CASE unbondingChan # <<>> /\ unbondingChan' = Tail(unbondingChan)
    <3>1. /\ Len(unbondingChan') = Len(unbondingChan) - 1
          /\ \A i \in 1 .. Len(unbondingChan') :
                unbondingChan'[i] = unbondingChan[i + 1]
      BY <1>2, <2>2, HeadTailProperties
    <3>2. Len(unbondingChan) \in Nat
      BY <1>2, LenProperties
    <3>3. \A i \in 1 .. Len(unbondingChan') : i + 1 \in 1 .. Len(unbondingChan)
      BY <3>1, <3>2
    <3> QED BY <1>3, <3>1, <3>3
  <2>3. ASSUME NEW d \in Delegations, stakingSpend[d].path = "unbonding",
               unbondingChan' = Append(unbondingChan, UnbondingEventFor(d))
        PROVE  \A i \in 1 .. Len(unbondingChan') :
                  EventWasTrue(unbondingChan'[i], minedAt')
    <3>1. UnbondingEventFor(d) \in UnbondingEvent
      BY ConstantTypes, TypeFacts DEF UnbondingEventFor, UnbondingEvent, Spend
    <3>2. EventWasTrue(UnbondingEventFor(d), minedAt')
      BY <1>1, <2>3 DEF HistoryKnowsChain, UnbondingEventFor, EventWasTrue
    <3>3. /\ Len(unbondingChan') = Len(unbondingChan) + 1
          /\ \A i \in 1 .. Len(unbondingChan) :
                unbondingChan'[i] = unbondingChan[i]
          /\ unbondingChan'[Len(unbondingChan) + 1] = UnbondingEventFor(d)
      BY <1>2, <2>3, <3>1, AppendProperties
    <3>4. \A i \in 1 .. Len(unbondingChan') :
             i \in 1 .. Len(unbondingChan) \/ i = Len(unbondingChan) + 1
      BY <1>2, <3>3, LenProperties
    <3> QED BY <1>3, <3>2, <3>3, <3>4
  <2> QED BY <2>1, <2>2, <2>3, ReorgUnbondingChan
<1>5. \A event \in unbondingEvent' : EventWasTrue(event, minedAt')
  <2>1. \/ unbondingEvent' \subseteq unbondingEvent
        \/ AcceptUnbonding
    BY DEF ReorgNext, DisconnectBlock, Next, Chain, Api, Expiry, ExpiryFails,
           Subscriber, SubscriberFails, Watch, WatcherFails, UnbondingHandler,
           WithdrawnHandler, HandlerFails, UnbondingProgress, UnbondingFault,
           WithdrawnProgress, WithdrawnFault, DropUnbonding,
           SaveUnbondingExpiry, StartUnbonding, AcceptWithdrawn,
           DropWithdrawn, Withdraw, Restart, MemoryLost, EndUnbonding,
           memoryVars, handlerVars
  <2>2. CASE AcceptUnbonding
    <3>1. unbondingChan # <<>> /\ unbondingEvent' = {Head(unbondingChan)}
      BY <2>2 DEF AcceptUnbonding, ReceiveUnbonding
    <3>2. /\ Head(unbondingChan) = unbondingChan[1]
          /\ 1 \in 1 .. Len(unbondingChan)
      BY <1>2, <3>1, LenProperties, EmptySeq
    <3> QED BY <1>3, <3>1, <3>2
  <2>3. \A event \in unbondingEvent : EventWasTrue(event, minedAt')
    BY <1>1, <1>2 DEF HistoryKnowsEvents, EventWasTrue
  <2> QED BY <2>1, <2>2, <2>3
<1> QED BY <1>4, <1>5 DEF HistoryKnowsEvents

-----------------------------------------------------------------------------
(* The documents                                                           *)

(* What the expiry of an entry allows.                                     *)
LEMMA ExpiredWasTrue ==
    ASSUME RInv, NEW t \in expiredBatch
    PROVE  /\ t.txType = ActiveTxType => StakingWasFree(t.hash)
           /\ t.txType # ActiveTxType => UnbondingWasFree(t.hash)
<1>1. EntryWasTrue(t) /\ t.expireHeight <= highest
  BY DEF RInv, HistoryKnowsPoll
<1>2. t.hash \in Delegations /\ t.expireHeight \in Nat /\ highest \in Nat
  BY TypeFacts DEF RInv, HistoryTypeOK
<1>3. CASE t.txType = ActiveTxType
  BY <1>1, <1>2, <1>3 DEF EntryWasTrue, StakingWasFree
<1>4. CASE t.txType # ActiveTxType
  <2>1. PICK h \in minedAt[t.hash] : t.expireHeight = h + UnbondingTime[t.hash]
    BY <1>1, <1>4 DEF EntryWasTrue
  <2> QED BY <1>1, <1>2, <1>4, <2>1 DEF UnbondingWasFree
<1> QED BY <1>3, <1>4

LEMMA DocumentStays ==
    ASSUME RInv, ReorgNext, NEW d \in Delegations
    PROVE  HistoryKnowsDocument(d)'
<1> USE DEF RInv
<1>1. /\ minedAt[d] \subseteq minedAt'[d]
      /\ StakingWasFree(d) => StakingWasFree(d)'
      /\ UnbondingWasFree(d) => UnbondingWasFree(d)'
  BY HistoryGrows, FreeStaysTrue
<1>2. HistoryKnowsDocument(d) /\ StoreTypeOK
  BY DEF TypeOK
<1>3. CASE delegations'[d] = delegations[d]
  BY <1>1, <1>2, <1>3 DEF HistoryKnowsDocument
<1>4. CASE ApiNext
  <2>1. PICK e \in Delegations, s \in {UnbondingRequested, Transitioned} :
           delegations' = [delegations EXCEPT ![e].state = s]
    BY <1>4 DEF ApiNext, ApiTransition
  <2>2. \/ delegations'[d] = delegations[d]
        \/ /\ delegations'[d].state \in {UnbondingRequested, Transitioned}
           /\ delegations'[d].unbondingTx = delegations[d].unbondingTx
    BY <1>2, <2>1 DEF StoreTypeOK, DelegationDocument
  <2> QED BY <1>1, <1>2, <1>3, <2>2 DEF HistoryKnowsDocument
<1>5. ASSUME NEW t \in expiredBatch,
             delegations' = TransitionToUnbondedState(
                                t.hash, QualifiedStatesToUnbonded(t.txType))
      PROVE  HistoryKnowsDocument(d)'
  <2>1. t.hash \in Delegations
    BY TypeFacts
  <2>2. \/ delegations'[d] = delegations[d]
        \/ /\ d = t.hash
           /\ delegations[d].state \in QualifiedStatesToUnbonded(t.txType)
           /\ delegations'[d].state = Unbonded
           /\ delegations'[d].unbondingTx = delegations[d].unbondingTx
    BY <1>2, <1>5, <2>1, TransitionEffect DEF TransitionToUnbondedState
  <2>3. CASE delegations'[d] # delegations[d] /\ t.txType = ActiveTxType
    <3>1. StakingWasFree(d)'
      BY <1>1, <2>2, <2>3, ExpiredWasTrue
    <3> QED
      BY <1>2, <2>2, <2>3, <3>1
         DEF HistoryKnowsDocument, QualifiedStatesToUnbonded
  <2>4. CASE delegations'[d] # delegations[d] /\ t.txType # ActiveTxType
    <3>1. UnbondingWasFree(d)'
      BY <1>1, <2>2, <2>4, ExpiredWasTrue
    <3> QED
      BY <1>1, <1>2, <2>2, <2>4, <3>1
         DEF HistoryKnowsDocument, QualifiedStatesToUnbonded
  <2> QED BY <1>3, <2>3, <2>4
<1>6. ASSUME NEW event \in unbondingEvent,
             delegations' = TransitionToUnbondingState(
                                event.hash, event.startHeight, event.timelock)
      PROVE  HistoryKnowsDocument(d)'
  <2>1. event.hash \in Delegations
    BY DEF TypeOK, HandlerTypeOK, UnbondingEvent
  <2>2. \/ delegations'[d] = delegations[d]
        \/ /\ d = event.hash
           /\ delegations'[d].state = Unbonding
           /\ delegations'[d].unbondingTx =
                 [startHeight |-> event.startHeight, timelock |-> event.timelock]
    BY <1>2, <1>6, <2>1, TransitionEffect DEF TransitionToUnbondingState
  <2>3. event.startHeight \in minedAt[event.hash] /\ event.startHeight # 0
    BY <2>1 DEF HistoryKnowsEvents, EventWasTrue, HistoryTypeOK
  <2> QED
    BY <1>1, <1>3, <2>2, <2>3 DEF HistoryKnowsDocument, NoUnbondingTx
<1>7. ASSUME NEW e \in withdrawing,
             delegations' = TransitionToWithdrawnState(
                                e, QualifiedStatesToWithdraw)
      PROVE  HistoryKnowsDocument(d)'
  <2>1. e \in Delegations
    BY DEF TypeOK, HandlerTypeOK
  <2>2. \/ delegations'[d] = delegations[d]
        \/ /\ delegations[d].state = Unbonded
           /\ delegations'[d].state = Withdrawn
           /\ delegations'[d].unbondingTx = delegations[d].unbondingTx
    BY <1>2, <1>7, <2>1, TransitionEffect
       DEF TransitionToWithdrawnState, QualifiedStatesToWithdraw
  <2> QED BY <1>1, <1>2, <1>3, <2>2 DEF HistoryKnowsDocument
<1> QED BY <1>3, <1>4, <1>5, <1>6, <1>7, DocumentChanges, ReorgSteps

-----------------------------------------------------------------------------

LEMMA ReorgStep == RInv /\ [ReorgNext]_reorgVars => RInv'
<1>1. ASSUME RInv, ReorgNext PROVE RInv'
  BY <1>1, ReorgTypes, HistoryGrows, PollStep, ReorgEventStep, DocumentStays
     DEF RInv
<1>2. ASSUME RInv, UNCHANGED reorgVars PROVE RInv'
  <2>1. UNCHANGED vars /\ UNCHANGED historyVars
    BY <1>2 DEF reorgVars
  <2>2. TypeOK'
    BY <1>2, <2>1, TypeStep DEF RInv
  <2>3. /\ UNCHANGED <<tip, stakingSpend, delegations, timelockQueue, btcTip,
                       expiredBatch, unbondingChan, unbondingEvent>>
        /\ UNCHANGED <<minedAt, highest>>
    BY <2>1
       DEF vars, historyVars, chainVars, storeVars, memoryVars, expiryVars,
           watcherVars, handlerVars
  <2>4. HistoryKnowsPoll'
    BY <1>2, <2>3 DEF RInv, HistoryKnowsPoll, EntryWasTrue, StakingExpiry
  <2>5. \A d \in Delegations : HistoryKnowsDocument(d)'
    BY <1>2, <2>3
       DEF RInv, HistoryKnowsDocument, StakingWasFree, UnbondingWasFree,
           StakingExpiry
  <2> QED
    BY <1>2, <2>2, <2>3, <2>4, <2>5
       DEF RInv, HistoryTypeOK, HistoryKnowsChain, HistoryKnowsEvents,
           EventWasTrue
<1> QED BY <1>1, <1>2

(* TransitionToUnbondingState records no height that the notifier has not  *)
(* reported from a block, however many blocks are undone before the event  *)
(* reaches the handler.                                                    *)
THEOREM RecordedHeights == ReorgSpec => []RecordedWasMined
<1>1. RInv => RecordedWasMined
  BY DEF RInv, HistoryKnowsDocument, RecordedWasMined
<1> QED BY <1>1, ReorgInitInv, ReorgStep, PTL DEF ReorgSpec

(* processExpiredDelegations unbonds a delegation only if the timelock its *)
(* funds were under was over in some block.                                *)
THEOREM ExpiredOnce == ReorgSpec => []ExpiredWasFree
<1>1. RInv => ExpiredWasFree
  BY DEF RInv, HistoryKnowsDocument, ExpiredWasFree, StakingWasFree,
         UnbondingWasFree
<1> QED BY <1>1, ReorgInitInv, ReorgStep, PTL DEF ReorgSpec

-----------------------------------------------------------------------------
(* The entries of active delegations.  Nothing here looks at the chain.    *)

PollHolds ==
    /\ \A t, u \in timelockQueue : t.id = u.id => t = u
    /\ BatchIsQueued
    /\ expiryPc # "delete" => current = {}
    /\ \A t \in current :
          t.txType = ActiveTxType => delegations[t.hash].state # Active

QInv == RInv /\ PollHolds /\ ActiveHasTimelock

LEMMA ActiveWasActive ==
    ASSUME TypeOK, ReorgNext, NEW d \in Delegations,
           delegations'[d].state = Active
    PROVE  delegations[d].state = Active
  BY StaysInactive DEF ReorgNext, DisconnectBlock, storeVars

(* What a step that deletes an entry leaves. *)
LEMMA DeletedEntry ==
    ASSUME QInv, NEW t \in current,
           timelockQueue' = DeleteExpiredDelegation(t.id)
    PROVE  /\ timelockQueue' = timelockQueue \ {t}
           /\ t.txType = ActiveTxType => delegations[t.hash].state # Active
<1>1. t \in timelockQueue
  BY DEF QInv, PollHolds, BatchIsQueued
<1> QED BY <1>1 DEF QInv, PollHolds, DeleteExpiredDelegation

(* No step takes out of the queue what an active delegation needs. *)
LEMMA ActiveEntryStays ==
    ASSUME QInv, ReorgNext, NEW t \in timelockQueue,
           t.txType = ActiveTxType, delegations[t.hash].state = Active
    PROVE  t \in timelockQueue'
<1>1. \/ UNCHANGED timelockQueue
      \/ \E event \in unbondingEvent : SaveNewTimeLockExpire(event)
      \/ \E u \in current : timelockQueue' = DeleteExpiredDelegation(u.id)
  BY DEF ReorgNext, DisconnectBlock, Next, Chain, Api, ApiNext, ApiTransition,
         Expiry, ExpiryFails, ExpiryProgress, ExpiryTick,
         FindExpiredDelegations, TransitionExpired, DeleteExpired,
         ExpiryFault, Subscriber, SubscriberFails,
         Watch, WatcherFails, UnbondingHandler, WithdrawnHandler,
         HandlerFails, UnbondingProgress, UnbondingFault, WithdrawnProgress,
         WithdrawnFault, AcceptUnbonding, DropUnbonding, SaveUnbondingExpiry,
         StartUnbonding, AcceptWithdrawn, DropWithdrawn, Withdraw, Restart,
         storeVars
<1>2. CASE \E event \in unbondingEvent : SaveNewTimeLockExpire(event)
  BY <1>2 DEF SaveNewTimeLockExpire, SaveTimeLockExpireCheck
<1>3. CASE \E u \in current : timelockQueue' = DeleteExpiredDelegation(u.id)
  BY <1>3, DeletedEntry
<1> QED BY <1>1, <1>2, <1>3

LEMMA ActiveHasTimelockStep ==
    ASSUME QInv, ReorgNext
    PROVE  ActiveHasTimelock'
<1> SUFFICES ASSUME NEW d \in Delegations, delegations'[d].state = Active
             PROVE  Queued(d, ActiveTxType, StakingExpiry(d))'
  BY DEF ActiveHasTimelock
<1>1. delegations[d].state = Active
  BY ActiveWasActive DEF QInv, RInv
<1>2. PICK t \in timelockQueue :
         /\ t.hash = d
         /\ t.txType = ActiveTxType
         /\ t.expireHeight = StakingExpiry(d)
  BY <1>1 DEF QInv, ActiveHasTimelock, Queued
<1>3. t \in timelockQueue'
  BY <1>1, <1>2, ActiveEntryStays
<1> QED BY <1>2, <1>3 DEF Queued, StakingExpiry

LEMMA IdsStayUnique ==
    ASSUME QInv, ReorgNext
    PROVE  \A t, u \in timelockQueue' : t.id = u.id => t = u
<1>1. \/ timelockQueue' \subseteq timelockQueue
      \/ \E event \in unbondingEvent : SaveNewTimeLockExpire(event)
  BY DEF ReorgNext, DisconnectBlock, Next, Chain, Api, ApiNext, ApiTransition,
         Expiry, ExpiryFails, ExpiryProgress, ExpiryTick,
         FindExpiredDelegations, TransitionExpired, DeleteExpired,
         DeleteExpiredDelegation, ExpiryFault, Subscriber, SubscriberFails,
         Watch, WatcherFails, UnbondingHandler, WithdrawnHandler,
         HandlerFails, UnbondingProgress, UnbondingFault, WithdrawnProgress,
         WithdrawnFault, AcceptUnbonding, DropUnbonding, SaveUnbondingExpiry,
         StartUnbonding, AcceptWithdrawn, DropWithdrawn, Withdraw, Restart,
         storeVars
<1>2. CASE timelockQueue' \subseteq timelockQueue
  BY <1>2 DEF QInv, PollHolds
<1>3. ASSUME NEW event \in unbondingEvent, SaveNewTimeLockExpire(event)
      PROVE  \A t, u \in timelockQueue' : t.id = u.id => t = u
  <2>1. PICK i \in TimelockIds :
           /\ \A t \in timelockQueue : t.id # i
           /\ timelockQueue' = timelockQueue \cup
                 {[id |-> i, hash |-> event.hash,
                   expireHeight |-> event.startHeight + event.timelock,
                   txType |-> UnbondingTxType]}
    BY <1>3, SaveEffect DEF SaveNewTimeLockExpire
  <2> DEFINE entry == [id |-> i, hash |-> event.hash,
                       expireHeight |-> event.startHeight + event.timelock,
                       txType |-> UnbondingTxType]
  <2>2. entry.id = i /\ timelockQueue' = timelockQueue \cup {entry}
    BY <2>1
  <2> HIDE DEF entry
  <2> QED BY <2>1, <2>2 DEF QInv, PollHolds
<1> QED BY <1>1, <1>2, <1>3

LEMMA PollHoldsStep ==
    ASSUME QInv, ReorgNext
    PROVE  PollHolds'
<1> USE DEF QInv
<1>1. \A t, u \in timelockQueue' : t.id = u.id => t = u
  BY IdsStayUnique
<1>2. \A d \in Delegations :
         delegations'[d].state = Active => delegations[d].state = Active
  BY ActiveWasActive DEF RInv
<1>3. \A t \in current : t.hash \in Delegations
  BY TypeFacts DEF RInv
<1>4. CASE UNCHANGED expiryVars /\ timelockQueue \subseteq timelockQueue'
  BY <1>1, <1>2, <1>3, <1>4 DEF PollHolds, BatchIsQueued, expiryVars
<1>5. CASE EndExpiryPoll
  BY <1>1, <1>5 DEF PollHolds, BatchIsQueued, EndExpiryPoll
<1>6. CASE ExpiryTick
  BY <1>1, <1>2, <1>3, <1>6
     DEF ExpiryTick, PollHolds, BatchIsQueued, storeVars
<1>7. CASE FindExpiredDelegations
  BY <1>1, <1>7
     DEF FindExpiredDelegations, PollHolds, BatchIsQueued, storeVars
<1>8. ASSUME NEW t \in expiredBatch, TransitionExpired(t)
      PROVE  PollHolds'
  <2>1. /\ current' = {t}
        /\ expiryPc' = "delete"
        /\ UNCHANGED <<expiredBatch, timelockQueue>>
    BY <1>8 DEF TransitionExpired
  <2>2. t.txType = ActiveTxType => delegations'[t.hash].state # Active
    BY <1>8, TypeFacts
       DEF RInv, TypeOK, StoreTypeOK, TransitionExpired,
           TransitionToUnbondedState, TransitionState,
           QualifiedStatesToUnbonded
  <2> QED BY <1>1, <2>1, <2>2 DEF PollHolds, BatchIsQueued
<1>9. CASE DeleteExpired
  <2>1. PICK t \in current :
           /\ timelockQueue' = DeleteExpiredDelegation(t.id)
           /\ \/ EndExpiryPoll
              \/ expiredBatch' = expiredBatch \ {t} /\ current' = {}
    BY <1>9 DEF DeleteExpired
  <2>2. timelockQueue' = timelockQueue \ {t}
    BY <2>1, DeletedEntry
  <2> QED BY <1>1, <1>5, <2>1, <2>2 DEF PollHolds, BatchIsQueued
<1>10. CASE Expiry \/ ExpiryFails
  BY <1>5, <1>6, <1>7, <1>8, <1>9, <1>10
     DEF Expiry, ExpiryFails, ExpiryProgress, ExpiryFault
<1>11. CASE UnbondingHandler \/ WithdrawnHandler \/ HandlerFails
  <2>1. UNCHANGED expiryVars
    BY <1>11 DEF UnbondingHandler, WithdrawnHandler, HandlerFails
  <2>2. timelockQueue \subseteq timelockQueue'
    BY <1>11
       DEF UnbondingHandler, WithdrawnHandler, HandlerFails,
           UnbondingProgress, UnbondingFault, WithdrawnProgress,
           WithdrawnFault, AcceptUnbonding, DropUnbonding,
           SaveUnbondingExpiry, SaveNewTimeLockExpire,
           SaveTimeLockExpireCheck, StartUnbonding, AcceptWithdrawn,
           DropWithdrawn, Withdraw, storeVars
  <2> QED BY <1>4, <2>1, <2>2
<1>12. CASE UNCHANGED expiryVars /\ UNCHANGED timelockQueue
  BY <1>4, <1>12
<1> QED
  BY <1>5, <1>10, <1>11, <1>12
     DEF ReorgNext, DisconnectBlock, Next, Chain, Api, ApiNext,
         ApiTransition, Subscriber, SubscriberFails, Watch, WatcherFails,
         Restart, MemoryLost, memoryVars, storeVars

LEMMA QInvInit == ReorgInit => QInv
<1> SUFFICES ASSUME ReorgInit PROVE QInv
  OBVIOUS
<1>1. RInv /\ IInv
  BY ReorgInitInv, InitInv DEF ReorgInit
<1> QED
  BY <1>1 DEF IInv, QInv, PollHolds, QueueConsistent, PollConsistent

LEMMA QInvStep == QInv /\ [ReorgNext]_reorgVars => QInv'
<1>1. ASSUME QInv, ReorgNext PROVE QInv'
  BY <1>1, ReorgStep, PollHoldsStep, ActiveHasTimelockStep DEF QInv
<1>2. ASSUME QInv, UNCHANGED reorgVars PROVE QInv'
  <2>1. RInv'
    BY <1>2, ReorgStep DEF QInv
  <2>2. UNCHANGED <<delegations, timelockQueue, expiryPc, expiredBatch,
                    current>>
    BY <1>2
       DEF reorgVars, vars, storeVars, memoryVars, expiryVars
  <2> QED
    BY <1>2, <2>1, <2>2
       DEF QInv, PollHolds, BatchIsQueued, ActiveHasTimelock, Queued,
           StakingExpiry
<1> QED BY <1>1, <1>2

(* TransitionToUnbondedState comes before DeleteExpiredDelegation: however *)
(* many blocks are undone, and wherever the process ends, an active        *)
(* delegation keeps the entry that will unbond it.                         *)
THEOREM ActiveKeepsTimelock == ReorgSpec => []ActiveHasTimelock
<1>1. QInv => ActiveHasTimelock
  BY DEF QInv
<1> QED BY <1>1, QInvInit, QInvStep, PTL DEF ReorgSpec

(* DeleteExpiredDelegation always finds its document: an undone block      *)
(* makes nobody else delete one.                                           *)
THEOREM BatchDespiteReorgs == ReorgSpec => []BatchIsQueued
<1>1. QInv => BatchIsQueued
  BY DEF QInv, PollHolds
<1> QED BY <1>1, QInvInit, QInvStep, PTL DEF ReorgSpec

-----------------------------------------------------------------------------
(* Withdrawals.  A report rests on a timelock spend, or on an output that  *)
(* GetTxOut did not find: that one is looked for only when an unbonding    *)
(* transaction is recorded, and a recorded one is never taken back.        *)

GoneOrUnbonded(d) ==
    d \in everGone \/ delegations[d].unbondingTx # NoUnbondingTx

WithdrawalsKnown ==
    /\ \A d \in Delegations : OutputGone(d) => d \in everGone
    /\ \A doc \in page :
          doc.unbondingTx # NoUnbondingTx =>
              delegations[doc.hash].unbondingTx # NoUnbondingTx
    /\ \A i \in 1 .. Len(withdrawnChan) : GoneOrUnbonded(withdrawnChan[i])
    /\ \A d \in withdrawing : GoneOrUnbonded(d)
    /\ \A d \in Delegations :
          delegations[d].state = Withdrawn => GoneOrUnbonded(d)

WInv == RInv /\ WithdrawalsKnown

LEMMA UnbondingTxStays ==
    ASSUME RInv, ReorgNext, NEW d \in Delegations,
           delegations[d].unbondingTx # NoUnbondingTx
    PROVE  delegations'[d].unbondingTx # NoUnbondingTx
<1> USE DEF RInv
<1>1. StoreTypeOK
  BY DEF TypeOK
<1>2. CASE ApiNext
  BY <1>1, <1>2 DEF ApiNext, ApiTransition, StoreTypeOK, DelegationDocument
<1>3. CASE \E t \in expiredBatch :
              delegations' = TransitionToUnbondedState(
                                 t.hash, QualifiedStatesToUnbonded(t.txType))
  BY <1>1, <1>3, TypeFacts, TransitionEffect DEF TransitionToUnbondedState
<1>4. ASSUME NEW event \in unbondingEvent,
             delegations' = TransitionToUnbondingState(
                                event.hash, event.startHeight, event.timelock)
      PROVE  delegations'[d].unbondingTx # NoUnbondingTx
  <2>1. event.hash \in Delegations
    BY DEF TypeOK, HandlerTypeOK, UnbondingEvent
  <2>2. event.startHeight # 0
    BY <2>1 DEF HistoryKnowsEvents, EventWasTrue, HistoryTypeOK
  <2>3. \/ delegations'[d] = delegations[d]
        \/ delegations'[d].unbondingTx =
              [startHeight |-> event.startHeight, timelock |-> event.timelock]
    BY <1>1, <1>4, <2>1, TransitionEffect DEF TransitionToUnbondingState
  <2> QED BY <2>2, <2>3 DEF NoUnbondingTx
<1>5. CASE \E e \in withdrawing :
              delegations' = TransitionToWithdrawnState(
                                 e, QualifiedStatesToWithdraw)
  <2>1. \A e \in withdrawing : e \in Delegations
    BY DEF TypeOK, HandlerTypeOK
  <2> QED BY <1>1, <1>5, <2>1, TransitionEffect DEF TransitionToWithdrawnState
<1> QED BY <1>2, <1>3, <1>4, <1>5, DocumentChanges, ReorgSteps

LEMMA GoneOrUnbondedStays ==
    ASSUME RInv, ReorgNext, NEW d \in Delegations, GoneOrUnbonded(d)
    PROVE  GoneOrUnbonded(d)'
<1>1. everGone \subseteq everGone'
  BY DEF ReorgNext, Remember
<1> QED BY <1>1, UnbondingTxStays DEF GoneOrUnbonded

(* Only the chain's view, or a page of recorded documents, leads to an     *)
(* event of a withdrawal.                                                  *)
LEMMA ReorgWithdrawnChan ==
    ASSUME WInv, ReorgNext
    PROVE  \/ withdrawnChan' \in {withdrawnChan, <<>>}
           \/ withdrawnChan # <<>> /\ withdrawnChan' = Tail(withdrawnChan)
           \/ \E d \in Delegations :
                 /\ GoneOrUnbonded(d)
                 /\ withdrawnChan' = Append(withdrawnChan, d)
<1>1. ASSUME NEW d \in Delegations, Watch(d)
      PROVE  \/ withdrawnChan' = withdrawnChan
             \/ /\ GoneOrUnbonded(d)
                /\ withdrawnChan' = Append(withdrawnChan, d)
  <2>1. CASE \E output \in Output : SpentByTimelock(d, output)
    <3>1. OutputGone(d)
      BY <2>1
         DEF SpentByTimelock, IsWithdrawal, SpendOf, Output, OutputGone
    <3> QED
      BY <2>1, <3>1
         DEF SpentByTimelock, PushWithdrawn, WInv, WithdrawalsKnown,
             GoneOrUnbonded
  <2> QED
    BY <1>1, <2>1
       DEF Watch, WatcherProgress, StakingSpentByUnbonding,
           RegisterSpendNtfn, SpentOtherwise
<1>2. CASE Subscriber \/ SubscriberFails
  <2>1. ASSUME NEW doc \in page, ReportSpentOutput(doc)
        PROVE  \E d \in Delegations :
                  /\ GoneOrUnbonded(d)
                  /\ withdrawnChan' = Append(withdrawnChan, d)
    <3>1. doc.hash \in Delegations
      BY DEF WInv, RInv, TypeOK, SubscriberTypeOK, PageDocument
    <3> QED
      BY <2>1, <3>1
         DEF ReportSpentOutput, HasUnbondingOutput, PushWithdrawn, WInv,
             WithdrawalsKnown, GoneOrUnbonded
  <2> QED
    BY <1>2, <2>1
       DEF Subscriber, SubscriberFails, SubscriberProgress, SubscriberFault,
           FetchPage, SkipTracked, WatchUnbondingOutput, WatchStakingOutput,
           watcherVars
<1>3. CASE UnbondingHandler \/ WithdrawnHandler \/ HandlerFails
  BY <1>3
     DEF UnbondingHandler, WithdrawnHandler, HandlerFails, UnbondingProgress,
         UnbondingFault, WithdrawnProgress, WithdrawnFault, AcceptUnbonding,
         DropUnbonding, SaveUnbondingExpiry, StartUnbonding,
         ReceiveWithdrawn, AcceptWithdrawn, DropWithdrawn, Withdraw,
         watcherVars
<1>4. CASE Restart
  BY <1>4 DEF Restart, MemoryLost
<1>5. CASE WatcherFails
  BY <1>5 DEF WatcherFails, WatcherFault
<1>6. CASE UNCHANGED watcherVars
  BY <1>6 DEF watcherVars
<1> QED
  BY <1>1, <1>2, <1>3, <1>4, <1>5, <1>6
     DEF ReorgNext, DisconnectBlock, Next, Chain, Api, Expiry, ExpiryFails,
         memoryVars

LEMMA WithdrawnChanStep ==
    ASSUME WInv, ReorgNext
    PROVE  (\A i \in 1 .. Len(withdrawnChan) :
               GoneOrUnbonded(withdrawnChan[i]))'
<1>1. withdrawnChan \in Seq(Delegations)
  BY DEF WInv, RInv, TypeOK, WatcherTypeOK
<1>2. \A i \in 1 .. Len(withdrawnChan) :
         /\ withdrawnChan[i] \in Delegations
         /\ GoneOrUnbonded(withdrawnChan[i])
  BY <1>1, ElementOfSeq DEF WInv, WithdrawalsKnown
<1>3. \A i \in 1 .. Len(withdrawnChan') :
         /\ withdrawnChan'[i] \in Delegations
         /\ GoneOrUnbonded(withdrawnChan'[i])
  <2>1. CASE withdrawnChan' \in {withdrawnChan, <<>>}
    BY <1>2, <2>1
  <2>2. CASE withdrawnChan # <<>> /\ withdrawnChan' = Tail(withdrawnChan)
    <3>1. /\ Len(withdrawnChan') = Len(withdrawnChan) - 1
          /\ \A i \in 1 .. Len(withdrawnChan') :
                withdrawnChan'[i] = withdrawnChan[i + 1]
      BY <1>1, <2>2, HeadTailProperties
    <3>2. \A i \in 1 .. Len(withdrawnChan') : i + 1 \in 1 .. Len(withdrawnChan)
      BY <1>1, <3>1, LenProperties
    <3> QED BY <1>2, <3>1, <3>2
  <2>3. ASSUME NEW d \in Delegations, GoneOrUnbonded(d),
               withdrawnChan' = Append(withdrawnChan, d)
        PROVE  \A i \in 1 .. Len(withdrawnChan') :
                  /\ withdrawnChan'[i] \in Delegations
                  /\ GoneOrUnbonded(withdrawnChan'[i])
    <3>1. /\ Len(withdrawnChan') = Len(withdrawnChan) + 1
          /\ \A i \in 1 .. Len(withdrawnChan) :
                withdrawnChan'[i] = withdrawnChan[i]
          /\ withdrawnChan'[Len(withdrawnChan) + 1] = d
      BY <1>1, <2>3, AppendProperties
    <3>2. \A i \in 1 .. Len(withdrawnChan') :
             i \in 1 .. Len(withdrawnChan) \/ i = Len(withdrawnChan) + 1
      BY <1>1, <3>1, LenProperties
    <3> QED BY <1>2, <2>3, <3>1, <3>2
  <2> QED BY <2>1, <2>2, <2>3, ReorgWithdrawnChan
<1>4. \A d \in Delegations : GoneOrUnbonded(d) => GoneOrUnbonded(d)'
  BY GoneOrUnbondedStays DEF WInv
<1> QED BY <1>3, <1>4 DEF GoneOrUnbonded

LEMMA PageDocumentsStep ==
    ASSUME WInv, ReorgNext
    PROVE  \A doc \in page' :
              doc.unbondingTx # NoUnbondingTx =>
                  delegations'[doc.hash].unbondingTx # NoUnbondingTx
<1> USE DEF WInv
<1>1. \A doc \in page : doc.hash \in Delegations
  BY DEF RInv, TypeOK, SubscriberTypeOK, PageDocument
<1>2. CASE page' \subseteq page
  BY <1>1, <1>2, UnbondingTxStays DEF WithdrawalsKnown
<1>3. CASE Subscriber /\ FetchPage
  BY <1>3 DEF Subscriber, FetchPage, storeVars
<1>4. \/ page' \subseteq page
      \/ Subscriber /\ FetchPage
  BY DEF ReorgNext, DisconnectBlock, Next, Chain, Api, Expiry, ExpiryFails,
         Subscriber, SubscriberFails, SubscriberProgress, SubscriberFault,
         SkipTracked, ReportSpentOutput, WatchUnbondingOutput,
         WatchStakingOutput, DocumentDone, EndSubscriberPoll, Watch,
         WatcherFails, UnbondingHandler, WithdrawnHandler, HandlerFails,
         Restart, MemoryLost, memoryVars, subscriberVars
<1> QED BY <1>2, <1>3, <1>4

LEMMA WithdrawingStep ==
    ASSUME WInv, ReorgNext
    PROVE  \A d \in withdrawing' : GoneOrUnbonded(d)'
<1>1. \/ withdrawing' \subseteq withdrawing
      \/ withdrawnChan # <<>> /\ withdrawing' = {Head(withdrawnChan)}
  BY DEF ReorgNext, DisconnectBlock, Next, Chain, Api, Expiry, ExpiryFails,
         Subscriber, SubscriberFails, Watch, WatcherFails, UnbondingHandler,
         WithdrawnHandler, HandlerFails, UnbondingProgress, UnbondingFault,
         WithdrawnProgress, WithdrawnFault, AcceptUnbonding, DropUnbonding,
         SaveUnbondingExpiry, StartUnbonding, ReceiveWithdrawn,
         AcceptWithdrawn, DropWithdrawn, Withdraw, Restart, MemoryLost,
         memoryVars, handlerVars
<1>2. \A d \in withdrawing' : d \in Delegations /\ GoneOrUnbonded(d)
  <2>1. CASE withdrawing' \subseteq withdrawing
    BY <2>1 DEF WInv, RInv, WithdrawalsKnown, TypeOK, HandlerTypeOK
  <2>2. CASE withdrawnChan # <<>> /\ withdrawing' = {Head(withdrawnChan)}
    <3>1. withdrawnChan \in Seq(Delegations)
      BY DEF WInv, RInv, TypeOK, WatcherTypeOK
    <3>2. /\ Head(withdrawnChan) = withdrawnChan[1]
          /\ 1 \in 1 .. Len(withdrawnChan)
      BY <2>2, <3>1, LenProperties, EmptySeq
    <3> QED
      BY <2>2, <3>1, <3>2, ElementOfSeq DEF WInv, WithdrawalsKnown
  <2> QED BY <1>1, <2>1, <2>2
<1>3. \A d \in Delegations : GoneOrUnbonded(d) => GoneOrUnbonded(d)'
  BY GoneOrUnbondedStays DEF WInv
<1> QED BY <1>2, <1>3 DEF GoneOrUnbonded

LEMMA WithdrawnDocumentStep ==
    ASSUME WInv, ReorgNext, NEW d \in Delegations,
           delegations'[d].state = Withdrawn
    PROVE  GoneOrUnbonded(d)'
<1>1. delegations[d].state = Withdrawn \/ d \in withdrawing
  <2> USE DEF WInv, RInv
  <2>1. StoreTypeOK
    BY DEF TypeOK
  <2>2. CASE ApiNext
    BY <2>1, <2>2 DEF ApiNext, ApiTransition, StoreTypeOK, DelegationDocument
  <2>3. CASE \E t \in expiredBatch :
                delegations' = TransitionToUnbondedState(
                                   t.hash, QualifiedStatesToUnbonded(t.txType))
    BY <2>1, <2>3, TypeFacts, TransitionEffect DEF TransitionToUnbondedState
  <2>4. CASE \E event \in unbondingEvent :
                delegations' = TransitionToUnbondingState(
                                   event.hash, event.startHeight, event.timelock)
    <3>1. \A event \in unbondingEvent : event.hash \in Delegations
      BY DEF TypeOK, HandlerTypeOK, UnbondingEvent
    <3> QED BY <2>1, <2>4, <3>1, TransitionEffect DEF TransitionToUnbondingState
  <2>5. CASE \E e \in withdrawing :
                delegations' = TransitionToWithdrawnState(
                                   e, QualifiedStatesToWithdraw)
    <3>1. \A e \in withdrawing : e \in Delegations
      BY DEF TypeOK, HandlerTypeOK
    <3> QED BY <2>1, <2>5, <3>1, TransitionEffect DEF TransitionToWithdrawnState
  <2> QED BY <2>2, <2>3, <2>4, <2>5, DocumentChanges, ReorgSteps
<1>2. GoneOrUnbonded(d)
  BY <1>1 DEF WInv, WithdrawalsKnown
<1> QED BY <1>2, GoneOrUnbondedStays DEF WInv

LEMMA WInvInit == ReorgInit => WInv
<1> SUFFICES ASSUME ReorgInit PROVE WInv
  OBVIOUS
<1>1. RInv /\ Init
  BY ReorgInitInv DEF ReorgInit
<1>2. \A d \in Delegations : ~ OutputGone(d)
  BY <1>1 DEF Init, ChainInit, NoSpend, OutputGone
<1>3. page = {} /\ withdrawnChan = <<>> /\ withdrawing = {}
  BY <1>1 DEF Init, MemoryInit, SubscriberInit, WatcherInit, HandlerInit
<1>4. \A d \in Delegations : delegations[d].state # Withdrawn
  BY <1>1 DEF Init, StoreInit
<1> QED BY <1>1, <1>2, <1>3, <1>4 DEF WInv, WithdrawalsKnown

LEMMA WInvStep == WInv /\ [ReorgNext]_reorgVars => WInv'
<1>1. ASSUME WInv, ReorgNext PROVE WInv'
  <2>1. RInv'
    BY <1>1, ReorgStep DEF WInv
  <2>2. \A d \in Delegations : OutputGone(d)' => d \in everGone'
    BY <1>1 DEF ReorgNext, Remember
  <2>3. \A d \in Delegations :
           delegations'[d].state = Withdrawn => GoneOrUnbonded(d)'
    BY <1>1, WithdrawnDocumentStep
  <2> QED
    BY <1>1, <2>1, <2>2, <2>3, PageDocumentsStep, WithdrawnChanStep,
       WithdrawingStep
       DEF WInv, WithdrawalsKnown, GoneOrUnbonded
<1>2. ASSUME WInv, UNCHANGED reorgVars PROVE WInv'
  <2>1. RInv'
    BY <1>2, ReorgStep DEF WInv
  <2>2. UNCHANGED <<stakingSpend, unbondingSpend, delegations, page,
                    withdrawnChan, withdrawing, everGone>>
    BY <1>2
       DEF reorgVars, vars, chainVars, storeVars, memoryVars, watcherVars,
           subscriberVars, handlerVars, historyVars
  <2> QED
    BY <1>2, <2>1, <2>2
       DEF WInv, WithdrawalsKnown, GoneOrUnbonded, OutputGone
<1> QED BY <1>1, <1>2

(* However many blocks are undone, a delegation that is withdrawn without  *)
(* an unbonding transaction had its output spent by a withdrawal in some   *)
(* block: no other path leads to an event of handleWithdrawnDelegation.    *)
THEOREM WithdrawnOnce == ReorgSpec => []WithdrawnWasGone
<1>1. WInv => WithdrawnWasGone
  BY DEF WInv, WithdrawalsKnown, GoneOrUnbonded, WithdrawnWasGone
<1> QED BY <1>1, WInvInit, WInvStep, PTL DEF ReorgSpec

-----------------------------------------------------------------------------
(* The refinement.  A document moves in four ways, and each is a step of   *)
(* ReorgLifecycle; the chain and its history move apart from that.         *)

LEMMA ReorgLifecycleInit == ReorgInit => ReorgPromise!Init
  BY ConstantTypes
     DEF ReorgInit, Init, StoreInit, NoUnbondingTx, ReorgPromise!Init,
         ReorgPromise!Active

LEMMA ReorgLifecycleHistory ==
    ASSUME WInv, ReorgNext, UNCHANGED delegations
    PROVE  ReorgPromise!Next
<1>1. /\ \A d \in Delegations : minedAt[d] \subseteq minedAt'[d]
      /\ highest <= highest' /\ highest \in Nat /\ highest' \in Nat
  BY HistoryGrows DEF WInv, RInv, HistoryTypeOK
<1>2. everGone \subseteq everGone'
  BY DEF ReorgNext, Remember
<1> QED
  BY <1>1, <1>2 DEF ReorgPromise!Next, ReorgPromise!HistoryNext,
                    ReorgPromise!lifecycleVars

(* The chain and its history stand still when a document moves.            *)
LEMMA HistoryStands ==
    ASSUME WInv, ReorgNext, delegations' # delegations
    PROVE  UNCHANGED <<highest, minedAt, everGone>>
<1> USE DEF WInv, RInv, HistoryTypeOK
<1>1. UNCHANGED <<tip, stakingSpend, unbondingSpend>>
  BY DEF ReorgNext, DisconnectBlock, Next, Chain, Api, Expiry, ExpiryFails,
         Subscriber, SubscriberFails, Watch, WatcherFails, UnbondingHandler,
         WithdrawnHandler, HandlerFails, Restart, chainVars, storeVars
<1>2. highest' = highest
  BY <1>1, TypeFacts DEF ReorgNext, Remember, HistoryKnowsChain
<1>3. minedAt' = minedAt
  <2>1. minedAt' = [d \in Delegations |->
            minedAt[d] \cup (IF stakingSpend[d].path = "unbonding"
                             THEN {stakingSpend[d].height} ELSE {})]
    BY <1>1 DEF ReorgNext, Remember
  <2>2. \A d \in Delegations : minedAt'[d] = minedAt[d]
    BY <2>1 DEF HistoryKnowsChain
  <2> QED BY <2>1, <2>2
<1>4. everGone' = everGone
  <2>1. everGone' = everGone \cup {d \in Delegations : OutputGone(d)}
    BY <1>1 DEF ReorgNext, Remember, OutputGone
  <2> QED BY <2>1 DEF WithdrawalsKnown
<1> QED BY <1>2, <1>3, <1>4

(* What a user of the database sees of a write to one document.            *)
LEMMA WriteSeen ==
    ASSUME StoreTypeOK, NEW d \in Delegations, NEW s, NEW tx, NEW eligible,
           delegations[d].state \in eligible,
           delegations' = [delegations EXCEPT
                               ![d] = [state |-> s, unbondingTx |-> tx]]
    PROVE  /\ ReorgPromise!Move(d, eligible, s)
           /\ tx = delegations[d].unbondingTx =>
                  UNCHANGED [e \in Delegations |->
                                delegations[e].unbondingTx.startHeight]
<1> DEFINE status == [e \in Delegations |-> delegations[e].state]
           from == [e \in Delegations |-> delegations[e].unbondingTx.startHeight]
<1>1. /\ delegations'[d].state = s
      /\ delegations'[d].unbondingTx = tx
      /\ \A e \in Delegations \ {d} : delegations'[e] = delegations[e]
  BY DEF StoreTypeOK
<1>2. status' = [status EXCEPT ![d] = s] /\ status[d] \in eligible
  <2>1. \A e \in Delegations :
           delegations'[e].state =
               IF e = d THEN s ELSE delegations[e].state
    BY <1>1
  <2> QED BY <2>1
<1>3. tx = delegations[d].unbondingTx => from' = from
  BY <1>1
<1> QED BY <1>2, <1>3 DEF ReorgPromise!Move

(* A conditional write does nothing, or finds an eligible state.           *)
LEMMA WriteOrNot ==
    ASSUME StoreTypeOK, NEW d \in Delegations, NEW s, NEW eligible, NEW tx,
           delegations' = TransitionState(d, s, eligible, tx)
    PROVE  \/ delegations' = delegations
           \/ /\ delegations[d].state \in eligible
              /\ delegations' = [delegations EXCEPT
                                     ![d] = [state |-> s, unbondingTx |-> tx]]
  BY DEF TransitionState

LEMMA ReorgRequest ==
    ASSUME WInv, ApiNext
    PROVE  ReorgPromise!LifecycleNext
<1>1. StoreTypeOK
  BY DEF WInv, RInv, TypeOK
<1>2. PICK d \in Delegations, s \in {UnbondingRequested, Transitioned} :
         /\ delegations[d].state = Active
         /\ delegations' = [delegations EXCEPT ![d].state = s]
  BY DEF ApiNext, ApiTransition
<1>3. delegations' = [delegations EXCEPT
          ![d] = [state |-> s, unbondingTx |-> delegations[d].unbondingTx]]
  <2>1. delegations[d] \in DelegationDocument
    BY <1>1 DEF StoreTypeOK
  <2>2. [delegations[d] EXCEPT !.state = s] =
           [state |-> s, unbondingTx |-> delegations[d].unbondingTx]
    BY <2>1 DEF DelegationDocument
  <2> QED BY <1>1, <1>2, <2>2 DEF StoreTypeOK
<1>4. /\ ReorgPromise!Move(d, {Active}, s)
      /\ UNCHANGED [e \in Delegations |-> delegations[e].unbondingTx.startHeight]
  BY <1>1, <1>2, <1>3, WriteSeen
<1>5. ReorgPromise!Request(d)
  BY <1>2, <1>4
     DEF ReorgPromise!Request, ReorgPromise!Active,
         ReorgPromise!UnbondingRequested, ReorgPromise!Transitioned
<1> QED BY <1>5 DEF ReorgPromise!LifecycleNext

LEMMA ReorgExpires ==
    ASSUME WInv, NEW t \in expiredBatch, delegations' # delegations,
           delegations' = TransitionToUnbondedState(
                              t.hash, QualifiedStatesToUnbonded(t.txType))
    PROVE  ReorgPromise!LifecycleNext
<1>1. StoreTypeOK /\ t.hash \in Delegations
  BY TypeFacts DEF WInv, RInv, TypeOK
<1>2. /\ delegations[t.hash].state \in QualifiedStatesToUnbonded(t.txType)
      /\ delegations' = [delegations EXCEPT ![t.hash] =
             [state |-> Unbonded, unbondingTx |-> delegations[t.hash].unbondingTx]]
  BY <1>1, WriteOrNot DEF TransitionToUnbondedState
<1>3. CASE t.txType = ActiveTxType
  <2>1. highest >= StakingExpiry(t.hash)
    BY <1>3, ExpiredWasTrue DEF WInv, StakingWasFree
  <2>2. /\ ReorgPromise!Move(t.hash, {Active}, Unbonded)
        /\ UNCHANGED [e \in Delegations |->
                         delegations[e].unbondingTx.startHeight]
    BY <1>1, <1>2, <1>3, WriteSeen DEF QualifiedStatesToUnbonded
  <2>3. ReorgPromise!StakingExpires(t.hash)
    BY <2>1, <2>2 DEF ReorgPromise!StakingExpires, ReorgPromise!Active,
                      ReorgPromise!Unbonded
  <2> QED BY <1>1, <2>3 DEF ReorgPromise!LifecycleNext
<1>4. CASE t.txType # ActiveTxType
  <2>1. UnbondingWasFree(t.hash)
    BY <1>4, ExpiredWasTrue DEF WInv
  <2>2. /\ ReorgPromise!Move(t.hash, {Unbonding}, Unbonded)
        /\ UNCHANGED [e \in Delegations |->
                         delegations[e].unbondingTx.startHeight]
    BY <1>1, <1>2, <1>4, WriteSeen DEF QualifiedStatesToUnbonded
  <2>3. ReorgPromise!UnbondingExpires(t.hash)
    BY <2>1, <2>2 DEF UnbondingWasFree, ReorgPromise!UnbondingExpires,
                      ReorgPromise!Unbonding, ReorgPromise!Unbonded
  <2> QED BY <1>1, <2>3 DEF ReorgPromise!LifecycleNext
<1> QED BY <1>3, <1>4

LEMMA ReorgStartUnbonding ==
    ASSUME WInv, NEW event \in unbondingEvent, delegations' # delegations,
           delegations' = TransitionToUnbondingState(
                              event.hash, event.startHeight, event.timelock)
    PROVE  ReorgPromise!LifecycleNext
<1> DEFINE tx == [startHeight |-> event.startHeight,
                  timelock |-> event.timelock]
<1>1. StoreTypeOK /\ event.hash \in Delegations
  BY DEF WInv, RInv, TypeOK, HandlerTypeOK, UnbondingEvent
<1>2. /\ delegations[event.hash].state \in QualifiedStatesToUnbonding
      /\ delegations' = [delegations EXCEPT ![event.hash] =
                             [state |-> Unbonding, unbondingTx |-> tx]]
  BY <1>1, WriteOrNot DEF TransitionToUnbondingState
<1>3. event.startHeight \in minedAt[event.hash]
  BY DEF WInv, RInv, HistoryKnowsEvents, EventWasTrue
<1>4. tx.startHeight = event.startHeight
  OBVIOUS
<1> HIDE DEF tx
<1>5. ReorgPromise!Move(event.hash, QualifiedStatesToUnbonding, Unbonding)
  BY <1>1, <1>2, WriteSeen, Zenon
<1>6. [e \in Delegations |-> delegations'[e].unbondingTx.startHeight] =
         [[e \in Delegations |-> delegations[e].unbondingTx.startHeight]
             EXCEPT ![event.hash] = event.startHeight]
  <2>1. \A e \in Delegations :
           delegations'[e].unbondingTx.startHeight =
               IF e = event.hash THEN event.startHeight
               ELSE delegations[e].unbondingTx.startHeight
    BY <1>1, <1>2, <1>4 DEF StoreTypeOK
  <2> QED BY <1>1, <2>1
<1>7. ReorgPromise!StartUnbonding(event.hash)
  BY <1>3, <1>5, <1>6
     DEF QualifiedStatesToUnbonding, ReorgPromise!StartUnbonding,
         ReorgPromise!Active, ReorgPromise!UnbondingRequested,
         ReorgPromise!Unbonding
<1> QED BY <1>1, <1>7 DEF ReorgPromise!LifecycleNext

LEMMA ReorgWithdraws ==
    ASSUME WInv, NEW d \in withdrawing, delegations' # delegations,
           delegations' = TransitionToWithdrawnState(
                              d, QualifiedStatesToWithdraw)
    PROVE  ReorgPromise!LifecycleNext
<1>1. StoreTypeOK /\ d \in Delegations
  BY DEF WInv, RInv, TypeOK, HandlerTypeOK
<1>2. /\ delegations[d].state = Unbonded
      /\ delegations' = [delegations EXCEPT ![d] =
             [state |-> Withdrawn, unbondingTx |-> delegations[d].unbondingTx]]
  BY <1>1, WriteOrNot DEF TransitionToWithdrawnState, QualifiedStatesToWithdraw
<1>3. d \in everGone \/ delegations[d].unbondingTx.startHeight # 0
  <2>1. d \in everGone \/ delegations[d].unbondingTx # NoUnbondingTx
    BY DEF WInv, WithdrawalsKnown, GoneOrUnbonded
  <2>2. CASE delegations[d].unbondingTx # NoUnbondingTx
    BY <1>1, <2>2 DEF WInv, RInv, HistoryKnowsDocument, HistoryTypeOK
  <2> QED BY <2>1, <2>2
<1>4. /\ ReorgPromise!Move(d, {Unbonded}, Withdrawn)
      /\ UNCHANGED [e \in Delegations |-> delegations[e].unbondingTx.startHeight]
  BY <1>1, <1>2, WriteSeen
<1>5. ReorgPromise!Withdraw(d)
  BY <1>1, <1>3, <1>4
     DEF ReorgPromise!Withdraw, ReorgPromise!Unbonded, ReorgPromise!Withdrawn
<1> QED BY <1>1, <1>5 DEF ReorgPromise!LifecycleNext

LEMMA ReorgLifecycleStep ==
    ASSUME WInv, [ReorgNext]_reorgVars
    PROVE  [ReorgPromise!Next]_<<ReorgPromise!historyVars,
                                 ReorgPromise!lifecycleVars>>
<1>1. CASE UNCHANGED reorgVars
  <2>1. UNCHANGED <<delegations, highest, minedAt, everGone>>
    BY <1>1 DEF reorgVars, historyVars, vars, storeVars
  <2> QED BY <2>1 DEF ReorgPromise!historyVars, ReorgPromise!lifecycleVars
<1>2. CASE ReorgNext /\ UNCHANGED delegations
  BY <1>2, ReorgLifecycleHistory
<1>3. CASE ReorgNext /\ delegations' # delegations
  <2>1. UNCHANGED ReorgPromise!historyVars
    BY <1>3, HistoryStands DEF ReorgPromise!historyVars
  <2>2. ReorgPromise!LifecycleNext
    BY <1>3, DocumentChanges, ReorgSteps, ReorgRequest, ReorgExpires,
       ReorgStartUnbonding, ReorgWithdraws
  <2> QED BY <2>1, <2>2 DEF ReorgPromise!Next
<1> QED BY <1>1, <1>2, <1>3

(* However many blocks are undone, calls fail and processes end, whatever  *)
(* the handlers and the expiry poller write to a document is a step of     *)
(* ReorgLifecycle.                                                         *)
THEOREM ReorgRefinement == ReorgSpec => ImplementsReorgLifecycle
<1>1. WInv /\ [ReorgNext]_reorgVars =>
         [ReorgPromise!Next]_<<ReorgPromise!historyVars,
                               ReorgPromise!lifecycleVars>>
  BY ReorgLifecycleStep
<1> QED
  BY <1>1, WInvInit, WInvStep, ReorgLifecycleInit, PTL
     DEF ReorgSpec, ImplementsReorgLifecycle, ReorgPromise!Spec

-----------------------------------------------------------------------------
(* What does not depend on the chain                                       *)

LEMMA HandlersReorgStep == TypeOK /\ HInv /\ [ReorgNext]_reorgVars => HInv'
<1> SUFFICES ASSUME TypeOK, HInv, [ReorgNext]_reorgVars PROVE HInv'
  OBVIOUS
<1>1. CASE Next \/ UNCHANGED vars
  BY <1>1, HandlersStep
<1>2. CASE UNCHANGED <<storeVars, memoryVars>>
  BY <1>2 DEF HInv, WatchersTracked, NoneActive, HandledIsEligible, storeVars,
              memoryVars, watcherVars, subscriberVars, handlerVars
<1> QED BY <1>1, <1>2, ReorgSteps DEF reorgVars

(* No undone block makes a handler write on the strength of a state that   *)
(* is out of date: whoever reads a delegation before he writes it relies   *)
(* on the database and on the tracked subscriptions only.                  *)
THEOREM HandledDespiteReorgs == ReorgSpec => []HandledIsEligible
<1>1. ReorgInit => HInv
  BY HandlersInit DEF ReorgInit
<1>2. RInv => TypeOK
  BY DEF RInv
<1>3. HInv => HandledIsEligible
  BY DEF HInv
<1> QED
  BY <1>1, <1>2, <1>3, ReorgInitInv, ReorgStep, HandlersReorgStep, PTL
     DEF ReorgSpec

(* An output that is unspent again is not watched again as well: the       *)
(* notifier keeps the watcher, or its subscription is never renewed.       *)
THEOREM SingleWatcherDespiteReorgs == ReorgSpec => []OneWatcherPerOutput
<1>1. ReorgInit => HInv
  BY HandlersInit DEF ReorgInit
<1>2. RInv => TypeOK
  BY DEF RInv
<1>3. TypeOK /\ HInv => OneWatcherPerOutput
  BY TrackedOnce DEF HInv
<1> QED
  BY <1>1, <1>2, <1>3, ReorgInitInv, ReorgStep, HandlersReorgStep, PTL
     DEF ReorgSpec

LEMMA TicketsReorgStep ==
    TypeOK /\ HInv /\ TInv /\ [ReorgNext]_reorgVars => TInv'
<1> SUFFICES ASSUME TypeOK, HInv, TInv, [ReorgNext]_reorgVars PROVE TInv'
  OBVIOUS
<1>1. CASE Next \/ UNCHANGED vars
  BY <1>1, TicketsStep DEF HInv
<1>2. CASE DisconnectBlock
  BY <1>2, TicketsUntouched
     DEF DisconnectBlock, storeVars, memoryVars, watcherVars, subscriberVars,
         handlerVars
<1> QED BY <1>1, <1>2 DEF ReorgNext, reorgVars

(* An unbonding transaction that is undone and mined again, maybe at       *)
(* another height, adds no further entry to the queue: the delegation      *)
(* stays subscribed to, and the watcher that saw the first block is gone.  *)
THEOREM EntriesBoundedDespiteReorgs == ReorgSpec => []UnbondingEntriesBounded
<1>1. ReorgInit => HInv /\ TInv
  BY HandlersInit, TicketsInit DEF ReorgInit
<1>2. RInv => TypeOK
  BY DEF RInv
<1> QED
  BY <1>1, <1>2, ReorgInitInv, ReorgStep, HandlersReorgStep, TicketsReorgStep,
     TicketsBound, PTL DEF ReorgSpec

================================================================================
