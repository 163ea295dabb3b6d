------------------------- MODULE ExpiryCheckerTypes -------------------------
(***************************************************************************)
(* Type correctness of ExpiryChecker, for any number of delegations, any   *)
(* timelocks and any channel capacity.  One lemma for each component shows *)
(* that its steps keep the types of the variables they change.             *)
(***************************************************************************)
EXTENDS ExpiryChecker, SequenceTheorems, TLAPS

USE DEF Active, UnbondingRequested, Unbonding, Unbonded, Withdrawn,
        Transitioned, ActiveTxType, UnbondingTxType, SubscriberPc

(* The facts about the constants every proof below may need. *)
LEMMA ConstantTypes ==
    /\ StakingStart \in [Delegations -> Nat]
    /\ StakingTime \in [Delegations -> Nat]
    /\ UnbondingTime \in [Delegations -> Nat]
    /\ StartTip \in Nat
    /\ \A d \in Delegations : d \in Nat /\ d # 0 /\ d \in TimelockIds
    /\ ChanCap \in Nat \ {0}
  BY ChainAssumption, StoreAssumption, ChannelAssumption

LEMMA ExpiryHeightTypes ==
    ASSUME NEW d \in Delegations, ChainTypeOK
    PROVE  StakingExpiry(d) \in Nat /\ UnbondingExpiry(d) \in Nat
<1>1. StakingStart[d] \in Nat /\ StakingTime[d] \in Nat /\ UnbondingTime[d] \in Nat
  BY ConstantTypes
<1>2. stakingSpend[d].height \in Nat
  BY DEF ChainTypeOK, Spend
<1> QED BY <1>1, <1>2 DEF StakingExpiry, UnbondingExpiry

LEMMA InitTypes == Init => TypeOK
<1> SUFFICES ASSUME Init PROVE TypeOK
  OBVIOUS
<1>1. ChainTypeOK
  BY ConstantTypes DEF Init, ChainInit, ChainTypeOK, Spend, SpendPath, NoSpend
<1>2. StoreTypeOK
  <2>1. delegations \in [Delegations -> DelegationDocument]
    BY DEF Init, StoreInit, DelegationDocument, DelegationState,
           TimelockTransaction, NoUnbondingTx
  <2>2. \A d \in Delegations : StakingExpiry(d) \in Nat
    BY <1>1, ExpiryHeightTypes
  <2>3. timelockQueue \subseteq TimeLockDocument
    BY <2>2, ConstantTypes DEF Init, StoreInit, TimeLockDocument, StakingTxType
  <2> QED BY <2>1, <2>3 DEF StoreTypeOK
<1>3. ExpiryTypeOK
  BY DEF Init, MemoryInit, ExpiryInit, ExpiryTypeOK, ExpiryPc
<1>4. WatcherTypeOK
  BY ConstantTypes, EmptySeq DEF Init, MemoryInit, WatcherInit, WatcherTypeOK
<1>5. SubscriberTypeOK
  BY DEF Init, MemoryInit, SubscriberInit, SubscriberTypeOK
<1>6. HandlerTypeOK
  BY DEF Init, MemoryInit, HandlerInit, HandlerTypeOK
<1> QED
  BY <1>1, <1>2, <1>3, <1>4, <1>5, <1>6 DEF TypeOK, Init

-----------------------------------------------------------------------------
(* The chain and the store                                                 *)

LEMMA ChainTypeStep ==
    ASSUME ChainTypeOK, ChainNext PROVE ChainTypeOK'
<1>1. CASE MineEmptyBlock
  BY <1>1 DEF MineEmptyBlock, NextBlock, ChainTypeOK
<1>2. ASSUME NEW d \in Delegations, NEW path \in SpendPath,
             MineStakingSpend(d, path)
      PROVE  ChainTypeOK'
  BY <1>2 DEF MineStakingSpend, NextBlock, ChainTypeOK, Spend
<1>3. ASSUME NEW d \in Delegations, NEW path \in SpendPath,
             MineUnbondingSpend(d, path)
      PROVE  ChainTypeOK'
  BY <1>3 DEF MineUnbondingSpend, NextBlock, ChainTypeOK, Spend
<1> QED
  BY <1>1, <1>2, <1>3 DEF ChainNext, SpendPath

LEMMA TransitionStateType ==
    ASSUME StoreTypeOK, NEW d \in Delegations, NEW s \in DelegationState,
           NEW eligible, NEW tx \in TimelockTransaction
    PROVE  TransitionState(d, s, eligible, tx)
              \in [Delegations -> DelegationDocument]
  BY DEF TransitionState, StoreTypeOK, DelegationDocument

LEMMA TransitionTypes ==
    ASSUME StoreTypeOK, NEW d \in Delegations
    PROVE  /\ \A eligible :
                TransitionToUnbondedState(d, eligible)
                    \in [Delegations -> DelegationDocument]
           /\ \A eligible :
                TransitionToWithdrawnState(d, eligible)
                    \in [Delegations -> DelegationDocument]
           /\ \A h \in Nat, l \in Nat :
                TransitionToUnbondingState(d, h, l)
                    \in [Delegations -> DelegationDocument]
<1>1. delegations[d].unbondingTx \in TimelockTransaction
  BY DEF StoreTypeOK, DelegationDocument
<1>2. {Unbonded, Unbonding, Withdrawn} \subseteq DelegationState
  BY DEF DelegationState
<1>3. \A h \in Nat, l \in Nat :
         [startHeight |-> h, timelock |-> l] \in TimelockTransaction
  BY DEF TimelockTransaction
<1>4. ASSUME NEW eligible
      PROVE  /\ TransitionToUnbondedState(d, eligible)
                    \in [Delegations -> DelegationDocument]
             /\ TransitionToWithdrawnState(d, eligible)
                    \in [Delegations -> DelegationDocument]
  BY <1>1, <1>2, TransitionStateType
     DEF TransitionToUnbondedState, TransitionToWithdrawnState
<1>5. ASSUME NEW h \in Nat, NEW l \in Nat
      PROVE  TransitionToUnbondingState(d, h, l)
                    \in [Delegations -> DelegationDocument]
  BY <1>2, <1>3, TransitionStateType DEF TransitionToUnbondingState
<1> QED BY <1>4, <1>5

(* What InsertOne adds: one document, under an id no other has. *)
LEMMA SaveEffect ==
    ASSUME FreeIds # {}, NEW d, NEW h, NEW txType
    PROVE  \E i \in TimelockIds :
              /\ \A t \in timelockQueue : t.id # i
              /\ SaveTimeLockExpireCheck(d, h, txType) =
                    timelockQueue \cup {[id |-> i, hash |-> d,
                                        expireHeight |-> h, txType |-> txType]}
<1> DEFINE fresh == CHOOSE i \in FreeIds : TRUE
<1>1. fresh \in FreeIds
  OBVIOUS
<1>2. SaveTimeLockExpireCheck(d, h, txType) =
        timelockQueue \cup {[id |-> fresh, hash |-> d,
                            expireHeight |-> h, txType |-> txType]}
  BY Zenon DEF SaveTimeLockExpireCheck
<1> HIDE DEF fresh
<1> QED BY <1>1, <1>2 DEF FreeIds

LEMMA SaveType ==
    ASSUME StoreTypeOK, FreeIds # {}, NEW d \in Delegations, NEW h \in Nat,
           NEW txType \in StakingTxType
    PROVE  SaveTimeLockExpireCheck(d, h, txType) \subseteq TimeLockDocument
  BY SaveEffect DEF StoreTypeOK, TimeLockDocument

LEMMA DeleteType ==
    ASSUME StoreTypeOK, NEW i
    PROVE  DeleteExpiredDelegation(i) \subseteq TimeLockDocument
  BY DEF DeleteExpiredDelegation, StoreTypeOK

LEMMA ApiTypeStep ==
    ASSUME StoreTypeOK, ApiNext PROVE StoreTypeOK'
  BY DEF ApiNext, ApiTransition, StoreTypeOK, DelegationDocument,
         DelegationState

-----------------------------------------------------------------------------
(* The goroutines                                                          *)

LEMMA ExpiryTypeStep ==
    ASSUME ChainTypeOK, StoreTypeOK, ExpiryTypeOK, ExpiryNext
    PROVE  StoreTypeOK' /\ ExpiryTypeOK'
<1> USE DEF ExpiryTypeOK, ExpiryPc
<1>1. \A doc \in TimeLockDocument : doc.hash \in Delegations
  BY DEF TimeLockDocument
<1>2. CASE ExpiryTick
  BY <1>2 DEF ExpiryTick, ChainTypeOK, StoreTypeOK, storeVars
<1>3. CASE FindExpiredDelegations
  BY <1>3 DEF FindExpiredDelegations, Expired, StoreTypeOK, storeVars
<1>4. ASSUME NEW doc \in expiredBatch, TransitionExpired(doc)
      PROVE  StoreTypeOK' /\ ExpiryTypeOK'
  <2>1. StoreTypeOK'
    BY <1>1, <1>4, TransitionTypes DEF TransitionExpired, StoreTypeOK
  <2> QED BY <1>4, <2>1 DEF TransitionExpired
<1>5. CASE DeleteExpired
  <2>1. StoreTypeOK'
    BY <1>5, DeleteType DEF DeleteExpired, StoreTypeOK
  <2> QED BY <1>5, <2>1 DEF DeleteExpired, EndExpiryPoll
<1>6. CASE ExpiryFault
  <2>1. StoreTypeOK'
    BY <1>1, <1>6, TransitionTypes, DeleteType
       DEF ExpiryFault, StoreTypeOK, storeVars
  <2> QED BY <1>6, <2>1 DEF ExpiryFault, EndExpiryPoll
<1> QED
  BY <1>2, <1>3, <1>4, <1>5, <1>6 DEF ExpiryNext, ExpiryProgress

LEMMA WatcherCountTypes ==
    ASSUME WatcherTypeOK, NEW d \in Delegations, NEW output \in Output
    PROVE  /\ \A stage \in Stage :
                watchers[<<d, output, stage>>] > 0 =>
                    Ended(<<d, output, stage>>) \in [Watcher -> Nat]
           /\ \A all \in [Watcher -> Nat] :
                Started(all, d, output) \in [Watcher -> Nat]
<1>1. \A stage \in Stage : <<d, output, stage>> \in Watcher
  BY DEF Watcher
<1>2. "registering" \in Stage
  BY DEF Stage
<1> QED BY <1>1, <1>2 DEF WatcherTypeOK, Ended, Started

LEMMA PushTypes ==
    ASSUME WatcherTypeOK
    PROVE  /\ \A event \in UnbondingEvent :
                PushUnbonding(event) =>
                    /\ unbondingChan' \in Seq(UnbondingEvent)
                    /\ Len(unbondingChan') <= ChanCap
           /\ \A d \in Delegations :
                PushWithdrawn(d) =>
                    /\ withdrawnChan' \in Seq(Delegations)
                    /\ Len(withdrawnChan') <= ChanCap
<1>1. ASSUME NEW event \in UnbondingEvent, PushUnbonding(event)
      PROVE  /\ unbondingChan' \in Seq(UnbondingEvent)
             /\ Len(unbondingChan') <= ChanCap
  BY <1>1, ConstantTypes, AppendProperties DEF PushUnbonding, WatcherTypeOK
<1>2. ASSUME NEW d \in Delegations, PushWithdrawn(d)
      PROVE  /\ withdrawnChan' \in Seq(Delegations)
             /\ Len(withdrawnChan') <= ChanCap
  BY <1>2, ConstantTypes, AppendProperties DEF PushWithdrawn, WatcherTypeOK
<1> QED BY <1>1, <1>2

LEMMA WatcherTypeStep ==
    ASSUME ChainTypeOK, WatcherTypeOK, NEW d \in Delegations,
           \/ WatcherProgress(d)
           \/ \E output \in Output : WatcherFault(d, output)
    PROVE  WatcherTypeOK'
<1> USE DEF WatcherTypeOK
<1>1. CASE StakingSpentByUnbonding(d)
  <2>1. UnbondingEventFor(d) \in UnbondingEvent
    BY ConstantTypes DEF UnbondingEventFor, UnbondingEvent, ChainTypeOK, Spend
  <2>2. watchers' \in [Watcher -> Nat]
    BY <1>1, WatcherCountTypes DEF StakingSpentByUnbonding, Notified, Output, Stage
  <2> QED BY <1>1, <2>1, <2>2, PushTypes DEF StakingSpentByUnbonding
<1>2. ASSUME NEW output \in Output, RegisterSpendNtfn(d, output)
      PROVE  WatcherTypeOK'
  <2>1. <<d, output, "watching">> \in Watcher
    BY DEF Watcher, Stage
  <2>2. Ended(<<d, output, "registering">>) \in [Watcher -> Nat]
    BY <1>2, WatcherCountTypes DEF RegisterSpendNtfn, Stage
  <2>3. \A all \in [Watcher -> Nat] :
           [all EXCEPT ![<<d, output, "watching">>] = @ + 1] \in [Watcher -> Nat]
    BY <2>1
  <2>4. watchers' \in [Watcher -> Nat]
    BY <1>2, <2>2, <2>3 DEF RegisterSpendNtfn
  <2> QED BY <1>2, <2>4 DEF RegisterSpendNtfn
<1>3. ASSUME NEW output \in Output, SpentByTimelock(d, output)
      PROVE  WatcherTypeOK'
  <2>1. watchers' \in [Watcher -> Nat]
    BY <1>3, WatcherCountTypes DEF SpentByTimelock, Notified, Stage
  <2> QED BY <1>3, <2>1, PushTypes DEF SpentByTimelock
<1>4. ASSUME NEW output \in Output, SpentOtherwise(d, output)
      PROVE  WatcherTypeOK'
  BY <1>4, WatcherCountTypes DEF SpentOtherwise, Notified, Stage
<1>5. ASSUME NEW output \in Output, WatcherFault(d, output)
      PROVE  WatcherTypeOK'
  BY <1>5, WatcherCountTypes DEF WatcherFault
<1> QED
  BY <1>1, <1>2, <1>3, <1>4, <1>5 DEF WatcherProgress

LEMMA SubscriberTypeStep ==
    ASSUME StoreTypeOK, WatcherTypeOK, SubscriberTypeOK,
           SubscriberProgress \/ SubscriberFault
    PROVE  WatcherTypeOK' /\ SubscriberTypeOK'
<1> USE DEF SubscriberTypeOK
<1>1. \A doc \in PageDocument : doc.hash \in Delegations
  BY DEF PageDocument
<1>2. CASE FetchPage
  <2>1. PICK S \in SUBSET Delegations :
           /\ page' = {[hash |-> d, state |-> delegations[d].state,
                        unbondingTx |-> delegations[d].unbondingTx] : d \in S}
           /\ subscriberPc' = IF S = {} THEN "idle" ELSE "process"
    BY <1>2 DEF FetchPage
  <2>2. page' \subseteq PageDocument
    BY <2>1 DEF PageDocument, StoreTypeOK, DelegationDocument
  <2>3. pageToken' \in Delegations \cup {0}
    BY <1>2 DEF FetchPage
  <2> QED BY <1>2, <2>1, <2>2, <2>3 DEF FetchPage, WatcherTypeOK, watcherVars
<1>3. ASSUME NEW doc \in page, SkipTracked(doc)
      PROVE  WatcherTypeOK' /\ SubscriberTypeOK'
  BY <1>3 DEF SkipTracked, DocumentDone, WatcherTypeOK, watcherVars
<1>4. ASSUME NEW doc \in page, ReportSpentOutput(doc)
      PROVE  WatcherTypeOK' /\ SubscriberTypeOK'
  <2>1. WatcherTypeOK'
    BY <1>1, <1>4, PushTypes DEF ReportSpentOutput, WatcherTypeOK
  <2> QED BY <1>4, <2>1 DEF ReportSpentOutput, DocumentDone
<1>5. ASSUME NEW doc \in page,
             WatchUnbondingOutput(doc) \/ WatchStakingOutput(doc)
      PROVE  WatcherTypeOK' /\ SubscriberTypeOK'
  <2>1. doc.hash \in Delegations
    BY <1>1
  <2>2. WatcherTypeOK'
    BY <1>5, <2>1, WatcherCountTypes
       DEF WatchUnbondingOutput, WatchStakingOutput, Output, WatcherTypeOK
  <2> QED
    BY <1>5, <2>1, <2>2
       DEF WatchUnbondingOutput, WatchStakingOutput, DocumentDone, Track
<1>6. CASE SubscriberFault
  BY <1>6 DEF SubscriberFault, EndSubscriberPoll, WatcherTypeOK, watcherVars
<1> QED
  BY <1>2, <1>3, <1>4, <1>5, <1>6 DEF SubscriberProgress

LEMMA HandlerTypeStep ==
    ASSUME StoreTypeOK, WatcherTypeOK, HandlerTypeOK,
           \/ UnbondingProgress \/ UnbondingFault
           \/ WithdrawnProgress \/ WithdrawnFault
    PROVE  StoreTypeOK' /\ WatcherTypeOK' /\ HandlerTypeOK'
<1> USE DEF HandlerTypeOK
<1>1. \A e \in UnbondingEvent :
         e.hash \in Delegations /\ e.startHeight \in Nat /\ e.timelock \in Nat
  BY DEF UnbondingEvent
<1>2. ReceiveUnbonding =>
         /\ Head(unbondingChan) \in UnbondingEvent
         /\ unbondingChan' \in Seq(UnbondingEvent)
         /\ Len(unbondingChan') <= ChanCap
  BY HeadTailProperties, ConstantTypes, LenProperties
     DEF ReceiveUnbonding, WatcherTypeOK
<1>3. ReceiveWithdrawn =>
         /\ Head(withdrawnChan) \in Delegations
         /\ withdrawnChan' \in Seq(Delegations)
         /\ Len(withdrawnChan') <= ChanCap
  BY HeadTailProperties, ConstantTypes, LenProperties
     DEF ReceiveWithdrawn, WatcherTypeOK
<1>4. CASE AcceptUnbonding
  BY <1>2, <1>4 DEF AcceptUnbonding, StoreTypeOK, storeVars, WatcherTypeOK
<1>5. CASE DropUnbonding
  BY <1>2, <1>5
     DEF DropUnbonding, StoreTypeOK, storeVars, WatcherTypeOK, handlerVars
<1>6. ASSUME NEW event \in UnbondingEvent, SaveNewTimeLockExpire(event)
      PROVE  timelockQueue' \subseteq TimeLockDocument
  <2>1. event.startHeight + event.timelock \in Nat
    BY <1>1
  <2> QED BY <1>1, <1>6, <2>1, SaveType DEF SaveNewTimeLockExpire, StakingTxType
<1>7. CASE SaveUnbondingExpiry
  BY <1>6, <1>7
     DEF SaveUnbondingExpiry, StoreTypeOK, WatcherTypeOK, watcherVars
<1>8. CASE StartUnbonding
  BY <1>1, <1>8, TransitionTypes
     DEF StartUnbonding, EndUnbonding, StoreTypeOK, WatcherTypeOK, watcherVars
<1>9. CASE UnbondingFault
  <2>1. StoreTypeOK'
    BY <1>1, <1>6, <1>9, TransitionTypes DEF UnbondingFault, StoreTypeOK, storeVars
  <2>2. WatcherTypeOK'
    BY <1>2, <1>9 DEF UnbondingFault, WatcherTypeOK, watcherVars
  <2> QED
    BY <1>9, <2>1, <2>2 DEF UnbondingFault, EndUnbonding, handlerVars
<1>10. CASE AcceptWithdrawn
  BY <1>3, <1>10 DEF AcceptWithdrawn, StoreTypeOK, storeVars, WatcherTypeOK
<1>11. CASE DropWithdrawn
  BY <1>3, <1>11
     DEF DropWithdrawn, StoreTypeOK, storeVars, WatcherTypeOK, handlerVars
<1>12. CASE Withdraw
  BY <1>12, TransitionTypes
     DEF Withdraw, StoreTypeOK, WatcherTypeOK, watcherVars
<1>13. CASE WithdrawnFault
  BY <1>3, <1>13, TransitionTypes
     DEF WithdrawnFault, StoreTypeOK, storeVars, WatcherTypeOK, watcherVars,
         handlerVars
<1> QED
  BY <1>4, <1>5, <1>7, <1>8, <1>9, <1>10, <1>11, <1>12, <1>13
     DEF UnbondingProgress, WithdrawnProgress

-----------------------------------------------------------------------------
(* The service                                                             *)

LEMMA RestartTypeStep ==
    ASSUME TypeOK, Restart PROVE TypeOK'
<1>1. ExpiryTypeOK' /\ SubscriberTypeOK' /\ HandlerTypeOK'
  BY DEF Restart, MemoryLost, EndExpiryPoll, EndSubscriberPoll, EndUnbonding,
         ExpiryTypeOK, ExpiryPc, SubscriberTypeOK, HandlerTypeOK
<1>2. WatcherTypeOK'
  BY ConstantTypes, EmptySeq DEF Restart, MemoryLost, WatcherTypeOK
<1> QED
  BY <1>1, <1>2
     DEF Restart, TypeOK, ChainTypeOK, StoreTypeOK, chainVars, storeVars

LEMMA TypeStep == TypeOK /\ [Next]_vars => TypeOK'
<1> SUFFICES ASSUME TypeOK, [Next]_vars PROVE TypeOK'
  OBVIOUS
<1> USE DEF TypeOK
<1>1. CASE Chain
  BY <1>1, ChainTypeStep
     DEF Chain, memoryVars, storeVars, expiryVars, watcherVars,
         subscriberVars, handlerVars, StoreTypeOK, ExpiryTypeOK,
         WatcherTypeOK, SubscriberTypeOK, HandlerTypeOK
<1>2. CASE Api
  BY <1>2, ApiTypeStep
     DEF Api, memoryVars, chainVars, expiryVars, watcherVars,
         subscriberVars, handlerVars, ChainTypeOK, ExpiryTypeOK,
         WatcherTypeOK, SubscriberTypeOK, HandlerTypeOK
<1>3. CASE Expiry \/ ExpiryFails
  BY <1>3, ExpiryTypeStep
     DEF Expiry, ExpiryFails, ExpiryNext, chainVars, watcherVars,
         subscriberVars, handlerVars, ChainTypeOK, WatcherTypeOK,
         SubscriberTypeOK, HandlerTypeOK
<1>4. CASE Subscriber \/ SubscriberFails
  BY <1>4, SubscriberTypeStep
     DEF Subscriber, SubscriberFails, chainVars, storeVars, expiryVars,
         handlerVars, ChainTypeOK, StoreTypeOK, ExpiryTypeOK, HandlerTypeOK
<1>5. CASE (\E d \in Delegations : Watch(d)) \/ WatcherFails
  BY <1>5, WatcherTypeStep
     DEF Watch, WatcherFails, chainVars, storeVars, expiryVars,
         subscriberVars, handlerVars, ChainTypeOK, StoreTypeOK, ExpiryTypeOK,
         SubscriberTypeOK, HandlerTypeOK
<1>6. CASE UnbondingHandler \/ WithdrawnHandler \/ HandlerFails
  BY <1>6, HandlerTypeStep
     DEF UnbondingHandler, WithdrawnHandler, HandlerFails, chainVars,
         expiryVars, subscriberVars, ChainTypeOK, ExpiryTypeOK,
         SubscriberTypeOK
<1>7. CASE Restart
  BY <1>7, RestartTypeStep
<1>8. CASE UNCHANGED vars
  BY <1>8
     DEF vars, chainVars, storeVars, memoryVars, expiryVars, watcherVars,
         subscriberVars, handlerVars, ChainTypeOK, StoreTypeOK, ExpiryTypeOK,
         WatcherTypeOK, SubscriberTypeOK, HandlerTypeOK
<1> QED
  BY <1>1, <1>2, <1>3, <1>4, <1>5, <1>6, <1>7, <1>8 DEF Next

(* Every variable keeps its type and no channel exceeds its capacity, for  *)
(* every set of delegations, every timelock and every bound.               *)
THEOREM TypeCorrect == Spec => []TypeOK
  BY InitTypes, TypeStep, PTL DEF Spec

=============================================================================
