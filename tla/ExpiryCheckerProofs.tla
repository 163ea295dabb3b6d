------------------------ MODULE ExpiryCheckerProofs -------------------------
(***************************************************************************)
(* The safety properties of ExpiryChecker and its refinement of            *)
(* DelegationLifecycle, for any constants that meet the assumptions.  The  *)
(* argument: whatever a step of the service does to a document is one of   *)
(* few legal moves, and a timelock document leaves the queue only when it  *)
(* has expired and has done its work (Moves and Retains).  The inductive   *)
(* invariant IInv gives each step what it needs for that.                  *)
(***************************************************************************)
EXTENDS ExpiryCheckerTypes

USE DEF Active, UnbondingRequested, Unbonding, Unbonded, Withdrawn,
        Transitioned, ActiveTxType, UnbondingTxType

ChainTx(d) ==
    [startHeight |-> stakingSpend[d].height, timelock |-> UnbondingTime[d]]

(* d's document is marked with a new state and keeps the rest. *)
Marked(d, from, to) ==
    /\ delegations[d].state \in from
    /\ delegations'[d].state = to
    /\ delegations'[d].unbondingTx = delegations[d].unbondingTx

(* What one step may do to the document of d. *)
Moved(d) ==
    \/ delegations'[d] = delegations[d]
    \/ Marked(d, {Active}, UnbondingRequested)
    \/ Marked(d, {Active}, Transitioned)
    \/ /\ Marked(d, {Active}, Unbonded)
       /\ tip >= StakingExpiry(d)
    \/ /\ Marked(d, {Unbonding}, Unbonded)
       /\ tip >= UnbondingExpiry(d)
    \/ /\ Marked(d, {Unbonded}, Withdrawn)
       /\ OutputGone(d)
    \/ /\ delegations[d].state \in {Active, UnbondingRequested}
       /\ delegations'[d].state = Unbonding
       /\ delegations'[d].unbondingTx = ChainTx(d)
       /\ stakingSpend[d].path = "unbonding"
       /\ \/ tip >= UnbondingExpiry(d)
          \/ Queued(d, UnbondingTxType, UnbondingExpiry(d))

Moves == \A d \in Delegations : Moved(d)

(* What a step may take out of the queue. *)
Retains ==
    \A t \in timelockQueue :
        \/ t \in timelockQueue'
        \/ /\ t.expireHeight <= tip
           /\ t.txType = ActiveTxType => delegations[t.hash].state # Active

(* The parts of the invariant that follow from Moves and Retains alone. *)
DocumentInv ==
    /\ ChainConsistent
    /\ UnbondingHasTx
    /\ UnbondingTxOnChain
    /\ UnbondedAfterExpiry
    /\ WithdrawnOnlyIfGone
    /\ ActiveHasTimelock
    /\ UnbondingHasTimelock

-----------------------------------------------------------------------------

LEMMA TypeFacts ==
    ASSUME TypeOK
    PROVE  /\ tip \in Nat /\ btcTip \in Nat
           /\ \A d \in Delegations :
                /\ StakingExpiry(d) \in Nat
                /\ UnbondingExpiry(d) \in Nat
                /\ stakingSpend[d] \in Spend
                /\ unbondingSpend[d] \in Spend
                /\ delegations[d] \in DelegationDocument
                /\ delegations[d].state \in DelegationState
           /\ \A t \in timelockQueue \cup expiredBatch \cup current :
                /\ t.hash \in Delegations
                /\ t.expireHeight \in Nat
                /\ t.txType \in StakingTxType
<1>1. \A d \in Delegations : StakingExpiry(d) \in Nat /\ UnbondingExpiry(d) \in Nat
  BY ExpiryHeightTypes DEF TypeOK
<1> QED
  BY <1>1
     DEF TypeOK, ChainTypeOK, StoreTypeOK, ExpiryTypeOK, DelegationDocument,
         TimeLockDocument

LEMMA InitInv == Init => IInv
<1> SUFFICES ASSUME Init PROVE IInv
  OBVIOUS
<1>1. TypeOK
  BY InitTypes
<1>2. ChainConsistent
  BY DEF Init, ChainInit, ChainConsistent, NoSpend
<1>3. QueueConsistent
  <2>1. \A t \in timelockQueue : t.id \in Delegations /\ t =
           [id |-> t.id, hash |-> t.id, expireHeight |-> StakingExpiry(t.id),
            txType |-> ActiveTxType]
    BY DEF Init, StoreInit
  <2>2. \A t \in timelockQueue :
           t.hash = t.id /\ t.txType = ActiveTxType
           /\ t.expireHeight = StakingExpiry(t.id)
    BY <2>1
  <2>3. \A t, u \in timelockQueue : t.id = u.id => t = u
    BY <2>1
  <2> QED BY <2>2, <2>3 DEF QueueConsistent, EntryMatchesChain
<1>4. BatchIsQueued /\ PollConsistent
  BY ConstantTypes
     DEF Init, ChainInit, MemoryInit, ExpiryInit, BatchIsQueued, PollConsistent
<1>5. EventsConsistent /\ SavedBeforeTransition
  BY DEF Init, MemoryInit, WatcherInit, HandlerInit, EventsConsistent,
         SavedBeforeTransition
<1>6. \A d \in Delegations : /\ delegations[d].state = Active
                             /\ delegations[d].unbondingTx = NoUnbondingTx
                             /\ Queued(d, ActiveTxType, StakingExpiry(d))
  <2> SUFFICES ASSUME NEW d \in Delegations
               PROVE  /\ delegations[d].state = Active
                      /\ delegations[d].unbondingTx = NoUnbondingTx
                      /\ Queued(d, ActiveTxType, StakingExpiry(d))
    OBVIOUS
  <2> DEFINE entry == [id |-> d, hash |-> d, expireHeight |-> StakingExpiry(d),
                       txType |-> ActiveTxType]
  <2>1. entry \in timelockQueue
    BY DEF Init, StoreInit
  <2>2. Queued(d, ActiveTxType, StakingExpiry(d))
    BY <2>1 DEF Queued
  <2> QED BY <2>2 DEF Init, StoreInit
<1>7. /\ UnbondingHasTx
      /\ UnbondedAfterExpiry
      /\ WithdrawnOnlyIfGone
      /\ ActiveHasTimelock
      /\ UnbondingHasTimelock
  BY <1>6
     DEF UnbondingHasTx, UnbondedAfterExpiry, WithdrawnOnlyIfGone,
         ActiveHasTimelock, UnbondingHasTimelock
<1>8. UnbondingTxOnChain
  BY <1>6 DEF UnbondingTxOnChain
<1>9. PageConsistent
  BY DEF Init, MemoryInit, SubscriberInit, PageConsistent
<1> QED
  BY <1>1, <1>2, <1>3, <1>4, <1>5, <1>7, <1>8, <1>9 DEF IInv

-----------------------------------------------------------------------------
(* The chain moves on                                                      *)

LEMMA ChainGrows ==
    ASSUME TypeOK, ChainConsistent, ChainNext
    PROVE  /\ tip' >= tip
           /\ \A d \in Delegations :
                /\ stakingSpend[d].path # "none" =>
                      stakingSpend'[d] = stakingSpend[d]
                /\ OutputGone(d) => OutputGone(d)'
           /\ ChainConsistent'
<1> USE DEF ChainConsistent, OutputGone, ChainTypeOK, TypeOK, Spend, NoSpend
<1>1. CASE MineEmptyBlock
  BY <1>1 DEF MineEmptyBlock, NextBlock
<1>2. ASSUME NEW e \in Delegations,
             NEW path \in {"unbonding", "timelock", "slashing"},
             MineStakingSpend(e, path)
      PROVE  /\ tip' >= tip
             /\ \A d \in Delegations :
                  /\ stakingSpend[d].path # "none" =>
                        stakingSpend'[d] = stakingSpend[d]
                  /\ OutputGone(d) => OutputGone(d)'
             /\ ChainConsistent'
  BY <1>2 DEF MineStakingSpend, NextBlock
<1>3. ASSUME NEW e \in Delegations, NEW path \in {"timelock", "slashing"},
             MineUnbondingSpend(e, path)
      PROVE  /\ tip' >= tip
             /\ \A d \in Delegations :
                  /\ stakingSpend[d].path # "none" =>
                        stakingSpend'[d] = stakingSpend[d]
                  /\ OutputGone(d) => OutputGone(d)'
             /\ ChainConsistent'
  BY <1>3 DEF MineUnbondingSpend, NextBlock
<1> QED
  BY <1>1, <1>2, <1>3 DEF ChainNext

(* A page is read from documents that carry the unbonding transactions of  *)
(* the chain, and a transaction that is on the chain stays there.          *)
LEMMA PageStep ==
    ASSUME IInv, [Next]_vars
    PROVE  PageConsistent'
<1> USE DEF IInv
<1>1. \A doc \in page : doc.hash \in Delegations
  BY DEF TypeOK, SubscriberTypeOK, PageDocument
<1>2. ASSUME page' \subseteq page, UNCHANGED stakingSpend
      PROVE  PageConsistent'
  BY <1>2 DEF PageConsistent
<1>3. CASE Chain
  <2>1. page' = page
    BY <1>3 DEF Chain, memoryVars, subscriberVars
  <2>2. \A d \in Delegations :
           stakingSpend[d].path # "none" => stakingSpend'[d] = stakingSpend[d]
    BY <1>3, ChainGrows DEF Chain
  <2> QED BY <1>1, <2>1, <2>2 DEF PageConsistent
<1>4. CASE Subscriber \/ SubscriberFails
  <2>1. UNCHANGED stakingSpend
    BY <1>4 DEF Subscriber, SubscriberFails, chainVars
  <2>2. CASE FetchPage
    <3>1. PICK S \in SUBSET Delegations :
             page' = {[hash |-> d, state |-> delegations[d].state,
                       unbondingTx |-> delegations[d].unbondingTx] : d \in S}
      BY <2>2 DEF FetchPage
    <3>2. \A doc \in page' :
             /\ doc.hash \in Delegations
             /\ doc.unbondingTx = delegations[doc.hash].unbondingTx
      BY <3>1
    <3> QED BY <2>1, <3>2 DEF UnbondingTxOnChain, PageConsistent
  <2>3. page' \subseteq page \/ FetchPage
    BY <1>4
       DEF Subscriber, SubscriberFails, SubscriberProgress, SubscriberFault,
           SkipTracked, ReportSpentOutput, WatchUnbondingOutput,
           WatchStakingOutput, DocumentDone, EndSubscriberPoll
  <2> QED BY <1>2, <2>1, <2>2, <2>3
<1>5. CASE Restart
  BY <1>2, <1>5 DEF Restart, MemoryLost, EndSubscriberPoll, chainVars
<1>6. CASE \/ Api \/ Expiry \/ ExpiryFails \/ WatcherFails \/ HandlerFails
           \/ UnbondingHandler \/ WithdrawnHandler
           \/ \E d \in Delegations : Watch(d)
  BY <1>2, <1>6
     DEF Api, Expiry, ExpiryFails, WatcherFails, HandlerFails, Watch,
         UnbondingHandler, WithdrawnHandler, memoryVars, chainVars,
         subscriberVars
<1>7. CASE UNCHANGED vars
  BY <1>2, <1>7 DEF vars, memoryVars, chainVars, subscriberVars
<1> QED BY <1>3, <1>4, <1>5, <1>6, <1>7 DEF Next

LEMMA ChainStep ==
    ASSUME IInv, Chain, TypeOK', PageConsistent'
    PROVE  IInv'
<1> USE TypeFacts DEF IInv
<1>1. UNCHANGED <<delegations, timelockQueue, expiryPc, btcTip, expiredBatch,
                  current, watchers, unbondingChan, withdrawnChan,
                  unbondingPc, unbondingEvent, withdrawing>>
  BY DEF Chain, storeVars, memoryVars, expiryVars, watcherVars, handlerVars
<1>2. /\ tip' >= tip
      /\ tip' \in Nat
      /\ \A d \in Delegations :
           /\ stakingSpend[d].path # "none" =>
                 stakingSpend'[d] = stakingSpend[d]
           /\ OutputGone(d) => OutputGone(d)'
      /\ ChainConsistent'
  BY ChainGrows DEF Chain, TypeOK, ChainTypeOK
<1>3. \A d \in Delegations :
         stakingSpend[d].path = "unbonding" =>
            /\ stakingSpend'[d] = stakingSpend[d]
            /\ UnbondingExpiry(d)' = UnbondingExpiry(d)
            /\ UnbondingEventFor(d)' = UnbondingEventFor(d)
  BY <1>2 DEF UnbondingExpiry, UnbondingEventFor
<1>4. \A d \in Delegations : StakingExpiry(d)' = StakingExpiry(d)
  BY DEF StakingExpiry
<1>5. QueueConsistent'
  <2>1. ASSUME NEW t \in timelockQueue PROVE EntryMatchesChain(t)'
    BY <1>3, <1>4 DEF QueueConsistent, EntryMatchesChain
  <2> QED BY <1>1, <2>1 DEF QueueConsistent
<1>6. BatchIsQueued' /\ PollConsistent'
  BY <1>1, <1>2 DEF BatchIsQueued, PollConsistent
<1>7. EventsConsistent'
  <2>1. ASSUME NEW e \in UnbondingEvent, EventMatchesChain(e)
        PROVE  EventMatchesChain(e)'
    BY <1>3, <2>1 DEF EventMatchesChain, UnbondingEvent
  <2>2. \A i \in 1 .. Len(unbondingChan) : unbondingChan[i] \in UnbondingEvent
    BY ElementOfSeq DEF TypeOK, WatcherTypeOK
  <2>3. \A i \in 1 .. Len(withdrawnChan) : withdrawnChan[i] \in Delegations
    BY ElementOfSeq DEF TypeOK, WatcherTypeOK
  <2> QED
    BY <1>1, <1>2, <2>1, <2>2, <2>3
       DEF EventsConsistent, TypeOK, HandlerTypeOK
<1>8. SavedBeforeTransition'
  <2>1. \A e \in unbondingEvent :
           e.hash \in Delegations /\ stakingSpend[e.hash].path = "unbonding"
    BY DEF EventsConsistent, EventMatchesChain, TypeOK, HandlerTypeOK,
           UnbondingEvent
  <2> QED
    BY <1>1, <1>2, <1>3, <2>1 DEF SavedBeforeTransition, Queued
<1>9. UnbondingHasTx' /\ UnbondingTxOnChain'
  BY <1>1, <1>3 DEF UnbondingHasTx, UnbondingTxOnChain
<1>10. UnbondedAfterExpiry'
  BY <1>1, <1>2, <1>3, <1>4 DEF UnbondedAfterExpiry
<1>11. WithdrawnOnlyIfGone'
  BY <1>1, <1>2 DEF WithdrawnOnlyIfGone
<1>12. ActiveHasTimelock'
  BY <1>1, <1>4 DEF ActiveHasTimelock, Queued
<1>13. UnbondingHasTimelock'
  BY <1>1, <1>2, <1>3 DEF UnbondingHasTimelock, UnbondingHasTx, Queued
<1> QED
  BY <1>2, <1>5, <1>6, <1>7, <1>8, <1>9, <1>10, <1>11, <1>12, <1>13

-----------------------------------------------------------------------------
(* A step that leaves the chain alone and makes legal moves                *)

LEMMA MovesKeepDocuments ==
    ASSUME IInv, TypeOK', UNCHANGED chainVars, Moves, Retains
    PROVE  DocumentInv'
<1> USE TypeFacts DEF IInv
<1>1. UNCHANGED <<tip, stakingSpend, unbondingSpend>>
  BY DEF chainVars
<1>2. \A d \in Delegations : /\ Moved(d)
                             /\ StakingExpiry(d)' = StakingExpiry(d)
                             /\ UnbondingExpiry(d)' = UnbondingExpiry(d)
                             /\ OutputGone(d)' = OutputGone(d)
                             /\ ChainTx(d)' = ChainTx(d)
  BY <1>1 DEF Moves, StakingExpiry, UnbondingExpiry, OutputGone, ChainTx
<1>3. ChainConsistent'
  BY <1>1 DEF ChainConsistent
<1>4. UnbondingHasTx'
  <2> SUFFICES ASSUME NEW d \in Delegations, delegations'[d].state = Unbonding
               PROVE  /\ stakingSpend[d].path = "unbonding"
                      /\ delegations'[d].unbondingTx.startHeight =
                            stakingSpend[d].height
    BY <1>1 DEF UnbondingHasTx
  <2>1. \/ delegations'[d] = delegations[d]
        \/ /\ delegations'[d].unbondingTx = ChainTx(d)
           /\ stakingSpend[d].path = "unbonding"
    BY <1>2 DEF Moved, Marked
  <2>2. ChainTx(d).startHeight = stakingSpend[d].height
    BY DEF ChainTx
  <2> QED BY <2>1, <2>2 DEF UnbondingHasTx
<1>5. UnbondingTxOnChain'
  BY <1>1, <1>2 DEF UnbondingTxOnChain, Moved, Marked, ChainTx
<1>6. UnbondedAfterExpiry'
  BY <1>1, <1>2 DEF UnbondedAfterExpiry, UnbondingHasTx, Moved, Marked
<1>7. WithdrawnOnlyIfGone'
  BY <1>1, <1>2 DEF WithdrawnOnlyIfGone, Moved, Marked
<1>8. ActiveHasTimelock'
  <2> SUFFICES ASSUME NEW d \in Delegations, delegations'[d].state = Active
               PROVE  Queued(d, ActiveTxType, StakingExpiry(d))'
    BY DEF ActiveHasTimelock
  <2>1. delegations[d].state = Active
    BY <1>2 DEF Moved, Marked
  <2>2. PICK t \in timelockQueue :
           /\ t.hash = d
           /\ t.txType = ActiveTxType
           /\ t.expireHeight = StakingExpiry(d)
    BY <2>1 DEF ActiveHasTimelock, Queued
  <2>3. t \in timelockQueue'
    BY <2>1, <2>2 DEF Retains
  <2> QED BY <1>2, <2>2, <2>3 DEF Queued
<1>9. UnbondingHasTimelock'
  <2> SUFFICES ASSUME NEW d \in Delegations, delegations'[d].state = Unbonding,
                      tip < UnbondingExpiry(d)
               PROVE  Queued(d, UnbondingTxType, UnbondingExpiry(d))'
    BY <1>1, <1>2 DEF UnbondingHasTimelock
  <2>1. Queued(d, UnbondingTxType, UnbondingExpiry(d))
    BY <1>2 DEF Moved, Marked, UnbondingHasTimelock
  <2>2. PICK t \in timelockQueue :
           /\ t.hash = d
           /\ t.txType = UnbondingTxType
           /\ t.expireHeight = UnbondingExpiry(d)
    BY <2>1 DEF Queued
  <2>3. t \in timelockQueue'
    BY <2>2 DEF Retains
  <2> QED BY <1>2, <2>2, <2>3 DEF Queued
<1> QED
  BY <1>3, <1>4, <1>5, <1>6, <1>7, <1>8, <1>9 DEF DocumentInv

(* No step makes a delegation active again. *)
LEMMA NeverActiveAgain ==
    ASSUME Moves, NEW d \in Delegations, delegations'[d].state = Active
    PROVE  delegations[d].state = Active
  BY DEF Moves, Moved, Marked

LEMMA QueueKept ==
    ASSUME IInv, UNCHANGED chainVars, timelockQueue' \subseteq timelockQueue
    PROVE  QueueConsistent'
<1>1. \A t \in timelockQueue : EntryMatchesChain(t)' = EntryMatchesChain(t)
  BY DEF chainVars, EntryMatchesChain, StakingExpiry, UnbondingExpiry
<1> QED BY <1>1 DEF IInv, QueueConsistent

LEMMA PollKept ==
    ASSUME IInv, UNCHANGED chainVars, UNCHANGED expiryVars, Moves,
           timelockQueue \subseteq timelockQueue'
    PROVE  BatchIsQueued' /\ PollConsistent'
<1>1. \A t \in current : t.hash \in Delegations
  BY TypeFacts DEF IInv
<1> QED
  BY <1>1, NeverActiveAgain
     DEF IInv, BatchIsQueued, PollConsistent, chainVars, expiryVars

LEMMA EventsKept ==
    ASSUME IInv, UNCHANGED chainVars,
           UNCHANGED <<unbondingChan, withdrawnChan, unbondingEvent, withdrawing>>
    PROVE  EventsConsistent'
  BY DEF IInv, EventsConsistent, EventMatchesChain, UnbondingEventFor,
         OutputGone, chainVars

LEMMA SavedKept ==
    ASSUME IInv, UNCHANGED chainVars, Retains,
           UNCHANGED <<unbondingPc, unbondingEvent>>
    PROVE  SavedBeforeTransition'
<1> SUFFICES ASSUME unbondingPc = "transition", NEW e \in unbondingEvent,
                    ~ tip >= UnbondingExpiry(e.hash)
             PROVE  Queued(e.hash, UnbondingTxType, UnbondingExpiry(e.hash))'
  BY DEF SavedBeforeTransition, UnbondingExpiry, chainVars
<1>1. UnbondingExpiry(e.hash)' = UnbondingExpiry(e.hash)
  BY DEF UnbondingExpiry, chainVars
<1>2. PICK t \in timelockQueue :
         /\ t.hash = e.hash
         /\ t.txType = UnbondingTxType
         /\ t.expireHeight = UnbondingExpiry(e.hash)
  BY DEF IInv, SavedBeforeTransition, Queued
<1>3. t \in timelockQueue'
  BY <1>2, TypeFacts DEF Retains, IInv
<1> QED BY <1>1, <1>2, <1>3 DEF Queued

-----------------------------------------------------------------------------
(* The steps of the API and of the expiry poller                           *)

(* An update of one document changes no other, and this one only when its  *)
(* state is eligible.                                                      *)
LEMMA TransitionEffect ==
    ASSUME StoreTypeOK, NEW d \in Delegations, NEW s, NEW eligible, NEW tx,
           delegations' = TransitionState(d, s, eligible, tx),
           NEW e \in Delegations
    PROVE  \/ delegations'[e] = delegations[e]
           \/ /\ e = d
              /\ delegations[d].state \in eligible
              /\ delegations'[d].state = s
              /\ delegations'[d].unbondingTx = tx
  BY DEF TransitionState, StoreTypeOK

LEMMA ApiStep ==
    ASSUME IInv, Api, TypeOK', PageConsistent'
    PROVE  IInv'
<1> USE DEF IInv
<1>1. UNCHANGED <<chainVars, expiryVars, timelockQueue, unbondingChan,
                  withdrawnChan, unbondingPc, unbondingEvent, withdrawing>>
  BY DEF Api, ApiNext, ApiTransition, memoryVars, watcherVars, handlerVars
<1>2. Moves
  BY DEF Api, ApiNext, ApiTransition, Moves, Moved, Marked, TypeOK,
         StoreTypeOK, DelegationDocument
<1>3. Retains
  BY <1>1 DEF Retains
<1> QED
  BY <1>1, <1>2, <1>3, MovesKeepDocuments, QueueKept, PollKept, EventsKept,
     SavedKept DEF DocumentInv

(* Unbonding the delegation of an expired entry is a legal move. *)
LEMMA ExpiredMoves ==
    ASSUME IInv, NEW t \in expiredBatch,
           delegations' = TransitionToUnbondedState(
                              t.hash, QualifiedStatesToUnbonded(t.txType))
    PROVE  /\ Moves
           /\ t.txType = ActiveTxType => delegations'[t.hash].state # Active
<1> USE DEF IInv
<1>1. /\ t \in timelockQueue
      /\ t.hash \in Delegations
      /\ t.txType \in StakingTxType
      /\ t.expireHeight <= tip
  BY TypeFacts DEF BatchIsQueued, PollConsistent
<1>2. EntryMatchesChain(t)
  BY <1>1 DEF QueueConsistent
<1>3. ASSUME NEW e \in Delegations
      PROVE  \/ delegations'[e] = delegations[e]
             \/ /\ e = t.hash
                /\ Marked(e, QualifiedStatesToUnbonded(t.txType), Unbonded)
  BY <1>1, TransitionEffect DEF TransitionToUnbondedState, Marked, TypeOK
<1>4. CASE t.txType = ActiveTxType
  <2>1. tip >= StakingExpiry(t.hash)
    BY <1>1, <1>2, <1>4 DEF EntryMatchesChain
  <2>2. QualifiedStatesToUnbonded(t.txType) = {Active}
    BY <1>4 DEF QualifiedStatesToUnbonded
  <2>3. Moves
    BY <1>3, <2>1, <2>2 DEF Moves, Moved
  <2>4. delegations[t.hash].state = Active => delegations'[t.hash].state = Unbonded
    BY <1>1, <2>2
       DEF TransitionToUnbondedState, TransitionState, TypeOK, StoreTypeOK
  <2>5. delegations'[t.hash].state # Active
    BY <1>1, <2>3, <2>4, NeverActiveAgain
  <2> QED BY <2>3, <2>5
<1>5. CASE t.txType = UnbondingTxType
  <2>1. tip >= UnbondingExpiry(t.hash)
    BY <1>1, <1>2, <1>5 DEF EntryMatchesChain
  <2>2. QualifiedStatesToUnbonded(t.txType) = {Unbonding}
    BY <1>5 DEF QualifiedStatesToUnbonded
  <2> QED BY <1>3, <1>5, <2>1, <2>2 DEF Moves, Moved
<1> QED BY <1>1, <1>4, <1>5 DEF StakingTxType

(* Deleting the entry the poller has just worked on is a legal removal, and *)
(* leaves the rest of its batch in the queue.                              *)
LEMMA DeleteRetains ==
    ASSUME IInv, NEW t \in current,
           timelockQueue' = DeleteExpiredDelegation(t.id), UNCHANGED delegations
    PROVE  /\ Retains
           /\ timelockQueue' \subseteq timelockQueue
           /\ expiredBatch \ {t} \subseteq timelockQueue'
<1> USE DEF IInv
<1>1. /\ t \in timelockQueue
      /\ t.expireHeight <= tip
      /\ t.txType = ActiveTxType => delegations[t.hash].state # Active
  BY TypeFacts DEF BatchIsQueued, PollConsistent
<1>2. timelockQueue' = timelockQueue \ {t}
  BY <1>1 DEF DeleteExpiredDelegation, QueueConsistent
<1> QED BY <1>1, <1>2 DEF Retains, BatchIsQueued

(* An entry found expired at the height the poller knows is expired now.   *)
LEMMA FoundExpired ==
    ASSUME IInv, FindExpiredDelegations, UNCHANGED chainVars
    PROVE  BatchIsQueued' /\ PollConsistent'
<1> USE DEF IInv
<1>1. PICK batch \in SUBSET timelockQueue :
         /\ IsExpiredBatch(batch, btcTip)
         /\ expiredBatch' = batch
         /\ btcTip' = IF batch = {} THEN 0 ELSE btcTip
  BY DEF FindExpiredDelegations
<1>2. \A t \in batch : t.expireHeight <= btcTip
  BY <1>1 DEF IsExpiredBatch, Expired
<1>3. /\ current' = {}
      /\ timelockQueue' = timelockQueue
      /\ tip' = tip
  BY DEF FindExpiredDelegations, PollConsistent, storeVars, chainVars
<1>4. btcTip' <= tip
  BY <1>1, TypeFacts DEF PollConsistent
<1> QED
  BY <1>1, <1>2, <1>3, <1>4 DEF BatchIsQueued, PollConsistent

LEMMA PollEnded ==
    ASSUME IInv, UNCHANGED chainVars, EndExpiryPoll
    PROVE  BatchIsQueued' /\ PollConsistent'
  BY TypeFacts
     DEF IInv, EndExpiryPoll, BatchIsQueued, PollConsistent, chainVars

(* What each step of the poller does to the store, and what it is left to  *)
(* work on.                                                                *)
LEMMA ExpiryEffect ==
    ASSUME IInv, ExpiryProgress \/ ExpiryFault, UNCHANGED chainVars
    PROVE  /\ Moves
           /\ Retains
           /\ timelockQueue' \subseteq timelockQueue
           /\ BatchIsQueued'
           /\ PollConsistent'
<1> USE DEF IInv
<1>0. ASSUME UNCHANGED delegations PROVE Moves
  BY <1>0 DEF Moves, Moved
<1>00. ASSUME UNCHANGED timelockQueue
       PROVE  Retains /\ timelockQueue' \subseteq timelockQueue
  BY <1>00 DEF Retains
<1>1. CASE ExpiryTick
  <2>1. UNCHANGED storeVars /\ UNCHANGED <<expiredBatch, current>>
    BY <1>1 DEF ExpiryTick
  <2>2. current = {} /\ btcTip' = tip
    BY <1>1 DEF ExpiryTick, PollConsistent
  <2>3. \A t \in expiredBatch : t.expireHeight <= tip
    BY TypeFacts DEF PollConsistent
  <2>4. BatchIsQueued' /\ PollConsistent'
    BY <2>1, <2>2, <2>3, TypeFacts
       DEF BatchIsQueued, PollConsistent, storeVars, chainVars
  <2> QED BY <1>0, <1>00, <2>1, <2>4 DEF storeVars
<1>2. CASE FindExpiredDelegations
  BY <1>0, <1>00, <1>2, FoundExpired DEF FindExpiredDelegations, storeVars
<1>3. ASSUME NEW t \in expiredBatch, TransitionExpired(t)
      PROVE  /\ Moves
             /\ Retains
             /\ timelockQueue' \subseteq timelockQueue
             /\ BatchIsQueued'
             /\ PollConsistent'
  <2>1. /\ Moves
        /\ t.txType = ActiveTxType => delegations'[t.hash].state # Active
    BY <1>3, ExpiredMoves DEF TransitionExpired
  <2>2. /\ current' = {t}
        /\ expiryPc' = "delete"
        /\ UNCHANGED <<btcTip, expiredBatch, timelockQueue, tip>>
    BY <1>3 DEF TransitionExpired, chainVars
  <2>3. BatchIsQueued' /\ PollConsistent'
    BY <2>1, <2>2 DEF BatchIsQueued, PollConsistent
  <2> QED BY <1>00, <2>1, <2>2, <2>3
<1>4. CASE DeleteExpired
  <2>1. PICK t \in current :
           /\ expiryPc = "delete"
           /\ timelockQueue' = DeleteExpiredDelegation(t.id)
           /\ \/ EndExpiryPoll
              \/ /\ expiryPc' = "transition"
                 /\ expiredBatch' = expiredBatch \ {t}
                 /\ current' = {}
                 /\ UNCHANGED btcTip
           /\ UNCHANGED delegations
    BY <1>4 DEF DeleteExpired
  <2>2. /\ Retains
        /\ timelockQueue' \subseteq timelockQueue
        /\ expiredBatch \ {t} \subseteq timelockQueue'
    BY <2>1, DeleteRetains
  <2>3. BatchIsQueued' /\ PollConsistent'
    BY <2>1, <2>2, PollEnded DEF BatchIsQueued, PollConsistent, chainVars
  <2> QED BY <1>0, <2>1, <2>2, <2>3
<1>5. CASE ExpiryFault
  <2>1. Moves
    <3>1. CASE UNCHANGED delegations
      BY <1>0, <3>1
    <3>2. CASE \E t \in expiredBatch :
                  delegations' = TransitionToUnbondedState(
                                     t.hash, QualifiedStatesToUnbonded(t.txType))
      BY <3>2, ExpiredMoves
    <3> QED BY <1>5, <3>1, <3>2 DEF ExpiryFault, storeVars
  <2>2. Retains /\ timelockQueue' \subseteq timelockQueue
    <3>1. CASE UNCHANGED timelockQueue
      BY <1>00, <3>1
    <3>2. CASE /\ UNCHANGED delegations
               /\ \E t \in current :
                     timelockQueue' = DeleteExpiredDelegation(t.id)
      BY <3>2, DeleteRetains
    <3> QED BY <1>5, <3>1, <3>2 DEF ExpiryFault, storeVars
  <2> QED BY <1>5, <2>1, <2>2, PollEnded DEF ExpiryFault
<1> QED BY <1>1, <1>2, <1>3, <1>4, <1>5 DEF ExpiryProgress

LEMMA ExpiryStep ==
    ASSUME IInv, Expiry \/ ExpiryFails, TypeOK', PageConsistent'
    PROVE  IInv'
<1>1. /\ ExpiryProgress \/ ExpiryFault
      /\ UNCHANGED <<chainVars, unbondingChan, withdrawnChan, unbondingPc,
                     unbondingEvent, withdrawing>>
  BY DEF Expiry, ExpiryFails, watcherVars, handlerVars
<1> QED
  BY <1>1, ExpiryEffect, MovesKeepDocuments, QueueKept, EventsKept, SavedKept
     DEF DocumentInv, IInv

-----------------------------------------------------------------------------
(* The steps of the watchers and of the subscriber poller: they touch the  *)
(* channels only, and never run ahead of the chain                         *)

(* The events in the channels are not ahead of the chain. *)
ChannelsConsistent ==
    /\ \A i \in 1 .. Len(unbondingChan) : EventMatchesChain(unbondingChan[i])
    /\ \A i \in 1 .. Len(withdrawnChan) : OutputGone(withdrawnChan[i])

LEMMA UnbondingPushed ==
    ASSUME TypeOK, ChannelsConsistent, UNCHANGED <<chainVars, withdrawnChan>>,
           NEW d \in Delegations, stakingSpend[d].path = "unbonding",
           PushUnbonding(UnbondingEventFor(d))
    PROVE  ChannelsConsistent'
<1> DEFINE event == UnbondingEventFor(d)
<1>1. event \in UnbondingEvent /\ unbondingChan \in Seq(UnbondingEvent)
  BY ConstantTypes, TypeFacts
     DEF TypeOK, WatcherTypeOK, UnbondingEventFor, UnbondingEvent, Spend
<1>2. event.hash = d
  BY DEF UnbondingEventFor
<1>3. EventMatchesChain(event)
  BY <1>2 DEF EventMatchesChain
<1>4. unbondingChan' = Append(unbondingChan, event)
  BY DEF PushUnbonding
<1>5. \A i \in 1 .. Len(unbondingChan') :
         EventMatchesChain(unbondingChan'[i])
  <2> HIDE DEF event
  <2>1. /\ Len(unbondingChan') = Len(unbondingChan) + 1
        /\ \A i \in 1 .. Len(unbondingChan) :
              unbondingChan'[i] = unbondingChan[i]
        /\ unbondingChan'[Len(unbondingChan) + 1] = event
    BY <1>1, <1>4, AppendProperties
  <2>2. \A i \in 1 .. Len(unbondingChan') :
           i \in 1 .. Len(unbondingChan) \/ i = Len(unbondingChan) + 1
    BY <1>1, <2>1, LenProperties
  <2> QED BY <1>3, <2>1, <2>2 DEF ChannelsConsistent
<1> QED
  BY <1>5 DEF ChannelsConsistent, EventMatchesChain, UnbondingEventFor,
              OutputGone, chainVars

LEMMA WithdrawnPushed ==
    ASSUME TypeOK, ChannelsConsistent, UNCHANGED <<chainVars, unbondingChan>>,
           NEW d \in Delegations, OutputGone(d), PushWithdrawn(d)
    PROVE  ChannelsConsistent'
<1>1. withdrawnChan \in Seq(Delegations)
  BY DEF TypeOK, WatcherTypeOK
<1>2. withdrawnChan' = Append(withdrawnChan, d)
  BY DEF PushWithdrawn
<1>3. \A i \in 1 .. Len(withdrawnChan') : OutputGone(withdrawnChan'[i])
  <2>1. /\ Len(withdrawnChan') = Len(withdrawnChan) + 1
        /\ \A i \in 1 .. Len(withdrawnChan) :
              withdrawnChan'[i] = withdrawnChan[i]
        /\ withdrawnChan'[Len(withdrawnChan) + 1] = d
    BY <1>1, <1>2, AppendProperties
  <2>2. \A i \in 1 .. Len(withdrawnChan') :
           i \in 1 .. Len(withdrawnChan) \/ i = Len(withdrawnChan) + 1
    BY <1>1, <2>1, LenProperties
  <2> QED BY <2>1, <2>2 DEF ChannelsConsistent
<1> QED
  BY <1>3 DEF ChannelsConsistent, EventMatchesChain, UnbondingEventFor,
              OutputGone, chainVars

LEMMA ChannelsKept ==
    ASSUME ChannelsConsistent,
           UNCHANGED <<chainVars, unbondingChan, withdrawnChan>>
    PROVE  ChannelsConsistent'
  BY DEF ChannelsConsistent, EventMatchesChain, UnbondingEventFor, OutputGone,
         chainVars

(* A step that only changes watchers, channels and the subscriber poller. *)
LEMMA EventStep ==
    ASSUME IInv, TypeOK', PageConsistent', ChannelsConsistent',
           UNCHANGED <<chainVars, storeVars, expiryVars, handlerVars>>
    PROVE  IInv'
<1>1. Moves /\ Retains /\ timelockQueue' = timelockQueue
  BY DEF Moves, Moved, Retains, storeVars
<1>2. UNCHANGED <<unbondingPc, unbondingEvent, withdrawing>>
  BY DEF handlerVars
<1>3. EventsConsistent'
  BY <1>2 DEF IInv, EventsConsistent, ChannelsConsistent, EventMatchesChain,
              UnbondingEventFor, OutputGone, chainVars
<1> QED
  BY <1>1, <1>2, <1>3, MovesKeepDocuments, QueueKept, PollKept, SavedKept
     DEF DocumentInv, IInv

LEMMA WatchStep ==
    ASSUME IInv, (\E d \in Delegations : Watch(d)) \/ WatcherFails, TypeOK', PageConsistent'
    PROVE  IInv'
<1> USE DEF IInv
<1>1. UNCHANGED <<chainVars, storeVars, expiryVars, handlerVars>>
  BY DEF Watch, WatcherFails
<1>2. ChannelsConsistent
  BY DEF EventsConsistent, ChannelsConsistent
<1>3. ChannelsConsistent'
  <2>1. ASSUME NEW d \in Delegations, StakingSpentByUnbonding(d)
        PROVE  ChannelsConsistent'
    BY <1>1, <1>2, <2>1, UnbondingPushed DEF StakingSpentByUnbonding, IsValidUnbondingTx
  <2>2. ASSUME NEW d \in Delegations, NEW output \in Output,
               SpentByTimelock(d, output)
        PROVE  ChannelsConsistent'
    <3>1. SpendOf(d, output).path = "timelock"
      BY <2>2 DEF SpentByTimelock, IsWithdrawal
    <3>2. OutputGone(d)
      BY <3>1 DEF SpendOf, OutputGone
    <3> QED
      BY <1>1, <1>2, <2>2, <3>2, WithdrawnPushed DEF SpentByTimelock
  <2>3. ASSUME NEW d \in Delegations, NEW output \in Output,
               RegisterSpendNtfn(d, output) \/ SpentOtherwise(d, output)
                  \/ WatcherFault(d, output)
        PROVE  ChannelsConsistent'
    BY <1>1, <1>2, <2>3, ChannelsKept
       DEF RegisterSpendNtfn, SpentOtherwise, WatcherFault
  <2> QED
    BY <2>1, <2>2, <2>3 DEF Watch, WatcherFails, WatcherProgress
<1> QED BY <1>1, <1>3, EventStep

LEMMA SubscriberStep ==
    ASSUME IInv, Subscriber \/ SubscriberFails, TypeOK', PageConsistent'
    PROVE  IInv'
<1> USE DEF IInv
<1>1. UNCHANGED <<chainVars, storeVars, expiryVars, handlerVars>>
  BY DEF Subscriber, SubscriberFails
<1>2. ChannelsConsistent
  BY DEF EventsConsistent, ChannelsConsistent
<1>3. ChannelsConsistent'
  <2>1. ASSUME NEW doc \in page, ReportSpentOutput(doc)
        PROVE  ChannelsConsistent'
    <3>1. doc.hash \in Delegations
      BY DEF TypeOK, SubscriberTypeOK, PageDocument
    <3>2. stakingSpend[doc.hash].path = "unbonding"
      BY <2>1 DEF ReportSpentOutput, HasUnbondingOutput, PageConsistent
    <3>3. OutputGone(doc.hash)
      BY <2>1, <3>1, <3>2
         DEF ReportSpentOutput, IsUTXOSpent, OutputGone, ChainConsistent
    <3> QED
      BY <1>1, <1>2, <2>1, <3>1, <3>3, WithdrawnPushed
         DEF ReportSpentOutput
  <2>2. ASSUME UNCHANGED <<unbondingChan, withdrawnChan>>
        PROVE  ChannelsConsistent'
    BY <1>1, <1>2, <2>2, ChannelsKept
  <2> QED
    BY <2>1, <2>2
       DEF Subscriber, SubscriberFails, SubscriberProgress, SubscriberFault,
           FetchPage, SkipTracked, WatchUnbondingOutput, WatchStakingOutput,
           watcherVars
<1> QED BY <1>1, <1>3, EventStep

-----------------------------------------------------------------------------
(* The steps of the handlers                                               *)

(* Receiving an event takes the first one and keeps the rest. *)
LEMMA UnbondingReceived ==
    ASSUME IInv, ReceiveUnbonding, UNCHANGED <<chainVars, withdrawnChan>>
    PROVE  /\ ChannelsConsistent'
           /\ EventMatchesChain(Head(unbondingChan))
<1> USE DEF IInv
<1>1. unbondingChan \in Seq(UnbondingEvent) /\ unbondingChan # <<>>
  BY DEF TypeOK, WatcherTypeOK, ReceiveUnbonding
<1>2. /\ Len(unbondingChan') = Len(unbondingChan) - 1
      /\ \A i \in 1 .. Len(unbondingChan') :
            unbondingChan'[i] = unbondingChan[i + 1]
  BY <1>1, HeadTailProperties DEF ReceiveUnbonding
<1>3. Head(unbondingChan) = unbondingChan[1] /\ Len(unbondingChan) \in Nat
  BY <1>1, LenProperties
<1>4. 1 \in 1 .. Len(unbondingChan)
  BY <1>1, <1>3, EmptySeq
<1>5. \A i \in 1 .. Len(unbondingChan') : i + 1 \in 1 .. Len(unbondingChan)
  BY <1>2, <1>3
<1>6. \A i \in 1 .. Len(unbondingChan') : EventMatchesChain(unbondingChan'[i])
  BY <1>2, <1>5 DEF EventsConsistent
<1>7. ChannelsConsistent'
  BY <1>6
     DEF EventsConsistent, ChannelsConsistent, EventMatchesChain,
         UnbondingEventFor, OutputGone, chainVars
<1> QED BY <1>3, <1>4, <1>7 DEF EventsConsistent

LEMMA WithdrawnReceived ==
    ASSUME IInv, ReceiveWithdrawn, UNCHANGED <<chainVars, unbondingChan>>
    PROVE  /\ ChannelsConsistent'
           /\ OutputGone(Head(withdrawnChan))
<1> USE DEF IInv
<1>1. withdrawnChan \in Seq(Delegations) /\ withdrawnChan # <<>>
  BY DEF TypeOK, WatcherTypeOK, ReceiveWithdrawn
<1>2. /\ Len(withdrawnChan') = Len(withdrawnChan) - 1
      /\ \A i \in 1 .. Len(withdrawnChan') :
            withdrawnChan'[i] = withdrawnChan[i + 1]
  BY <1>1, HeadTailProperties DEF ReceiveWithdrawn
<1>3. Head(withdrawnChan) = withdrawnChan[1] /\ Len(withdrawnChan) \in Nat
  BY <1>1, LenProperties
<1>4. 1 \in 1 .. Len(withdrawnChan)
  BY <1>1, <1>3, EmptySeq
<1>5. \A i \in 1 .. Len(withdrawnChan') : i + 1 \in 1 .. Len(withdrawnChan)
  BY <1>2, <1>3
<1>6. \A i \in 1 .. Len(withdrawnChan') : OutputGone(withdrawnChan'[i])
  BY <1>2, <1>5 DEF EventsConsistent
<1>7. ChannelsConsistent'
  BY <1>6
     DEF EventsConsistent, ChannelsConsistent, EventMatchesChain,
         UnbondingEventFor, OutputGone, chainVars
<1> QED BY <1>3, <1>4, <1>7 DEF EventsConsistent

(* The entry for an unbonding event stands for the timelock on the chain,  *)
(* and joins the queue without touching the entries that are there.        *)
LEMMA SavedEntry ==
    ASSUME IInv, NEW event \in unbondingEvent, SaveNewTimeLockExpire(event),
           UNCHANGED chainVars
    PROVE  /\ timelockQueue \subseteq timelockQueue'
           /\ QueueConsistent'
           /\ Queued(event.hash, UnbondingTxType, UnbondingExpiry(event.hash))'
<1> USE DEF IInv
<1>1. EventMatchesChain(event)
  BY DEF EventsConsistent
<1>2. event.startHeight + event.timelock = UnbondingExpiry(event.hash)
  <2>1. /\ event.startHeight = stakingSpend[event.hash].height
        /\ event.timelock = UnbondingTime[event.hash]
    BY <1>1 DEF EventMatchesChain, UnbondingEventFor
  <2> QED BY <2>1 DEF UnbondingExpiry
<1>3. PICK i \in TimelockIds :
         /\ \A t \in timelockQueue : t.id # i
         /\ timelockQueue' = timelockQueue \cup
               {[id |-> i, hash |-> event.hash,
                 expireHeight |-> UnbondingExpiry(event.hash),
                 txType |-> UnbondingTxType]}
  BY <1>2, SaveEffect DEF SaveNewTimeLockExpire
<1> DEFINE entry == [id |-> i, hash |-> event.hash,
                     expireHeight |-> UnbondingExpiry(event.hash),
                     txType |-> UnbondingTxType]
<1>4. /\ entry.id = i
      /\ entry.hash = event.hash
      /\ entry.expireHeight = UnbondingExpiry(event.hash)
      /\ entry.txType = UnbondingTxType
  OBVIOUS
<1>5. timelockQueue' = timelockQueue \cup {entry}
  BY <1>3
<1> HIDE DEF entry
<1>6. \A t : EntryMatchesChain(t)' = EntryMatchesChain(t)
  BY DEF EntryMatchesChain, StakingExpiry, UnbondingExpiry, chainVars
<1>7. EntryMatchesChain(entry)
  BY <1>1, <1>4 DEF EntryMatchesChain, EventMatchesChain
<1>8. UnbondingExpiry(event.hash)' = UnbondingExpiry(event.hash)
  BY DEF UnbondingExpiry, chainVars
<1>9. QueueConsistent'
  <2>1. \A t \in timelockQueue' : EntryMatchesChain(t)'
    BY <1>5, <1>6, <1>7 DEF QueueConsistent
  <2>2. \A t, u \in timelockQueue' : t.id = u.id => t = u
    BY <1>3, <1>4, <1>5 DEF QueueConsistent
  <2> QED BY <2>1, <2>2 DEF QueueConsistent
<1>10. Queued(event.hash, UnbondingTxType, UnbondingExpiry(event.hash))'
  BY <1>4, <1>5, <1>8 DEF Queued
<1> QED BY <1>5, <1>9, <1>10

(* Recording the unbonding transaction of an event whose entry has been    *)
(* saved is a legal move.                                                  *)
LEMMA UnbondingMoves ==
    ASSUME IInv, NEW event \in unbondingEvent, unbondingPc = "transition",
           delegations' = TransitionToUnbondingState(
                              event.hash, event.startHeight, event.timelock)
    PROVE  Moves
<1> USE DEF IInv
<1>1. event.hash \in Delegations
  BY DEF TypeOK, HandlerTypeOK, UnbondingEvent
<1>2. /\ stakingSpend[event.hash].path = "unbonding"
      /\ event = UnbondingEventFor(event.hash)
  BY DEF EventsConsistent, EventMatchesChain
<1>3. [startHeight |-> event.startHeight, timelock |-> event.timelock]
         = ChainTx(event.hash)
  BY <1>2 DEF UnbondingEventFor, ChainTx
<1>4. \/ tip >= UnbondingExpiry(event.hash)
      \/ Queued(event.hash, UnbondingTxType, UnbondingExpiry(event.hash))
  BY DEF SavedBeforeTransition
<1>5. delegations' = TransitionState(event.hash, Unbonding,
                         QualifiedStatesToUnbonding, ChainTx(event.hash))
  BY <1>3 DEF TransitionToUnbondingState
<1>6. ASSUME NEW d \in Delegations PROVE Moved(d)
  <2>1. \/ delegations'[d] = delegations[d]
        \/ /\ d = event.hash
           /\ delegations[d].state \in {Active, UnbondingRequested}
           /\ delegations'[d].state = Unbonding
           /\ delegations'[d].unbondingTx = ChainTx(d)
    BY <1>1, <1>5, TransitionEffect DEF TypeOK, QualifiedStatesToUnbonding
  <2> QED BY <1>2, <1>4, <2>1 DEF Moved
<1> QED BY <1>6 DEF Moves

LEMMA WithdrawnMoves ==
    ASSUME IInv, NEW d \in withdrawing,
           delegations' = TransitionToWithdrawnState(
                              d, QualifiedStatesToWithdraw)
    PROVE  Moves
<1> USE DEF IInv
<1>1. d \in Delegations /\ OutputGone(d)
  BY DEF TypeOK, HandlerTypeOK, EventsConsistent
<1>2. ASSUME NEW e \in Delegations PROVE Moved(e)
  <2>1. \/ delegations'[e] = delegations[e]
        \/ /\ e = d
           /\ Marked(e, {Unbonded}, Withdrawn)
    BY <1>1, TransitionEffect
       DEF TypeOK, TransitionToWithdrawnState, QualifiedStatesToWithdraw, Marked
  <2> QED BY <1>1, <2>1 DEF Moved
<1> QED BY <1>2 DEF Moves

(* The handlers' events after a step, given what is in the channels and    *)
(* what each handler holds.                                                *)
LEMMA HandlerEvents ==
    ASSUME IInv, UNCHANGED chainVars, ChannelsConsistent',
           \/ unbondingEvent' \subseteq unbondingEvent
           \/ \E event : /\ unbondingEvent' = {event}
                         /\ EventMatchesChain(event),
           \/ withdrawing' \subseteq withdrawing
           \/ \E d : withdrawing' = {d} /\ OutputGone(d)
    PROVE  EventsConsistent'
<1> USE DEF IInv
<1>1. \A event : EventMatchesChain(event)' = EventMatchesChain(event)
  BY DEF EventMatchesChain, UnbondingEventFor, chainVars
<1>2. \A d : OutputGone(d)' = OutputGone(d)
  BY DEF OutputGone, chainVars
<1>3. \A event, other \in unbondingEvent' : event = other
  BY DEF EventsConsistent
<1>4. \A event \in unbondingEvent' : EventMatchesChain(event)'
  BY <1>1 DEF EventsConsistent
<1>5. \A d \in withdrawing' : OutputGone(d)'
  BY <1>2 DEF EventsConsistent
<1> QED BY <1>3, <1>4, <1>5 DEF ChannelsConsistent, EventsConsistent

(* A step of a handler that leaves the queue alone. *)
LEMMA HandlerWrites ==
    ASSUME IInv, TypeOK', PageConsistent', UNCHANGED <<chainVars, expiryVars, timelockQueue>>,
           Moves, EventsConsistent', SavedBeforeTransition'
    PROVE  IInv'
<1>1. Retains /\ timelockQueue' \subseteq timelockQueue
              /\ timelockQueue \subseteq timelockQueue'
  BY DEF Retains
<1> QED
  BY <1>1, MovesKeepDocuments, QueueKept, PollKept DEF DocumentInv, IInv

(* A step of a handler that adds to the queue. *)
LEMMA HandlerSaves ==
    ASSUME IInv, TypeOK', PageConsistent', UNCHANGED <<chainVars, expiryVars, delegations>>,
           timelockQueue \subseteq timelockQueue', QueueConsistent',
           EventsConsistent', SavedBeforeTransition'
    PROVE  IInv'
<1>1. Moves /\ Retains
  BY DEF Moves, Moved, Retains
<1> QED
  BY <1>1, MovesKeepDocuments, PollKept DEF DocumentInv, IInv

LEMMA UnbondingHandlerStep ==
    ASSUME IInv, UnbondingProgress \/ UnbondingFault,
           UNCHANGED <<chainVars, expiryVars>>, TypeOK', PageConsistent'
    PROVE  IInv'
<1> USE DEF IInv
<1>1. ChannelsConsistent
  BY DEF EventsConsistent, ChannelsConsistent
<1>2. UNCHANGED delegations => Moves
  BY DEF Moves, Moved
<1>3. unbondingPc' # "transition" => SavedBeforeTransition'
  BY DEF SavedBeforeTransition
<1>4. ASSUME ReceiveUnbonding, UNCHANGED <<storeVars, withdrawing, withdrawnChan>>,
             \/ UNCHANGED <<unbondingPc, unbondingEvent>>
             \/ /\ unbondingPc' = "save"
                /\ unbondingEvent' = {Head(unbondingChan)}
      PROVE  IInv'
  <2>1. ChannelsConsistent' /\ EventMatchesChain(Head(unbondingChan))
    BY <1>4, UnbondingReceived
  <2>2. EventsConsistent'
    BY <1>4, <2>1, HandlerEvents
  <2>3. unbondingPc' # "transition"
    BY <1>4 DEF ReceiveUnbonding
  <2> QED BY <1>2, <1>3, <1>4, <2>2, <2>3, HandlerWrites DEF storeVars
<1>5. ASSUME NEW event \in unbondingEvent, SaveNewTimeLockExpire(event),
             UNCHANGED <<withdrawing, watcherVars, delegations>>,
             \/ UNCHANGED unbondingEvent
             \/ EndUnbonding
      PROVE  IInv'
  <2>1. /\ timelockQueue \subseteq timelockQueue'
        /\ QueueConsistent'
        /\ Queued(event.hash, UnbondingTxType, UnbondingExpiry(event.hash))'
    BY <1>5, SavedEntry
  <2>2. EventsConsistent'
    BY <1>1, <1>5, ChannelsKept, HandlerEvents DEF EndUnbonding, watcherVars
  <2>3. \A other \in unbondingEvent' : other = event
    BY <1>5 DEF EndUnbonding, EventsConsistent
  <2>4. SavedBeforeTransition'
    BY <2>1, <2>3 DEF SavedBeforeTransition
  <2> QED BY <1>5, <2>1, <2>2, <2>4, HandlerSaves
<1>6. ASSUME EndUnbonding, Moves,
             UNCHANGED <<withdrawing, watcherVars, timelockQueue>>
      PROVE  IInv'
  <2>1. EventsConsistent'
    BY <1>1, <1>6, ChannelsKept, HandlerEvents DEF EndUnbonding, watcherVars
  <2> QED BY <1>3, <1>6, <2>1, HandlerWrites DEF EndUnbonding
<1>7. CASE AcceptUnbonding
  BY <1>4, <1>7 DEF AcceptUnbonding
<1>8. CASE DropUnbonding
  BY <1>4, <1>8 DEF DropUnbonding, handlerVars
<1>9. CASE SaveUnbondingExpiry
  BY <1>5, <1>9 DEF SaveUnbondingExpiry
<1>10. CASE StartUnbonding
  BY <1>6, <1>10, UnbondingMoves DEF StartUnbonding
<1>11. CASE UnbondingFault
  <2>1. CASE /\ ReceiveUnbonding
             /\ UNCHANGED <<handlerVars, watchers, withdrawnChan, storeVars>>
    BY <1>4, <2>1 DEF handlerVars
  <2>2. CASE \E event \in unbondingEvent :
                /\ SaveNewTimeLockExpire(event) \/ UNCHANGED timelockQueue
                /\ EndUnbonding
                /\ UNCHANGED <<withdrawing, watcherVars, delegations>>
    BY <1>2, <1>5, <1>6, <2>2
  <2>3. CASE /\ unbondingPc = "transition"
             /\ EndUnbonding
             /\ \E event \in unbondingEvent :
                   delegations' \in {delegations,
                       TransitionToUnbondingState(
                           event.hash, event.startHeight, event.timelock)}
             /\ UNCHANGED <<withdrawing, watcherVars, timelockQueue>>
    BY <1>2, <1>6, <2>3, UnbondingMoves
  <2> QED BY <1>11, <2>1, <2>2, <2>3 DEF UnbondingFault
<1> QED
  BY <1>7, <1>8, <1>9, <1>10, <1>11 DEF UnbondingProgress

LEMMA WithdrawnHandlerStep ==
    ASSUME IInv, WithdrawnProgress \/ WithdrawnFault,
           UNCHANGED <<chainVars, expiryVars>>, TypeOK', PageConsistent'
    PROVE  IInv'
<1> USE DEF IInv
<1>1. ChannelsConsistent
  BY DEF EventsConsistent, ChannelsConsistent
<1>2. UNCHANGED delegations => Moves
  BY DEF Moves, Moved
<1>3. Retains /\ UNCHANGED <<unbondingPc, unbondingEvent, timelockQueue>>
  BY DEF WithdrawnProgress, WithdrawnFault, AcceptWithdrawn, DropWithdrawn,
         Withdraw, Retains, storeVars, handlerVars
<1>4. SavedBeforeTransition'
  BY <1>3, SavedKept
<1>5. ASSUME ReceiveWithdrawn, UNCHANGED <<unbondingChan, delegations>>,
             \/ UNCHANGED withdrawing
             \/ withdrawing' = {Head(withdrawnChan)}
      PROVE  IInv'
  <2>1. ChannelsConsistent' /\ OutputGone(Head(withdrawnChan))
    BY <1>5, WithdrawnReceived
  <2>2. EventsConsistent'
    BY <1>3, <1>5, <2>1, HandlerEvents
  <2> QED BY <1>2, <1>3, <1>4, <1>5, <2>2, HandlerWrites
<1>6. ASSUME Moves, withdrawing' = {}, UNCHANGED watcherVars
      PROVE  IInv'
  <2>1. EventsConsistent'
    BY <1>1, <1>3, <1>6, ChannelsKept, HandlerEvents DEF watcherVars
  <2> QED BY <1>3, <1>4, <1>6, <2>1, HandlerWrites
<1>7. CASE AcceptWithdrawn \/ DropWithdrawn
  BY <1>5, <1>7 DEF AcceptWithdrawn, DropWithdrawn, handlerVars, storeVars
<1>8. CASE Withdraw
  BY <1>6, <1>8, WithdrawnMoves DEF Withdraw
<1>9. CASE WithdrawnFault
  <2>1. CASE /\ ReceiveWithdrawn
             /\ UNCHANGED <<handlerVars, watchers, unbondingChan, storeVars>>
    BY <1>5, <2>1 DEF handlerVars, storeVars
  <2>2. CASE \E d \in withdrawing :
                /\ delegations' \in {delegations,
                       TransitionToWithdrawnState(d, QualifiedStatesToWithdraw)}
                /\ withdrawing' = {}
                /\ UNCHANGED watcherVars
    BY <1>2, <1>6, <2>2, WithdrawnMoves
  <2> QED BY <1>9, <2>1, <2>2 DEF WithdrawnFault
<1> QED BY <1>7, <1>8, <1>9 DEF WithdrawnProgress

LEMMA HandlerStep ==
    ASSUME IInv, UnbondingHandler \/ WithdrawnHandler \/ HandlerFails, TypeOK', PageConsistent'
    PROVE  IInv'
  BY UnbondingHandlerStep, WithdrawnHandlerStep
     DEF UnbondingHandler, WithdrawnHandler, HandlerFails

-----------------------------------------------------------------------------
(* A restart, and the theorems                                             *)

LEMMA RestartStep ==
    ASSUME IInv, Restart, TypeOK', PageConsistent'
    PROVE  IInv'
<1> USE DEF IInv
<1>1. UNCHANGED chainVars /\ UNCHANGED <<delegations, timelockQueue>>
  BY DEF Restart, storeVars
<1>2. Moves /\ Retains /\ timelockQueue' \subseteq timelockQueue
  BY <1>1 DEF Moves, Moved, Retains
<1>3. BatchIsQueued' /\ PollConsistent'
  BY <1>1, PollEnded DEF Restart, MemoryLost
<1>4. EventsConsistent' /\ SavedBeforeTransition'
  BY DEF Restart, MemoryLost, EndUnbonding, EventsConsistent,
         SavedBeforeTransition
<1> QED
  BY <1>1, <1>2, <1>3, <1>4, MovesKeepDocuments, QueueKept DEF DocumentInv

LEMMA InvStep == IInv /\ [Next]_vars => IInv'
<1> SUFFICES ASSUME IInv, [Next]_vars PROVE IInv'
  OBVIOUS
<1>1. TypeOK' /\ PageConsistent'
  BY TypeStep, PageStep DEF IInv
<1>2. CASE UNCHANGED vars
  <2>1. UNCHANGED <<chainVars, storeVars, expiryVars, handlerVars,
                    unbondingChan, withdrawnChan>>
    BY <1>2 DEF vars, memoryVars, watcherVars
  <2>2. ChannelsConsistent'
    BY <2>1, ChannelsKept DEF IInv, EventsConsistent, ChannelsConsistent
  <2> QED BY <1>1, <2>1, <2>2, EventStep
<1> QED
  BY <1>1, <1>2, ChainStep, ApiStep, ExpiryStep, SubscriberStep, WatchStep,
     HandlerStep, RestartStep DEF Next

(* The inductive invariant holds in every state the service can reach, for *)
(* any number of delegations, any page, batch and channel size, any chain  *)
(* and any number of restarts and failing calls.                           *)
THEOREM Invariant == Spec => []IInv
<1>1. Init => IInv
  BY InitInv
<1> QED BY <1>1, InvStep, PTL DEF Spec

(* TransitionToUnbondedState and the expiry poller never mark a delegation *)
(* before its funds are out of their timelock, whatever other goroutine    *)
(* runs between the poll's calls.                                          *)
THEOREM UnbondedOnlyAfterExpiry == Spec => []UnbondedAfterExpiry
<1>1. IInv => UnbondedAfterExpiry
  BY DEF IInv
<1> QED BY <1>1, Invariant, PTL

(* handleWithdrawnDelegation marks a delegation as withdrawn only when its *)
(* funds have moved on, however old the event or the page it came from.    *)
THEOREM NoEarlyWithdrawal == Spec => []WithdrawnOnlyIfGone
<1>1. IInv => WithdrawnOnlyIfGone
  BY DEF IInv
<1> QED BY <1>1, Invariant, PTL

(* The unbonding transaction that TransitionToUnbondingState stores is the *)
(* one on the chain.                                                       *)
THEOREM StoredUnbondingTx == Spec => []UnbondingTxOnChain
<1>1. IInv => UnbondingTxOnChain
  BY DEF IInv
<1> QED BY <1>1, Invariant, PTL

(* No failure or restart between the update of a delegation and the        *)
(* deletion of its timelock document leaves an active delegation without   *)
(* one (processExpiredDelegations).                                        *)
THEOREM TimelockOfActive == Spec => []ActiveHasTimelock
<1>1. IInv => ActiveHasTimelock
  BY DEF IInv
<1> QED BY <1>1, Invariant, PTL

(* handleUnbondingDelegation writes the timelock document before it marks  *)
(* the delegation, so no failure or restart between the two leaves a       *)
(* delegation unbonding without one before its timelock is over.           *)
THEOREM TimelockOfUnbonding == Spec => []UnbondingHasTimelock
<1>1. IInv => UnbondingHasTimelock
  BY DEF IInv
<1> QED BY <1>1, Invariant, PTL

(* Only the expiry poller deletes timelock documents: what it has read is  *)
(* there until it deletes it.                                              *)
THEOREM BatchStaysQueued == Spec => []BatchIsQueued
<1>1. IInv => BatchIsQueued
  BY DEF IInv
<1> QED BY <1>1, Invariant, PTL

=============================================================================
