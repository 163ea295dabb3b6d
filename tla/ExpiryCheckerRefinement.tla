----------------------- MODULE ExpiryCheckerRefinement ----------------------
(***************************************************************************)
(* Two more results about ExpiryChecker.  It implements DelegationLifecycle: *)
(* each of its steps touches one document at most, and the move it makes   *)
(* is one of the abstract steps.  And the subscriber poller and the        *)
(* watchers together never watch an output twice: all watchers of a        *)
(* delegation follow from one entry in its tracked subscriptions.          *)
(***************************************************************************)
EXTENDS ExpiryCheckerProofs

USE DEF Active, UnbondingRequested, Unbonding, Unbonded, Withdrawn,
        Transitioned, ActiveTxType, UnbondingTxType

(* At most one document differs after the step. *)
OneDocument ==
    \E d \in Delegations :
        delegations' = [delegations EXCEPT ![d] = delegations'[d]]

DocumentStep == delegations' = delegations \/ OneDocument

-----------------------------------------------------------------------------

LEMMA TransitionTouchesOne ==
    ASSUME StoreTypeOK, NEW d \in Delegations, NEW s, NEW eligible, NEW tx,
           delegations' = TransitionState(d, s, eligible, tx)
    PROVE  DocumentStep
  BY DEF TransitionState, StoreTypeOK, DocumentStep, OneDocument

LEMMA ExpiryTouchesOne ==
    ASSUME IInv, ExpiryProgress \/ ExpiryFault
    PROVE  DocumentStep
<1>1. ASSUME NEW t \in expiredBatch,
             delegations' = TransitionToUnbondedState(
                                t.hash, QualifiedStatesToUnbonded(t.txType))
      PROVE  DocumentStep
  BY <1>1, TransitionTouchesOne, TypeFacts
     DEF IInv, TypeOK, TransitionToUnbondedState
<1>2. \/ UNCHANGED delegations
      \/ \E t \in expiredBatch :
            delegations' = TransitionToUnbondedState(
                               t.hash, QualifiedStatesToUnbonded(t.txType))
  BY DEF ExpiryProgress, ExpiryTick, FindExpiredDelegations,
         TransitionExpired, DeleteExpired, ExpiryFault, storeVars
<1> QED BY <1>1, <1>2 DEF DocumentStep

LEMMA UnbondingHandlerMoves ==
    ASSUME IInv, UnbondingProgress \/ UnbondingFault
    PROVE  Moves /\ DocumentStep
<1>1. ASSUME NEW event \in unbondingEvent, unbondingPc = "transition",
             delegations' = TransitionToUnbondingState(
                                event.hash, event.startHeight, event.timelock)
      PROVE  Moves /\ DocumentStep
  <2>1. event.hash \in Delegations
    BY DEF IInv, TypeOK, HandlerTypeOK, UnbondingEvent
  <2> QED
    BY <1>1, <2>1, UnbondingMoves, TransitionTouchesOne
       DEF IInv, TypeOK, TransitionToUnbondingState
<1>2. \/ UNCHANGED delegations
      \/ /\ unbondingPc = "transition"
         /\ \E event \in unbondingEvent :
               delegations' = TransitionToUnbondingState(
                                  event.hash, event.startHeight, event.timelock)
  BY DEF UnbondingProgress, AcceptUnbonding, DropUnbonding,
         SaveUnbondingExpiry, StartUnbonding, UnbondingFault, storeVars
<1> QED BY <1>1, <1>2 DEF DocumentStep, Moves, Moved

LEMMA WithdrawnHandlerMoves ==
    ASSUME IInv, WithdrawnProgress \/ WithdrawnFault
    PROVE  Moves /\ DocumentStep
<1>1. ASSUME NEW d \in withdrawing,
             delegations' = TransitionToWithdrawnState(
                                d, QualifiedStatesToWithdraw)
      PROVE  Moves /\ DocumentStep
  <2>1. d \in Delegations
    BY DEF IInv, TypeOK, HandlerTypeOK
  <2> QED
    BY <1>1, <2>1, WithdrawnMoves, TransitionTouchesOne
       DEF IInv, TypeOK, TransitionToWithdrawnState
<1>2. \/ UNCHANGED delegations
      \/ \E d \in withdrawing :
            delegations' = TransitionToWithdrawnState(
                               d, QualifiedStatesToWithdraw)
  BY DEF WithdrawnProgress, AcceptWithdrawn, DropWithdrawn, Withdraw,
         WithdrawnFault, storeVars
<1> QED BY <1>1, <1>2 DEF DocumentStep, Moves, Moved

LEMMA ApiMoves ==
    ASSUME IInv, ApiNext
    PROVE  Moves /\ DocumentStep
<1>1. PICK d \in Delegations, s \in {UnbondingRequested, Transitioned} :
         /\ delegations[d].state = Active
         /\ delegations' = [delegations EXCEPT ![d].state = s]
  BY DEF ApiNext, ApiTransition
<1>2. Moves
  BY <1>1 DEF Moves, Moved, Marked, IInv, TypeOK, StoreTypeOK,
              DelegationDocument
<1>3. DocumentStep
  BY <1>1 DEF DocumentStep, OneDocument, IInv, TypeOK, StoreTypeOK,
              DelegationDocument
<1> QED BY <1>2, <1>3

(* Every step mines a block and leaves the documents alone, or makes one   *)
(* legal move and leaves the chain alone.                                  *)
LEMMA StepMoves ==
    ASSUME IInv, [Next]_vars
    PROVE  \/ ChainNext /\ UNCHANGED delegations
           \/ UNCHANGED chainVars /\ Moves /\ DocumentStep
<1>1. CASE Chain
  BY <1>1 DEF Chain, storeVars
<1>2. CASE Api
  BY <1>2, ApiMoves DEF Api
<1>3. CASE Expiry \/ ExpiryFails
  BY <1>3, ExpiryEffect, ExpiryTouchesOne DEF Expiry, ExpiryFails
<1>4. CASE UnbondingHandler \/ WithdrawnHandler \/ HandlerFails
  BY <1>4, UnbondingHandlerMoves, WithdrawnHandlerMoves
     DEF UnbondingHandler, WithdrawnHandler, HandlerFails
<1>5. CASE UNCHANGED <<chainVars, storeVars>>
  BY <1>5 DEF Moves, Moved, DocumentStep, storeVars
<1> QED
  BY <1>1, <1>2, <1>3, <1>4, <1>5
     DEF Next, Subscriber, SubscriberFails, Watch, WatcherFails, Restart, vars

-----------------------------------------------------------------------------
(* The refinement                                                          *)

LEMMA LifecycleInit == Init => Lifecycle!Init
  BY DEF Init, StoreInit, ChainInit, NoUnbondingTx, NoSpend, Lifecycle!Init,
         Lifecycle!ChainInit, Lifecycle!NoSpend, Lifecycle!Active

LEMMA LifecycleChain ==
    ASSUME ChainNext, UNCHANGED delegations
    PROVE  Lifecycle!Next
<1>1. Lifecycle!ChainNext
  BY DEF ChainNext, MineEmptyBlock, MineStakingSpend, MineUnbondingSpend,
         NextBlock, NoSpend, StakingExpiry, UnbondingExpiry,
         Lifecycle!ChainNext, Lifecycle!MineEmptyBlock,
         Lifecycle!MineStakingSpend, Lifecycle!MineUnbondingSpend,
         Lifecycle!NextBlock, Lifecycle!NoSpend, Lifecycle!StakingExpiry,
         Lifecycle!UnbondingExpiry
<1> QED BY <1>1 DEF Lifecycle!Next, Lifecycle!lifecycleVars

LEMMA LifecycleMove ==
    ASSUME IInv, TypeOK', UNCHANGED chainVars, NEW d \in Delegations,
           delegations' = [delegations EXCEPT ![d] = delegations'[d]],
           Moved(d)
    PROVE  Lifecycle!Next \/ UNCHANGED Lifecycle!lifecycleVars
<1> DEFINE status == [e \in Delegations |-> delegations[e].state]
           from == [e \in Delegations |-> delegations[e].unbondingTx.startHeight]
<1>1. /\ status' = [status EXCEPT ![d] = delegations'[d].state]
      /\ from' = [from EXCEPT ![d] = delegations'[d].unbondingTx.startHeight]
      /\ status[d] = delegations[d].state
      /\ from[d] = delegations[d].unbondingTx.startHeight
  BY DEF IInv, TypeOK, StoreTypeOK
<1>2. from' = from \/ delegations'[d].unbondingTx # delegations[d].unbondingTx
  BY <1>1
<1>3. CASE delegations'[d] = delegations[d]
  BY <1>1, <1>3 DEF Lifecycle!lifecycleVars
<1>4. CASE Marked(d, {Active}, UnbondingRequested)
           \/ Marked(d, {Active}, Transitioned)
  <2>1. Lifecycle!Request(d)
    BY <1>1, <1>2, <1>4
       DEF Marked, Lifecycle!Request, Lifecycle!Move, Lifecycle!Active,
           Lifecycle!UnbondingRequested, Lifecycle!Transitioned
  <2> QED
    BY <2>1 DEF Lifecycle!Next, Lifecycle!LifecycleNext, Lifecycle!chainVars,
                chainVars
<1>5. CASE Marked(d, {Active}, Unbonded) /\ tip >= StakingExpiry(d)
  <2>1. Lifecycle!StakingExpires(d)
    BY <1>1, <1>2, <1>5
       DEF Marked, Lifecycle!StakingExpires, Lifecycle!Move, Lifecycle!Active,
           Lifecycle!Unbonded, Lifecycle!StakingExpiry, StakingExpiry
  <2> QED
    BY <2>1 DEF Lifecycle!Next, Lifecycle!LifecycleNext, Lifecycle!chainVars,
                chainVars
<1>6. CASE Marked(d, {Unbonding}, Unbonded) /\ tip >= UnbondingExpiry(d)
  <2>1. from[d] = stakingSpend[d].height
    BY <1>1, <1>6 DEF Marked, IInv, UnbondingHasTx
  <2>2. Lifecycle!UnbondingExpires(d)
    BY <1>1, <1>2, <1>6, <2>1
       DEF Marked, UnbondingExpiry, Lifecycle!UnbondingExpires,
           Lifecycle!Move, Lifecycle!Unbonding, Lifecycle!Unbonded
  <2> QED
    BY <2>2 DEF Lifecycle!Next, Lifecycle!LifecycleNext, Lifecycle!chainVars,
                chainVars
<1>7. CASE Marked(d, {Unbonded}, Withdrawn) /\ OutputGone(d)
  <2>1. Lifecycle!Withdraw(d)
    BY <1>1, <1>2, <1>7
       DEF Marked, Lifecycle!Withdraw, Lifecycle!Move, Lifecycle!Unbonded,
           Lifecycle!Withdrawn, Lifecycle!OutputGone, OutputGone
  <2> QED
    BY <2>1 DEF Lifecycle!Next, Lifecycle!LifecycleNext, Lifecycle!chainVars,
                chainVars
<1>8. CASE /\ delegations[d].state \in {Active, UnbondingRequested}
           /\ delegations'[d].state = Unbonding
           /\ delegations'[d].unbondingTx = ChainTx(d)
           /\ stakingSpend[d].path = "unbonding"
  <2>1. Lifecycle!StartUnbonding(d)
    BY <1>1, <1>8
       DEF ChainTx, Lifecycle!StartUnbonding, Lifecycle!Move,
           Lifecycle!Active, Lifecycle!UnbondingRequested, Lifecycle!Unbonding
  <2> QED
    BY <2>1 DEF Lifecycle!Next, Lifecycle!LifecycleNext, Lifecycle!chainVars,
                chainVars
<1> QED BY <1>3, <1>4, <1>5, <1>6, <1>7, <1>8 DEF Moved

LEMMA LifecycleStep ==
    ASSUME IInv, TypeOK', [Next]_vars
    PROVE  [Lifecycle!Next]_<<Lifecycle!chainVars, Lifecycle!lifecycleVars>>
<1>1. CASE ChainNext /\ UNCHANGED delegations
  BY <1>1, LifecycleChain
<1>2. CASE UNCHANGED chainVars /\ Moves /\ DocumentStep
  <2>1. UNCHANGED Lifecycle!chainVars
    BY <1>2 DEF chainVars, Lifecycle!chainVars
  <2>2. CASE delegations' = delegations
    BY <2>1, <2>2 DEF Lifecycle!lifecycleVars
  <2>3. CASE OneDocument
    BY <1>2, <2>1, <2>3, LifecycleMove DEF OneDocument, Moves
  <2> QED BY <1>2, <2>2, <2>3 DEF DocumentStep
<1> QED BY <1>1, <1>2, StepMoves

(* The service implements the life of a delegation: whatever its           *)
(* goroutines, failing calls and restarts do, every change another user of *)
(* the database can see is a step of DelegationLifecycle.                  *)
THEOREM Refinement == Spec => ImplementsLifecycle
<1>1. IInv /\ IInv' /\ [Next]_vars =>
         [Lifecycle!Next]_<<Lifecycle!chainVars, Lifecycle!lifecycleVars>>
  BY LifecycleStep DEF IInv
<1> QED
  BY <1>1, Invariant, LifecycleInit, PTL
     DEF Spec, ImplementsLifecycle, Lifecycle!Spec

-----------------------------------------------------------------------------
(* One watcher per output                                                  *)

(* All the watchers of d counted in f, of either output and at either      *)
(* stage.                                                                  *)
Total(f, d) ==
    f[<<d, "staking", "registering">>] + f[<<d, "staking", "watching">>]
      + f[<<d, "unbonding", "registering">>] + f[<<d, "unbonding", "watching">>]

(* The strengthening that is inductive: a delegation has one watcher for   *)
(* both of its outputs, and only while it is tracked.                      *)
WatchersTracked ==
    \A d \in Delegations :
        Total(watchers, d) = 0 \/ (Total(watchers, d) = 1 /\ d \in trackedSubs)

(* g counts k more watchers at w than f does, and the same elsewhere. *)
Changed(f, g, w, k) ==
    /\ f \in [Watcher -> Int] /\ g \in [Watcher -> Int]
    /\ w \in Watcher
    /\ g[w] = f[w] + k
    /\ \A v \in Watcher : v # w => g[v] = f[v]

LEMMA Kinds ==
    /\ "staking" \in Output /\ "unbonding" \in Output
    /\ "registering" \in Stage /\ "watching" \in Stage
  BY DEF Output, Stage

LEMMA AllWatchers ==
    ASSUME NEW d \in Delegations
    PROVE  /\ <<d, "staking", "registering">> \in Watcher
           /\ <<d, "staking", "watching">> \in Watcher
           /\ <<d, "unbonding", "registering">> \in Watcher
           /\ <<d, "unbonding", "watching">> \in Watcher
  BY DEF Watcher, Output, Stage

LEMMA TotalOfNone ==
    ASSUME NEW d \in Delegations
    PROVE  Total([w \in Watcher |-> 0], d) = 0
<1> DEFINE none == [w \in Watcher |-> 0]
<1>1. \A w \in Watcher : none[w] = 0
  OBVIOUS
<1> HIDE DEF none
<1>2. Total(none, d) = 0
  BY <1>1, AllWatchers DEF Total
<1> QED BY <1>2 DEF none

(* The total of d moves with any one of its counts; the others stay. *)
LEMMA TotalChanged ==
    ASSUME NEW f, NEW g, NEW d \in Delegations, NEW output \in Output,
           NEW stage \in Stage, NEW k \in Int,
           Changed(f, g, <<d, output, stage>>, k)
    PROVE  \A e \in Delegations :
              Total(g, e) = IF e = d THEN Total(f, e) + k ELSE Total(f, e)
<1>2. /\ g[<<d, output, stage>>] = f[<<d, output, stage>>] + k
      /\ \A w \in Watcher : w # <<d, output, stage>> => g[w] = f[w]
  BY DEF Changed
<1>3. ASSUME NEW e \in Delegations, e # d PROVE Total(g, e) = Total(f, e)
  <2>1. /\ g[<<e, "staking", "registering">>] = f[<<e, "staking", "registering">>]
        /\ g[<<e, "staking", "watching">>] = f[<<e, "staking", "watching">>]
        /\ g[<<e, "unbonding", "registering">>] = f[<<e, "unbonding", "registering">>]
        /\ g[<<e, "unbonding", "watching">>] = f[<<e, "unbonding", "watching">>]
    BY <1>2, <1>3, AllWatchers
  <2> QED BY <2>1 DEF Total
<1>4. /\ f[<<d, "staking", "registering">>] \in Int
      /\ f[<<d, "staking", "watching">>] \in Int
      /\ f[<<d, "unbonding", "registering">>] \in Int
      /\ f[<<d, "unbonding", "watching">>] \in Int
  BY AllWatchers DEF Changed
<1>5. CASE output = "staking" /\ stage = "registering"
  <2>1. /\ g[<<d, "staking", "registering">>] = f[<<d, "staking", "registering">>] + k
        /\ g[<<d, "staking", "watching">>] = f[<<d, "staking", "watching">>]
        /\ g[<<d, "unbonding", "registering">>] = f[<<d, "unbonding", "registering">>]
        /\ g[<<d, "unbonding", "watching">>] = f[<<d, "unbonding", "watching">>]
    BY <1>2, <1>5, AllWatchers
  <2>2. Total(g, d) = Total(f, d) + k
    BY <1>4, <2>1 DEF Total
  <2> QED BY <1>2, <1>3, <2>2
<1>6. CASE output = "staking" /\ stage = "watching"
  <2>1. /\ g[<<d, "staking", "registering">>] = f[<<d, "staking", "registering">>]
        /\ g[<<d, "staking", "watching">>] = f[<<d, "staking", "watching">>] + k
        /\ g[<<d, "unbonding", "registering">>] = f[<<d, "unbonding", "registering">>]
        /\ g[<<d, "unbonding", "watching">>] = f[<<d, "unbonding", "watching">>]
    BY <1>2, <1>6, AllWatchers
  <2>2. Total(g, d) = Total(f, d) + k
    BY <1>4, <2>1 DEF Total
  <2> QED BY <1>2, <1>3, <2>2
<1>7. CASE output = "unbonding" /\ stage = "registering"
  <2>1. /\ g[<<d, "staking", "registering">>] = f[<<d, "staking", "registering">>]
        /\ g[<<d, "staking", "watching">>] = f[<<d, "staking", "watching">>]
        /\ g[<<d, "unbonding", "registering">>] = f[<<d, "unbonding", "registering">>] + k
        /\ g[<<d, "unbonding", "watching">>] = f[<<d, "unbonding", "watching">>]
    BY <1>2, <1>7, AllWatchers
  <2>2. Total(g, d) = Total(f, d) + k
    BY <1>4, <2>1 DEF Total
  <2> QED BY <1>2, <1>3, <2>2
<1>8. CASE output = "unbonding" /\ stage = "watching"
  <2>1. /\ g[<<d, "staking", "registering">>] = f[<<d, "staking", "registering">>]
        /\ g[<<d, "staking", "watching">>] = f[<<d, "staking", "watching">>]
        /\ g[<<d, "unbonding", "registering">>] = f[<<d, "unbonding", "registering">>]
        /\ g[<<d, "unbonding", "watching">>] = f[<<d, "unbonding", "watching">>] + k
    BY <1>2, <1>8, AllWatchers
  <2>2. Total(g, d) = Total(f, d) + k
    BY <1>4, <2>1 DEF Total
  <2> QED BY <1>2, <1>3, <2>2
<1> QED BY <1>5, <1>6, <1>7, <1>8 DEF Output, Stage

LEMMA StartedChanged ==
    ASSUME NEW f \in [Watcher -> Int], NEW w \in Watcher, NEW g,
           g = [f EXCEPT ![w] = @ + 1]
    PROVE  Changed(f, g, w, 1)
  BY DEF Changed

LEMMA EndedChanged ==
    ASSUME TypeOK, NEW w \in Watcher
    PROVE  Changed(watchers, Ended(w), w, -1)
<1>1. watchers \in [Watcher -> Int]
  BY DEF TypeOK, WatcherTypeOK
<1> QED BY <1>1 DEF Changed, Ended

(* A watcher that moves on to its next stage or output leaves the total as *)
(* it is.                                                                  *)
LEMMA TotalMoved ==
    ASSUME TypeOK, NEW d \in Delegations, NEW output \in Output,
           NEW stage \in Stage, NEW other \in Output, NEW next \in Stage,
           watchers' = [Ended(<<d, output, stage>>) EXCEPT
                            ![<<d, other, next>>] = @ + 1]
    PROVE  \A e \in Delegations : Total(watchers', e) = Total(watchers, e)
<1> DEFINE w == <<d, output, stage>>
           v == <<d, other, next>>
<1>1. w \in Watcher /\ v \in Watcher
  BY DEF Watcher
<1> PICK g : g = watchers'
  OBVIOUS
<1> PICK f : f = Ended(w)
  OBVIOUS
<1>2. Changed(watchers, f, w, -1)
  BY <1>1, EndedChanged
<1>3. f \in [Watcher -> Int] /\ g = [f EXCEPT ![v] = @ + 1]
  BY <1>2 DEF Changed
<1>4. Changed(f, g, v, 1)
  <2> HIDE DEF v, w
  <2> QED BY <1>1, <1>3, StartedChanged
<1>5. ASSUME NEW e \in Delegations PROVE Total(g, e) = Total(watchers, e)
  <2>1. Total(f, e) = IF e = d THEN Total(watchers, e) + (-1)
                      ELSE Total(watchers, e)
    BY <1>2, TotalChanged
  <2>2. Total(g, e) = IF e = d THEN Total(f, e) + 1 ELSE Total(f, e)
    BY <1>4, TotalChanged, SMTT(30)
  <2>3. Total(watchers, e) \in Int
    BY <1>2, AllWatchers DEF Total, Changed
  <2> QED BY <2>1, <2>2, <2>3
<1> QED BY <1>5

LEMMA TotalEnded ==
    ASSUME TypeOK, NEW d \in Delegations, NEW output \in Output,
           NEW stage \in Stage, watchers[<<d, output, stage>>] > 0
    PROVE  /\ Total(watchers, d) > 0
           /\ \A e \in Delegations :
                 Total(Ended(<<d, output, stage>>), e) =
                     IF e = d THEN Total(watchers, e) + (-1)
                     ELSE Total(watchers, e)
<1>1. <<d, output, stage>> \in Watcher
  BY DEF Watcher
<1>2. Changed(watchers, Ended(<<d, output, stage>>), <<d, output, stage>>, -1)
  BY <1>1, EndedChanged
<1>3. \A e \in Delegations :
         Total(Ended(<<d, output, stage>>), e) =
             IF e = d THEN Total(watchers, e) + (-1) ELSE Total(watchers, e)
  BY <1>2, TotalChanged
<1>4. /\ watchers[<<d, "staking", "registering">>] \in Nat
      /\ watchers[<<d, "staking", "watching">>] \in Nat
      /\ watchers[<<d, "unbonding", "registering">>] \in Nat
      /\ watchers[<<d, "unbonding", "watching">>] \in Nat
  BY AllWatchers DEF TypeOK, WatcherTypeOK
<1>5. \/ watchers[<<d, "staking", "registering">>] > 0
      \/ watchers[<<d, "staking", "watching">>] > 0
      \/ watchers[<<d, "unbonding", "registering">>] > 0
      \/ watchers[<<d, "unbonding", "watching">>] > 0
  BY DEF Output, Stage
<1>6. Total(watchers, d) \in Int /\ Total(watchers, d) > 0
  BY <1>4, <1>5 DEF Total
<1> QED BY <1>3, <1>6

LEMMA WatcherStep ==
    ASSUME TypeOK, WatchersTracked, UNCHANGED trackedSubs,
           \/ \E d \in Delegations : WatcherProgress(d)
           \/ \E d \in Delegations, output \in Output : WatcherFault(d, output)
    PROVE  WatchersTracked'
<1>1. ASSUME \A e \in Delegations : Total(watchers', e) = Total(watchers, e)
      PROVE  WatchersTracked'
  BY <1>1 DEF WatchersTracked
<1>2. ASSUME NEW d \in Delegations, NEW output \in Output, NEW stage \in Stage,
             watchers[<<d, output, stage>>] > 0,
             watchers' = Ended(<<d, output, stage>>)
      PROVE  WatchersTracked'
  <2>1. /\ Total(watchers, d) > 0
        /\ \A e \in Delegations :
              Total(watchers', e) = IF e = d THEN Total(watchers, e) + (-1)
                                    ELSE Total(watchers, e)
    BY <1>2, TotalEnded
  <2>2. ASSUME NEW e \in Delegations
        PROVE  \/ Total(watchers', e) = 0
               \/ Total(watchers', e) = 1 /\ e \in trackedSubs
    BY <2>1 DEF WatchersTracked
  <2> QED BY <2>2 DEF WatchersTracked
<1>3. ASSUME NEW d \in Delegations, StakingSpentByUnbonding(d)
      PROVE  WatchersTracked'
  <2>1. watchers' = [Ended(<<d, "staking", "watching">>) EXCEPT
                         ![<<d, "unbonding", "registering">>] = @ + 1]
    BY <1>3 DEF StakingSpentByUnbonding, Started
  <2>2. \A e \in Delegations : Total(watchers', e) = Total(watchers, e)
    BY <2>1, Kinds, TotalMoved
  <2> QED BY <1>1, <2>2
<1>4. ASSUME NEW d \in Delegations, NEW output \in Output,
             RegisterSpendNtfn(d, output)
      PROVE  WatchersTracked'
  <2>1. watchers' = [Ended(<<d, output, "registering">>) EXCEPT
                         ![<<d, output, "watching">>] = @ + 1]
    BY <1>4 DEF RegisterSpendNtfn
  <2>2. \A e \in Delegations : Total(watchers', e) = Total(watchers, e)
    BY <2>1, Kinds, TotalMoved
  <2> QED BY <1>1, <2>2
<1>5. ASSUME NEW d \in Delegations, NEW output \in Output,
             \/ SpentByTimelock(d, output)
             \/ SpentOtherwise(d, output)
             \/ WatcherFault(d, output)
      PROVE  WatchersTracked'
  BY <1>2, <1>5
     DEF SpentByTimelock, SpentOtherwise, WatcherFault, Notified, Stage
<1> QED BY <1>3, <1>4, <1>5 DEF WatcherProgress

LEMMA SubscriptionStep ==
    ASSUME TypeOK, WatchersTracked, SubscriberProgress \/ SubscriberFault
    PROVE  WatchersTracked'
<1>1. ASSUME NEW doc \in page, NEW output \in Output,
             doc.hash \notin trackedSubs,
             watchers' = Started(watchers, doc.hash, output), Track(doc.hash)
      PROVE  WatchersTracked'
  <2>1. doc.hash \in Delegations
    BY DEF TypeOK, SubscriberTypeOK, PageDocument
  <2>2. Total(watchers, doc.hash) = 0
    BY <1>1, <2>1 DEF WatchersTracked
  <2> PICK g : g = watchers'
    OBVIOUS
  <2>3. Changed(watchers, g, <<doc.hash, output, "registering">>, 1)
    <3>1. watchers \in [Watcher -> Int]
      BY DEF TypeOK, WatcherTypeOK
    <3>2. <<doc.hash, output, "registering">> \in Watcher
      BY <2>1 DEF Watcher, Stage
    <3> QED BY <1>1, <3>1, <3>2, StartedChanged DEF Started
  <2>4. \A e \in Delegations :
           Total(g, e) = IF e = doc.hash THEN Total(watchers, e) + 1
                         ELSE Total(watchers, e)
    BY <2>1, <2>3, Kinds, TotalChanged
  <2> QED BY <1>1, <2>1, <2>2, <2>4 DEF WatchersTracked, Track
<1>2. CASE UNCHANGED <<watchers, trackedSubs>>
  BY <1>2 DEF WatchersTracked
<1> QED
  BY <1>1, <1>2
     DEF SubscriberProgress, SubscriberFault, FetchPage, SkipTracked,
         ReportSpentOutput, WatchUnbondingOutput, WatchStakingOutput,
         watcherVars, Output

LEMMA WatchersTrackedStep ==
    TypeOK /\ WatchersTracked /\ [Next]_vars => WatchersTracked'
<1> SUFFICES ASSUME TypeOK, WatchersTracked, [Next]_vars
             PROVE  WatchersTracked'
  OBVIOUS
<1>1. CASE UNCHANGED <<watchers, trackedSubs>>
  BY <1>1 DEF WatchersTracked
<1>2. CASE Subscriber \/ SubscriberFails
  BY <1>2, SubscriptionStep DEF Subscriber, SubscriberFails
<1>3. CASE (\E d \in Delegations : Watch(d)) \/ WatcherFails
  BY <1>3, WatcherStep DEF Watch, WatcherFails, subscriberVars
<1>4. CASE UnbondingHandler \/ WithdrawnHandler \/ HandlerFails
  <2>1. UNCHANGED watchers
    BY <1>4
       DEF UnbondingHandler, WithdrawnHandler, HandlerFails,
           UnbondingProgress, UnbondingFault, WithdrawnProgress,
           WithdrawnFault, AcceptUnbonding, DropUnbonding,
           SaveUnbondingExpiry, StartUnbonding, AcceptWithdrawn,
           DropWithdrawn, Withdraw, watcherVars
  <2> QED
    BY <1>1, <1>4, <2>1
       DEF UnbondingHandler, WithdrawnHandler, HandlerFails, subscriberVars
<1>5. CASE Restart
  <2>1. watchers' = [w \in Watcher |-> 0]
    BY <1>5 DEF Restart, MemoryLost
  <2>2. ASSUME NEW d \in Delegations PROVE Total(watchers', d) = 0
    BY <2>1, TotalOfNone
  <2> QED BY <2>2 DEF WatchersTracked
<1> QED
  BY <1>1, <1>2, <1>3, <1>4, <1>5
     DEF Next, Chain, Api, Expiry, ExpiryFails, vars, memoryVars,
         watcherVars, subscriberVars

LEMMA TrackedOnce == TypeOK /\ WatchersTracked => OneWatcherPerOutput
<1> SUFFICES ASSUME TypeOK, WatchersTracked, NEW d \in Delegations,
                    NEW output \in Output
             PROVE  watchers[<<d, output, "registering">>]
                       + watchers[<<d, output, "watching">>] <= 1
  BY DEF OneWatcherPerOutput
<1>1. /\ watchers[<<d, "staking", "registering">>] \in Nat
      /\ watchers[<<d, "staking", "watching">>] \in Nat
      /\ watchers[<<d, "unbonding", "registering">>] \in Nat
      /\ watchers[<<d, "unbonding", "watching">>] \in Nat
  BY AllWatchers DEF TypeOK, WatcherTypeOK
<1>2. watchers[<<d, "staking", "registering">>]
        + watchers[<<d, "staking", "watching">>]
        + watchers[<<d, "unbonding", "registering">>]
        + watchers[<<d, "unbonding", "watching">>] <= 1
  BY DEF WatchersTracked, Total
<1>3. /\ watchers[<<d, "staking", "registering">>]
            + watchers[<<d, "staking", "watching">>] <= 1
      /\ watchers[<<d, "unbonding", "registering">>]
            + watchers[<<d, "unbonding", "watching">>] <= 1
  BY <1>1, <1>2
<1> QED BY <1>3 DEF Output

(* The tracked subscriptions keep the subscriber poller and the watchers   *)
(* from ever watching an output twice, with any failures and restarts.     *)
THEOREM SingleWatcher == Spec => []OneWatcherPerOutput
<1>1. Init => WatchersTracked
  BY TotalOfNone DEF Init, MemoryInit, WatcherInit, WatchersTracked
<1> QED
  BY <1>1, TypeCorrect, TrackedOnce, WatchersTrackedStep, PTL DEF Spec

=============================================================================
