------------------------ MODULE SubscriberScanProofs ------------------------
(***************************************************************************)
(* What the polls of the subscriber poller cover, for any database and any *)
(* page limit, while its delegations change state under the pages.         *)
(***************************************************************************)
EXTENDS SubscriberScan, FiniteSetTheorems, SequenceTheorems, TLAPS

USE DEF Active, UnbondingRequested, Unbonding, Unbonded, Withdrawn,
        Transitioned, ActiveTxType, UnbondingTxType, SubscriberPc

ScanTypeOK ==
    /\ delegations \in [Delegations -> DelegationDocument]
    /\ WatcherTypeOK
    /\ SubscriberTypeOK
    /\ waiting \subseteq Delegations

(* Between polls nothing is left of the one before, and a next page is     *)
(* asked for when this one is done.                                        *)
PageAndToken ==
    /\ subscriberPc = "idle" => page = {} /\ pageToken = 0
    /\ subscriberPc = "fetch" => page = {}

(* The poll under way will still come to d: on its page, or on a later one. *)
OnPage(d) == \E doc \in page : doc.hash = d

OnLaterPage(d) ==
    /\ pageToken # 0
    /\ d > pageToken
    /\ d \in ToWatch

(* The inductive invariant: a delegation that waited when the poll began   *)
(* is dealt with or still to come.  It leaves the states that are scanned  *)
(* only by the event of a withdrawal that was reported.                    *)
ScanInv ==
    /\ ScanTypeOK
    /\ PageAndToken
    /\ \A i \in 1 .. Len(withdrawnChan) : withdrawnChan[i] \in reported
    /\ \A d \in waiting :
          d \in trackedSubs \cup reported \/ OnPage(d) \/ OnLaterPage(d)

LEMMA ScanConstants ==
    /\ \A d \in Delegations : d \in Nat /\ d # 0
    /\ MaxPaginationLimit # 0
    /\ ChanCap \in Nat \ {0}
  BY StoreAssumption, ChannelAssumption

LEMMA ScanInit == Init => ScanInv
<1> SUFFICES ASSUME Init PROVE ScanInv
  OBVIOUS
<1>1. delegations \in [Delegations -> DelegationDocument]
  <2>1. \A d \in Delegations : TxAtStart(d) \in TimelockTransaction
    BY ChainAssumption DEF TxAtStart, TimelockTransaction
  <2>2. NotUnbonding \subseteq DelegationDocument
    BY DEF NotUnbonding, DelegationDocument, DelegationState, NoUnbondingTx,
           TimelockTransaction
  <2>3. \A d \in Delegations :
           [state |-> Unbonded, unbondingTx |-> TxAtStart(d)] \in DelegationDocument
    BY <2>1 DEF DelegationDocument, DelegationState
  <2>4. PICK unbonded \in SUBSET Delegations :
           \E others \in [Delegations \ unbonded -> NotUnbonding] :
              delegations = [d \in Delegations |->
                   IF d \in unbonded
                   THEN [state |-> Unbonded, unbondingTx |-> TxAtStart(d)]
                   ELSE others[d]]
    BY DEF Init
  <2> QED BY <2>2, <2>3, <2>4
<1>2. WatcherTypeOK /\ Len(withdrawnChan) = 0
  BY ScanConstants, EmptySeq DEF Init, WatcherInit, WatcherTypeOK
<1>3. SubscriberTypeOK /\ PageAndToken /\ trackedSubs = {} /\ waiting = {}
  BY DEF Init, SubscriberInit, SubscriberTypeOK, PageAndToken
<1>4. ScanInv
  BY <1>1, <1>2, <1>3 DEF ScanInv, ScanTypeOK
<1> QED BY <1>4

-----------------------------------------------------------------------------
(* The pages                                                               *)

(* What is left when a page is fetched is on it, or after its token.       *)
LEMMA PageSplits ==
    ASSUME NEW S \in SUBSET Delegations, NEW next \in Delegations \cup {0},
           NEW token \in Delegations \cup {0},
           IsPage(S, StatesToWatch, token),
           IsNextToken(next, S, StatesToWatch, token)
    PROVE  /\ \A d \in Remaining(StatesToWatch, token) :
                d \in S \/ (next # 0 /\ d > next)
           /\ S = {} => next = 0
<1>1. CASE S = Remaining(StatesToWatch, token)
  BY <1>1 DEF IsNextToken
<1>2. CASE S # Remaining(StatesToWatch, token)
  <2>1. next \in S
    BY <1>2 DEF IsNextToken
  <2>2. \A d \in Remaining(StatesToWatch, token) \ S : next < d
    BY <2>1 DEF IsPage
  <2>3. next # 0 /\ next \in Nat
    BY <2>1, ScanConstants
  <2>4. \A d \in Remaining(StatesToWatch, token) : d \in Nat
    BY ScanConstants DEF Remaining
  <2> QED BY <2>1, <2>2, <2>3, <2>4
<1> QED BY <1>1, <1>2

LEMMA FetchStep ==
    ASSUME ScanInv, StartOrContinueScan
    PROVE  ScanInv'
<1>1. PICK S \in SUBSET Delegations, next \in Delegations \cup {0} :
         /\ IsPage(S, StatesToWatch, pageToken)
         /\ IsNextToken(next, S, StatesToWatch, pageToken)
         /\ page' = {[hash |-> d, state |-> delegations[d].state,
                      unbondingTx |-> delegations[d].unbondingTx] : d \in S}
         /\ pageToken' = next
         /\ subscriberPc' = IF S = {} THEN "idle" ELSE "process"
  BY DEF StartOrContinueScan, FetchPage
<1>2. UNCHANGED <<delegations, trackedSubs, reported, watchers,
                  unbondingChan, withdrawnChan>>
  BY DEF StartOrContinueScan, FetchPage, watcherVars, storeVars
<1>3. ToWatch \subseteq Delegations
  BY DEF ToWatch
<1>4. ScanTypeOK'
  <2>1. page' \subseteq PageDocument
    BY <1>1 DEF PageDocument, DelegationDocument, ScanInv, ScanTypeOK
  <2>2. SubscriberTypeOK'
    BY <1>1, <1>2, <2>1 DEF SubscriberTypeOK, ScanInv, ScanTypeOK
  <2>3. waiting' \subseteq Delegations
    BY <1>3 DEF StartOrContinueScan, ScanInv, ScanTypeOK
  <2> QED BY <1>2, <2>2, <2>3 DEF ScanInv, ScanTypeOK, WatcherTypeOK
<1>5. pageToken \in Delegations \cup {0}
  BY DEF ScanInv, ScanTypeOK, SubscriberTypeOK
<1>6. /\ \A d \in Remaining(StatesToWatch, pageToken) :
            d \in S \/ (next # 0 /\ d > next)
      /\ S = {} => next = 0
  BY <1>1, <1>5, PageSplits
<1>7. PageAndToken'
  BY <1>1, <1>6 DEF PageAndToken
<1>8. ASSUME NEW d \in waiting'
      PROVE  d \in trackedSubs \cup reported \/ OnPage(d)' \/ OnLaterPage(d)'
  <2>1. \/ d \in trackedSubs \cup reported
        \/ d \in Remaining(StatesToWatch, pageToken)
    <3>1. CASE subscriberPc = "idle"
      <4>1. d \in ToWatch /\ pageToken = 0
        BY <1>8, <3>1 DEF StartOrContinueScan, ScanInv, PageAndToken
      <4> QED BY <4>1, ScanConstants DEF ToWatch, Remaining
    <3>2. CASE subscriberPc = "fetch"
      <4>1. d \in waiting /\ page = {}
        BY <1>8, <3>2 DEF StartOrContinueScan, ScanInv, PageAndToken
      <4>2. d \in trackedSubs \cup reported \/ OnLaterPage(d)
        BY <4>1 DEF ScanInv, OnPage
      <4> QED BY <4>2 DEF OnLaterPage, ToWatch, Remaining
    <3> QED BY <3>1, <3>2 DEF StartOrContinueScan, FetchPage
  <2>2. CASE d \in Remaining(StatesToWatch, pageToken)
    <3>1. d \in ToWatch'
      BY <1>2, <2>2 DEF ToWatch, Remaining
    <3>2. CASE d \in S
      <4> DEFINE doc == [hash |-> d, state |-> delegations[d].state,
                         unbondingTx |-> delegations[d].unbondingTx]
      <4>1. doc \in page' /\ doc.hash = d
        BY <1>1, <3>2
      <4> HIDE DEF doc
      <4> QED BY <4>1 DEF OnPage
    <3>3. CASE next # 0 /\ d > next
      BY <1>1, <3>1, <3>3 DEF OnLaterPage
    <3> QED BY <1>6, <2>2, <3>2, <3>3
  <2> QED BY <2>1, <2>2
<1> QED BY <1>2, <1>4, <1>7, <1>8 DEF ScanInv

-----------------------------------------------------------------------------
(* The documents                                                           *)

(* What the steps of ProcessDocument have in common. *)
LEMMA DocumentEffect ==
    ASSUME NEW doc \in page,
           \/ SkipTracked(doc) /\ UNCHANGED reported
           \/ ReportSpentOutput(doc) /\ reported' = reported \cup {doc.hash}
           \/ WatchUnbondingOutput(doc) /\ UNCHANGED reported
           \/ WatchStakingOutput(doc) /\ UNCHANGED reported
    PROVE  /\ DocumentDone(doc)
           /\ trackedSubs \subseteq trackedSubs'
           /\ trackedSubs' \subseteq trackedSubs \cup {doc.hash}
           /\ reported \subseteq reported'
           /\ doc.hash \in trackedSubs' \cup reported'
  BY DEF SkipTracked, ReportSpentOutput, WatchUnbondingOutput,
         WatchStakingOutput, Track

(* Either kind of watcher: what it needs and what it does. *)
LEMMA WatchEffect ==
    ASSUME ScanTypeOK, NEW doc \in page,
           WatchUnbondingOutput(doc) \/ WatchStakingOutput(doc)
    PROVE  \E w \in Watcher :
              /\ watchers' = [watchers EXCEPT ![w] = @ + 1]
              /\ UNCHANGED <<unbondingChan, withdrawnChan>>
<1>1. \A output \in Output : <<doc.hash, output, "registering">> \in Watcher
  BY DEF ScanTypeOK, SubscriberTypeOK, PageDocument, Watcher, Stage
<1>2. CASE WatchUnbondingOutput(doc)
  <2>1. "unbonding" \in Output
    BY DEF Output
  <2> QED BY <1>1, <1>2, <2>1 DEF WatchUnbondingOutput, Started
<1>3. CASE WatchStakingOutput(doc)
  <2>1. "staking" \in Output
    BY DEF Output
  <2> QED BY <1>1, <1>3, <2>1 DEF WatchStakingOutput, Started
<1> QED BY <1>2, <1>3

LEMMA WatcherTypesKept ==
    ASSUME ScanTypeOK, ProcessDocument
    PROVE  WatcherTypeOK'
<1>1. PICK doc \in page :
         \/ SkipTracked(doc) \/ ReportSpentOutput(doc)
         \/ WatchUnbondingOutput(doc) \/ WatchStakingOutput(doc)
  BY DEF ProcessDocument
<1>2. doc.hash \in Delegations
  BY DEF ScanTypeOK, SubscriberTypeOK, PageDocument
<1>3. CASE SkipTracked(doc)
  BY <1>3 DEF SkipTracked, watcherVars, ScanTypeOK, WatcherTypeOK
<1>4. CASE ReportSpentOutput(doc)
  <2>1. /\ withdrawnChan' \in Seq(Delegations)
        /\ Len(withdrawnChan') <= ChanCap
    BY <1>2, <1>4, ScanConstants, AppendProperties
       DEF ReportSpentOutput, PushWithdrawn, ScanTypeOK, WatcherTypeOK
  <2> QED BY <1>4, <2>1 DEF ReportSpentOutput, ScanTypeOK, WatcherTypeOK
<1>5. CASE WatchUnbondingOutput(doc) \/ WatchStakingOutput(doc)
  <2>1. PICK w \in Watcher :
           /\ watchers' = [watchers EXCEPT ![w] = @ + 1]
           /\ UNCHANGED <<unbondingChan, withdrawnChan>>
    BY <1>5, WatchEffect
  <2> QED BY <2>1 DEF ScanTypeOK, WatcherTypeOK
<1> QED BY <1>1, <1>3, <1>4, <1>5

LEMMA DocumentStep ==
    ASSUME ScanInv, ProcessDocument
    PROVE  ScanInv'
<1>1. PICK doc \in page :
         \/ SkipTracked(doc) /\ UNCHANGED reported
         \/ ReportSpentOutput(doc) /\ reported' = reported \cup {doc.hash}
         \/ WatchUnbondingOutput(doc) /\ UNCHANGED reported
         \/ WatchStakingOutput(doc) /\ UNCHANGED reported
  BY DEF ProcessDocument
<1>2. /\ DocumentDone(doc)
      /\ trackedSubs \subseteq trackedSubs'
      /\ trackedSubs' \subseteq trackedSubs \cup {doc.hash}
      /\ reported \subseteq reported'
      /\ doc.hash \in trackedSubs' \cup reported'
  BY <1>1, DocumentEffect
<1>3. UNCHANGED <<delegations, waiting>>
  BY DEF ProcessDocument, storeVars
<1>4. ScanTypeOK'
  <2>1. doc.hash \in Delegations
    BY DEF ScanInv, ScanTypeOK, SubscriberTypeOK, PageDocument
  <2>2. SubscriberTypeOK'
    BY <1>2, <2>1 DEF DocumentDone, ScanInv, ScanTypeOK, SubscriberTypeOK
  <2> QED BY <1>3, <2>2, WatcherTypesKept DEF ScanInv, ScanTypeOK
<1>5. PageAndToken'
  BY <1>2 DEF DocumentDone, PageAndToken
<1>6. \A i \in 1 .. Len(withdrawnChan') : withdrawnChan'[i] \in reported'
  <2>1. CASE UNCHANGED withdrawnChan
    BY <1>2, <2>1 DEF ScanInv
  <2>2. CASE /\ withdrawnChan' = Append(withdrawnChan, doc.hash)
             /\ doc.hash \in reported'
    <3>1. withdrawnChan \in Seq(Delegations) /\ doc.hash \in Delegations
      BY DEF ScanInv, ScanTypeOK, WatcherTypeOK, SubscriberTypeOK, PageDocument
    <3> QED BY <1>2, <2>2, <3>1, AppendProperties DEF ScanInv
  <2> QED
    BY <1>1, <2>1, <2>2
       DEF SkipTracked, ReportSpentOutput, WatchUnbondingOutput,
           WatchStakingOutput, PushWithdrawn, watcherVars
<1>7. ASSUME NEW d \in waiting'
      PROVE  d \in trackedSubs' \cup reported' \/ OnPage(d)' \/ OnLaterPage(d)'
  <2>1. CASE d \in trackedSubs \cup reported \/ d = doc.hash
    BY <1>2, <2>1
  <2>2. CASE OnPage(d) /\ d # doc.hash
    BY <1>2, <2>2 DEF OnPage, DocumentDone
  <2>3. CASE OnLaterPage(d)
    BY <1>2, <1>3, <2>3 DEF OnLaterPage, DocumentDone, ToWatch
  <2> QED BY <1>3, <1>7, <2>1, <2>2, <2>3 DEF ScanInv
<1> QED BY <1>4, <1>5, <1>6, <1>7 DEF ScanInv

-----------------------------------------------------------------------------
(* The others                                                              *)

LEMMA FailStep ==
    ASSUME ScanInv, FailScan
    PROVE  ScanInv'
<1>1. /\ subscriberPc' = "idle" /\ page' = {} /\ pageToken' = 0
      /\ waiting' = {}
      /\ UNCHANGED <<delegations, trackedSubs, reported, watchers,
                     unbondingChan, withdrawnChan>>
  BY DEF FailScan, SubscriberFault, EndSubscriberPoll, watcherVars, storeVars
<1>2. ScanTypeOK' /\ PageAndToken'
  BY <1>1
     DEF ScanInv, ScanTypeOK, WatcherTypeOK, SubscriberTypeOK, PageAndToken
<1> QED BY <1>1, <1>2 DEF ScanInv

(* A document that joins the scanned states: none leaves them. *)
LEMMA JoinStep ==
    ASSUME ScanInv, JoinsMeanwhile
    PROVE  ScanInv'
<1>1. UNCHANGED <<watchers, unbondingChan, withdrawnChan, subscriberPc, page,
                  pageToken, trackedSubs, waiting, reported>>
  BY DEF JoinsMeanwhile, watcherVars, subscriberVars, scanVars
<1>2. delegations \in [Delegations -> DelegationDocument]
  BY DEF ScanInv, ScanTypeOK
<1>3. PICK d \in Delegations, doc \in DelegationDocument :
         /\ delegations' \in {delegations, [delegations EXCEPT ![d] = doc]}
         /\ doc.state \in StatesToWatch
  <2>1. PICK d \in Delegations :
           \/ ApiTransition(d, UnbondingRequested)
           \/ delegations' = TransitionToUnbondedState(
                                 d, QualifiedStatesToUnbonded(ActiveTxType))
    BY DEF JoinsMeanwhile
  <2>2. delegations[d].unbondingTx \in TimelockTransaction
    BY <1>2 DEF DelegationDocument
  <2>3. CASE ApiTransition(d, UnbondingRequested)
    <3> DEFINE doc == [delegations[d] EXCEPT !.state = UnbondingRequested]
    <3>1. doc \in DelegationDocument /\ doc.state \in StatesToWatch
      BY <1>2 DEF DelegationDocument, DelegationState, StatesToWatch
    <3>2. delegations' = [delegations EXCEPT ![d] = doc]
      BY <1>2, <2>3 DEF ApiTransition
    <3> HIDE DEF doc
    <3> QED BY <3>1, <3>2
  <2>4. CASE delegations' = TransitionToUnbondedState(
                                d, QualifiedStatesToUnbonded(ActiveTxType))
    <3> DEFINE doc == [state |-> Unbonded,
                       unbondingTx |-> delegations[d].unbondingTx]
    <3>1. doc \in DelegationDocument /\ doc.state \in StatesToWatch
      BY <2>2 DEF DelegationDocument, DelegationState, StatesToWatch
    <3>2. delegations' \in {delegations, [delegations EXCEPT ![d] = doc]}
      BY <2>4 DEF TransitionToUnbondedState, TransitionState
    <3> HIDE DEF doc
    <3> QED BY <3>1, <3>2
  <2> QED BY <2>1, <2>3, <2>4
<1>4. delegations' \in [Delegations -> DelegationDocument]
  BY <1>2, <1>3
<1>5. ToWatch \subseteq ToWatch'
  BY <1>2, <1>3 DEF ToWatch
<1>6. ScanTypeOK' /\ PageAndToken'
  BY <1>1, <1>4
     DEF ScanInv, ScanTypeOK, WatcherTypeOK, SubscriberTypeOK, PageAndToken
<1>7. \A e \in waiting : /\ OnPage(e) => OnPage(e)'
                         /\ OnLaterPage(e) => OnLaterPage(e)'
  BY <1>1, <1>5 DEF OnPage, OnLaterPage
<1> QED BY <1>1, <1>6, <1>7 DEF ScanInv

(* A document that leaves them: its withdrawal has been reported. *)
LEMMA LeaveStep ==
    ASSUME ScanInv, LeavesMeanwhile
    PROVE  ScanInv'
<1>1. UNCHANGED <<watchers, unbondingChan, subscriberPc, page, pageToken,
                  trackedSubs, waiting, reported>>
  BY DEF LeavesMeanwhile, subscriberVars, scanVars
<1>2. delegations \in [Delegations -> DelegationDocument]
  BY DEF ScanInv, ScanTypeOK
<1>3. /\ withdrawnChan \in Seq(Delegations)
      /\ withdrawnChan # <<>>
      /\ withdrawnChan' = Tail(withdrawnChan)
      /\ Len(withdrawnChan) <= ChanCap
  BY DEF LeavesMeanwhile, ScanInv, ScanTypeOK, WatcherTypeOK
<1>4. /\ withdrawnChan' \in Seq(Delegations)
      /\ Len(withdrawnChan') = Len(withdrawnChan) - 1
      /\ Head(withdrawnChan) = withdrawnChan[1]
      /\ Len(withdrawnChan) \in Nat \ {0}
      /\ \A i \in 1 .. Len(withdrawnChan') :
            withdrawnChan'[i] = withdrawnChan[i + 1]
  BY <1>3, HeadTailProperties, LenProperties, EmptySeq
<1>5. \A i \in 1 .. Len(withdrawnChan') : withdrawnChan'[i] \in reported
  <2>1. ASSUME NEW i \in 1 .. Len(withdrawnChan')
        PROVE  i + 1 \in 1 .. Len(withdrawnChan)
    BY <1>4
  <2> QED BY <1>4, <2>1 DEF ScanInv
<1> DEFINE head == Head(withdrawnChan)
<1>6. head \in Delegations /\ head \in reported
  BY <1>3, <1>4, ElementOfSeq DEF ScanInv
<1>7. PICK doc \in DelegationDocument :
         delegations' \in {delegations, [delegations EXCEPT ![head] = doc]}
  <2> DEFINE new == [state |-> Withdrawn,
                     unbondingTx |-> delegations[head].unbondingTx]
  <2>1. new \in DelegationDocument
    BY <1>2, <1>6 DEF DelegationDocument, DelegationState
  <2>2. delegations' \in {delegations, [delegations EXCEPT ![head] = new]}
    BY DEF LeavesMeanwhile, TransitionToWithdrawnState, TransitionState
  <2> QED BY <2>1, <2>2
<1> HIDE DEF head
<1>8. delegations' \in [Delegations -> DelegationDocument]
  BY <1>2, <1>6, <1>7
<1>9. ToWatch \subseteq ToWatch' \cup {head}
  BY <1>2, <1>6, <1>7 DEF ToWatch
<1>10. ScanTypeOK' /\ PageAndToken'
  <2>1. Len(withdrawnChan') <= ChanCap
    BY <1>3, <1>4, ScanConstants
  <2> QED
    BY <1>1, <1>4, <1>8, <2>1
       DEF ScanInv, ScanTypeOK, WatcherTypeOK, SubscriberTypeOK, PageAndToken
<1>11. \A d \in waiting : /\ OnPage(d) => OnPage(d)'
                          /\ OnLaterPage(d) => d \in reported \/ OnLaterPage(d)'
  BY <1>1, <1>6, <1>9 DEF OnPage, OnLaterPage
<1> QED BY <1>1, <1>5, <1>10, <1>11 DEF ScanInv

-----------------------------------------------------------------------------
(* The results                                                             *)

LEMMA ScanStep == ScanInv /\ [Next]_vars => ScanInv'
<1> SUFFICES ASSUME ScanInv, [Next]_vars PROVE ScanInv'
  OBVIOUS
<1>1. CASE UNCHANGED vars
  <2>1. UNCHANGED <<delegations, watchers, unbondingChan, withdrawnChan,
                    subscriberPc, page, pageToken, trackedSubs, waiting,
                    reported>>
    BY <1>1 DEF vars, storeVars, watcherVars, subscriberVars, scanVars
  <2> QED
    BY <2>1
       DEF ScanInv, ScanTypeOK, WatcherTypeOK, SubscriberTypeOK, PageAndToken,
           OnPage, OnLaterPage, ToWatch
<1> QED
  BY <1>1, FetchStep, DocumentStep, FailStep, JoinStep, LeaveStep DEF Next

(* A poll that ends without an error has covered every delegation that     *)
(* waited when it began, whatever moved between its pages.                 *)
THEOREM PollCoversWaiting == Spec => []ScanCoversWaiting
<1>1. ScanInv => ScanCoversWaiting
  BY DEF ScanInv, PageAndToken, ScanCoversWaiting, OnPage, OnLaterPage
<1> QED BY <1>1, ScanInit, ScanStep, PTL DEF Spec

=============================================================================
