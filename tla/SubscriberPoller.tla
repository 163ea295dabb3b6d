-------------------------- MODULE SubscriberPoller --------------------------
(***************************************************************************)
(* The BTC subscriber poller (processBTCSubscriber in                      *)
(* internal/services/pollers.go) and the set of tracked subscriptions.     *)
(* Each tick pages through the delegations that wait for a spend of theirs *)
(* and makes sure that one watcher looks out for it.  A page is a snapshot: *)
(* its delegations may change state before the poller gets to them.        *)
(***************************************************************************)
EXTENDS SpendWatchers

VARIABLES
    subscriberPc,   \* next call of the poller: see SubscriberPc
    page,           \* documents of the page still to be processed
    pageToken,      \* token of the page after this one, 0 when there is none
    trackedSubs     \* delegations subscribed to since the service started

subscriberVars == <<subscriberPc, page, pageToken, trackedSubs>>

SubscriberPc == {"idle", "fetch", "process"}

PageDocument ==
    [hash : Delegations, state : DelegationState,
     unbondingTx : TimelockTransaction]

SubscriberTypeOK ==
    /\ subscriberPc \in SubscriberPc
    /\ page \subseteq PageDocument
    /\ pageToken \in Delegations \cup {0}
    /\ trackedSubs \subseteq Delegations

SubscriberInit ==
    /\ subscriberPc = "idle"
    /\ page = {}
    /\ pageToken = 0
    /\ trackedSubs = {}

EndSubscriberPoll ==
    /\ subscriberPc' = "idle"
    /\ page' = {}
    /\ pageToken' = 0

(* Faulty variants: one of the two states is forgotten. *)
StatesToWatch_OnlyUnbonded  == {Unbonded}
StatesToWatch_OnlyRequested == {UnbondingRequested}

StatesToWatch == {Unbonded, UnbondingRequested}

-----------------------------------------------------------------------------

(* The ticker fires, or the page before this one had a token. *)
FetchPage ==
    /\ subscriberPc \in {"idle", "fetch"}
    /\ \E S \in SUBSET Delegations, next \in Delegations \cup {0} :
          /\ IsPage(S, StatesToWatch, pageToken)
          /\ IsNextToken(next, S, StatesToWatch, pageToken)
          /\ page' = {[hash |-> d, state |-> delegations[d].state,
                       unbondingTx |-> delegations[d].unbondingTx] : d \in S}
          /\ pageToken' = next
          /\ subscriberPc' = IF S = {} THEN "idle" ELSE "process"
    /\ UNCHANGED <<trackedSubs, watcherVars>>

(* doc is the next document of the page, which is sorted by _id. *)
NextInPage(doc) ==
    /\ subscriberPc = "process"
    /\ doc \in page
    /\ \A other \in page : doc.hash <= other.hash

(* On to the next document, or to the next page when there is one. *)
DocumentDone(doc) ==
    /\ page' = page \ {doc}
    /\ subscriberPc' = IF page # {doc} THEN "process"
                       ELSE IF pageToken = 0 THEN "idle" ELSE "fetch"
    /\ UNCHANGED pageToken

SkipTracked(doc) ==
    /\ NextInPage(doc)
    /\ doc.hash \in trackedSubs
    /\ DocumentDone(doc)
    /\ UNCHANGED <<trackedSubs, watcherVars>>

HasUnbondingOutput(doc) ==
    doc.state = Unbonded /\ doc.unbondingTx # NoUnbondingTx

(* GetTxOut of the unbonding transaction's output, mempool excluded: it    *)
(* returns nothing for an output that is spent, and for one that is not on *)
(* the chain.                                                              *)
IsUTXOSpent(d) ==
    stakingSpend[d].path # "unbonding" \/ unbondingSpend[d] # NoSpend

(* Faulty variant: the subscription is not recorded. *)
Track_Forgotten(d) == trackedSubs' = trackedSubs

(* AddSubscription; no subscription is ever removed. *)
Track(d) == trackedSubs' = trackedSubs \cup {d}

(* Faulty variant: a reported output counts as subscribed to, so that an   *)
(* event that is lost is not pushed again.                                 *)
ReportSpentOutput_Tracks(doc) ==
    /\ NextInPage(doc)
    /\ doc.hash \notin trackedSubs
    /\ HasUnbondingOutput(doc)
    /\ IsUTXOSpent(doc.hash)
    /\ PushWithdrawn(doc.hash)
    /\ Track(doc.hash)
    /\ DocumentDone(doc)
    /\ UNCHANGED <<watchers, unbondingChan>>

(* The output is spent already: report the withdrawal, whatever spent it,  *)
(* and subscribe to nothing.                                               *)
ReportSpentOutput(doc) ==
    /\ NextInPage(doc)
    /\ doc.hash \notin trackedSubs
    /\ HasUnbondingOutput(doc)
    /\ IsUTXOSpent(doc.hash)
    /\ PushWithdrawn(doc.hash)
    /\ DocumentDone(doc)
    /\ UNCHANGED <<trackedSubs, watchers, unbondingChan>>

WatchUnbondingOutput(doc) ==
    /\ NextInPage(doc)
    /\ doc.hash \notin trackedSubs
    /\ HasUnbondingOutput(doc)
    /\ ~ IsUTXOSpent(doc.hash)
    /\ watchers' = Started(watchers, doc.hash, "unbonding")
    /\ Track(doc.hash)
    /\ DocumentDone(doc)
    /\ UNCHANGED <<unbondingChan, withdrawnChan>>

WatchStakingOutput(doc) ==
    /\ NextInPage(doc)
    /\ doc.hash \notin trackedSubs
    /\ ~ HasUnbondingOutput(doc)
    /\ watchers' = Started(watchers, doc.hash, "staking")
    /\ Track(doc.hash)
    /\ DocumentDone(doc)
    /\ UNCHANGED <<unbondingChan, withdrawnChan>>

(* The query for a page, or the RPC call for an output, fails: the poll    *)
(* ends, and the rest of the delegations waits for the next tick.          *)
SubscriberFault ==
    /\ FaultsAllowed
    /\ \/ subscriberPc = "fetch"
       \/ \E doc \in page :
             /\ NextInPage(doc)
             /\ doc.hash \notin trackedSubs
             /\ HasUnbondingOutput(doc)
    /\ EndSubscriberPoll
    /\ UNCHANGED <<trackedSubs, watcherVars>>

SubscriberProgress ==
    \/ FetchPage
    \/ \E doc \in page :
          \/ SkipTracked(doc)
          \/ ReportSpentOutput(doc)
          \/ WatchUnbondingOutput(doc)
          \/ WatchStakingOutput(doc)

=============================================================================
