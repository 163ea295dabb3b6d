-------------------------- MODULE DelegationStore ---------------------------
(***************************************************************************)
(* The shared MongoDB database as the service uses it (internal/db): the   *)
(* delegations collection and the timelock_queue collection, with one      *)
(* operator per query.  An operator for a write returns the new contents   *)
(* of its collection; every single-document write is atomic.  The other    *)
(* users of the database (the Phase 1 API) are external.                   *)
(***************************************************************************)
EXTENDS BitcoinChain, FiniteSets

CONSTANTS
    TimelockIds,         \* ids of timelock documents; bound on the queue
    MaxFindLimit,        \* most timelock documents one Find returns
    MaxPaginationLimit,  \* most delegations one page holds
    FaultsAllowed        \* whether a database or RPC call may fail

(* The _id order of the delegations is the order of the naturals that      *)
(* stand for them, and 0 stands for the empty pagination token.            *)
ASSUME StoreAssumption ==
    /\ Delegations \subseteq Nat \ {0}
    /\ Delegations \subseteq TimelockIds
    /\ MaxFindLimit \in Nat \ {0}
    /\ MaxPaginationLimit \in Nat \ {0, 1}
    /\ FaultsAllowed \in BOOLEAN

VARIABLES
    delegations,     \* the delegations collection
    timelockQueue    \* the timelock_queue collection

storeVars == <<delegations, timelockQueue>>

(* unbonding_tx is absent until the unbonding transaction is recorded.  No *)
(* block at height 0 holds one, so height 0 stands for the absent field.   *)
TimelockTransaction == [startHeight : Nat, timelock : Nat]
NoUnbondingTx       == [startHeight |-> 0, timelock |-> 0]

DelegationDocument ==
    [state : DelegationState, unbondingTx : TimelockTransaction]

TimeLockDocument ==
    [id : TimelockIds, hash : Delegations, expireHeight : Nat,
     txType : StakingTxType]

StoreTypeOK ==
    /\ delegations \in [Delegations -> DelegationDocument]
    /\ timelockQueue \subseteq TimeLockDocument

-----------------------------------------------------------------------------
(* Queries on the delegations collection                                   *)

(* Faulty variant: the update filters on _id only. *)
TransitionState_NoFilter(d, newState, eligiblePreviousState, unbondingTx) ==
    [delegations EXCEPT ![d] = [state |-> newState, unbondingTx |-> unbondingTx]]

(* UpdateOne with the eligible states in its filter: a document in another *)
(* state does not match and stays as it is.                                *)
TransitionState(d, newState, eligiblePreviousState, unbondingTx) ==
    IF delegations[d].state \in eligiblePreviousState
    THEN [delegations EXCEPT
            ![d] = [state |-> newState, unbondingTx |-> unbondingTx]]
    ELSE delegations

TransitionToUnbondedState(d, eligiblePreviousStates) ==
    TransitionState(d, Unbonded, eligiblePreviousStates,
                    delegations[d].unbondingTx)

TransitionToUnbondingState(d, startHeight, timelock) ==
    TransitionState(d, Unbonding, QualifiedStatesToUnbonding,
                    [startHeight |-> startHeight, timelock |-> timelock])

TransitionToWithdrawnState(d, eligiblePreviousStates) ==
    TransitionState(d, Withdrawn, eligiblePreviousStates,
                    delegations[d].unbondingTx)

(* The delegations a scan for the given states still has to return, after  *)
(* the one its pagination token names.                                     *)
Remaining(states, token) ==
    {d \in Delegations : delegations[d].state \in states /\ d > token}

(* S is the page a scan returns: the first MaxPaginationLimit of them in   *)
(* _id order.                                                              *)
IsPage(S, states, token) ==
    LET rest == Remaining(states, token) IN
    /\ S \subseteq rest
    /\ \A d \in S, e \in rest \ S : d < e
    /\ \/ S = rest /\ Cardinality(S) <= MaxPaginationLimit
       \/ S # rest /\ Cardinality(S) = MaxPaginationLimit

(* Faulty variant: the scan stops after its first page. *)
IsNextToken_None(next, S, states, token) == next = 0

(* next is the token returned with page S: the last _id of the page when   *)
(* the limit cut it short, the empty token otherwise.                      *)
IsNextToken(next, S, states, token) ==
    IF S = Remaining(states, token)
    THEN next = 0
    ELSE next \in S /\ \A d \in S : d <= next

-----------------------------------------------------------------------------
(* Queries on the timelock_queue collection                                *)

(* Faulty variant: an entry expires one block late. *)
Expired_Strict(height) == {t \in timelockQueue : t.expireHeight < height}

Expired(height) == {t \in timelockQueue : t.expireHeight <= height}

(* Faulty variant: the height filter is off by one. *)
IsExpiredBatch_OneEarly(S, height) ==
    LET all == Expired(height + 1) IN
    /\ S \subseteq all
    /\ \/ S = all /\ Cardinality(all) <= MaxFindLimit
       \/ S # all /\ Cardinality(S) = MaxFindLimit

(* S is what FindExpiredDelegations may return: the query has no sort, so  *)
(* any MaxFindLimit of the expired documents when there are more.          *)
IsExpiredBatch(S, height) ==
    LET all == Expired(height) IN
    /\ S \subseteq all
    /\ \/ S = all /\ Cardinality(all) <= MaxFindLimit
       \/ S # all /\ Cardinality(S) = MaxFindLimit

FreeIds == TimelockIds \ {t.id : t \in timelockQueue}

(* InsertOne never replaces: the driver gives each document a fresh id. *)
SaveTimeLockExpireCheck(d, expireHeight, txType) ==
    timelockQueue \cup
        {[id |-> CHOOSE i \in FreeIds : TRUE, hash |-> d,
          expireHeight |-> expireHeight, txType |-> txType]}

(* Faulty variant: the entries of the delegation go, not the entry. *)
DeleteExpiredDelegation_AllOf(id) ==
    {t \in timelockQueue :
        \A u \in timelockQueue : u.id = id => u.hash # t.hash}

DeleteExpiredDelegation(id) == {t \in timelockQueue : t.id # id}

(* DeleteOne counts one document; otherwise the deletion is an error. *)
IsDeleted(id) == \E t \in timelockQueue : t.id = id

-----------------------------------------------------------------------------
(* The Phase 1 API, which shares the database                              *)

(* The database handed over by Phase 1: active delegations, each with the  *)
(* entry that ends its staking timelock (whose id is written d too).       *)
StoreInit ==
    /\ delegations = [d \in Delegations |->
                        [state |-> Active, unbondingTx |-> NoUnbondingTx]]
    /\ timelockQueue = {[id |-> d, hash |-> d,
                         expireHeight |-> StakingExpiry(d),
                         txType |-> ActiveTxType] : d \in Delegations}

ApiTransition(d, newState) ==
    /\ delegations[d].state = Active
    /\ delegations' = [delegations EXCEPT ![d].state = newState]
    /\ UNCHANGED timelockQueue

(* A staker asks for early unbonding, or moves the delegation to Phase 2. *)
ApiNext ==
    \E d \in Delegations :
        ApiTransition(d, UnbondingRequested) \/ ApiTransition(d, Transitioned)

=============================================================================
