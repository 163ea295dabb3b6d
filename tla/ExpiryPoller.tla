---------------------------- MODULE ExpiryPoller ----------------------------
(***************************************************************************)
(* The expiry checker poller (startExpiryPoller, processExpiredDelegations *)
(* and TransitionToUnbondedState in internal/services).  Each tick reads   *)
(* the best height, finds one batch of expired timelock documents, and for *)
(* each of them updates the delegation and then deletes the document.      *)
(* Other goroutines run between any two of these calls.                    *)
(***************************************************************************)
EXTENDS DelegationStore

VARIABLES
    expiryPc,        \* next call of the poller: see ExpiryPc
    btcTip,          \* height returned by GetBlockCount
    expiredBatch,    \* documents of the batch still to be processed
    current          \* the document whose deletion is next, if any

expiryVars == <<expiryPc, btcTip, expiredBatch, current>>

ExpiryPc == {"idle", "find", "transition", "delete"}

ExpiryTypeOK ==
    /\ expiryPc \in ExpiryPc
    /\ btcTip \in Nat
    /\ expiredBatch \subseteq TimeLockDocument
    /\ current \subseteq TimeLockDocument

ExpiryInit ==
    /\ expiryPc = "idle"
    /\ btcTip = 0
    /\ expiredBatch = {}
    /\ current = {}

(* Back to waiting for the ticker; also what every early return does. *)
EndExpiryPoll ==
    /\ expiryPc' = "idle"
    /\ btcTip' = 0
    /\ expiredBatch' = {}
    /\ current' = {}

-----------------------------------------------------------------------------

(* The ticker fires and GetBlockCount answers; when it does not, the poll  *)
(* ends where it began.                                                    *)
ExpiryTick ==
    /\ expiryPc = "idle"
    /\ expiryPc' = "find"
    /\ btcTip' = tip
    /\ UNCHANGED <<expiredBatch, current, storeVars>>

FindExpiredDelegations ==
    /\ expiryPc = "find"
    /\ \E batch \in SUBSET timelockQueue :
          /\ IsExpiredBatch(batch, btcTip)
          /\ expiredBatch' = batch
          /\ expiryPc' = IF batch = {} THEN "idle" ELSE "transition"
          /\ btcTip' = IF batch = {} THEN 0 ELSE btcTip
    /\ UNCHANGED <<current, storeVars>>

(* Faulty variant: the document is deleted first. *)
TransitionExpired_DeleteFirst(doc) ==
    /\ expiryPc = "transition"
    /\ doc \in expiredBatch
    /\ timelockQueue' = DeleteExpiredDelegation(doc.id)
    /\ expiryPc' = "delete"
    /\ current' = {doc}
    /\ UNCHANGED <<btcTip, expiredBatch, delegations>>

(* Faulty variant: a delegation that does not qualify is an error. *)
TransitionExpired_MissIsError(doc) ==
    /\ expiryPc = "transition"
    /\ doc \in expiredBatch
    /\ IF delegations[doc.hash].state \in QualifiedStatesToUnbonded(doc.txType)
       THEN /\ delegations' = TransitionToUnbondedState(
                                 doc.hash, QualifiedStatesToUnbonded(doc.txType))
            /\ expiryPc' = "delete"
            /\ current' = {doc}
            /\ UNCHANGED <<btcTip, expiredBatch, timelockQueue>>
       ELSE EndExpiryPoll /\ UNCHANGED storeVars

(* The next document of the batch: its delegation becomes unbonded if its  *)
(* state qualifies, and stays as it is otherwise.  UpdateOne reports no    *)
(* error in either case.                                                   *)
TransitionExpired(doc) ==
    /\ expiryPc = "transition"
    /\ doc \in expiredBatch
    /\ delegations' = TransitionToUnbondedState(
                          doc.hash, QualifiedStatesToUnbonded(doc.txType))
    /\ expiryPc' = "delete"
    /\ current' = {doc}
    /\ UNCHANGED <<btcTip, expiredBatch, timelockQueue>>

(* The poll goes on with the next document of the batch, unless the one to *)
(* delete was gone already: that is an error, which ends it (BatchIsQueued *)
(* says that this does not happen).                                        *)
DeleteExpired ==
    \E doc \in current :
        /\ expiryPc = "delete"
        /\ timelockQueue' = DeleteExpiredDelegation(doc.id)
        /\ IF expiredBatch = {doc} \/ ~ IsDeleted(doc.id)
           THEN EndExpiryPoll
           ELSE /\ expiryPc' = "transition"
                /\ expiredBatch' = expiredBatch \ {doc}
                /\ current' = {}
                /\ UNCHANGED btcTip
        /\ UNCHANGED delegations

(* Any database call of the poll returns an error: the rest of the batch   *)
(* is left for a later tick.  A failed write may still have been applied.  *)
ExpiryFault ==
    /\ FaultsAllowed
    /\ \/ /\ expiryPc = "find"
          /\ UNCHANGED storeVars
       \/ /\ expiryPc = "transition"
          /\ \E doc \in expiredBatch :
                delegations' \in {delegations,
                    TransitionToUnbondedState(
                        doc.hash, QualifiedStatesToUnbonded(doc.txType))}
          /\ UNCHANGED timelockQueue
       \/ /\ expiryPc = "delete"
          /\ \E doc \in current :
                timelockQueue' \in {timelockQueue,
                                    DeleteExpiredDelegation(doc.id)}
          /\ UNCHANGED delegations
    /\ EndExpiryPoll

(* The poller's own steps; they leave the chain alone. *)
ExpiryProgress ==
    \/ ExpiryTick
    \/ FindExpiredDelegations
    \/ \E doc \in expiredBatch : TransitionExpired(doc)
    \/ DeleteExpired

ExpiryNext == ExpiryProgress \/ ExpiryFault

=============================================================================
