------------------------- MODULE DelegationHandlers -------------------------
(***************************************************************************)
(* The two goroutines that take events from the channels and update the    *)
(* database (internal/services/delegation_handlers.go).  The unbonding     *)
(* handler makes two writes: a timelock document, then the delegation.     *)
(* Receiving an event and reading its delegation are one step here: only   *)
(* the read looks at shared state.                                         *)
(***************************************************************************)
EXTENDS SpendWatchers

VARIABLES
    unbondingPc,     \* next call of the unbonding handler
    unbondingEvent,  \* the event it is handling, if any
    withdrawing      \* the delegation the withdrawn handler is updating, if any

handlerVars == <<unbondingPc, unbondingEvent, withdrawing>>

HandlerTypeOK ==
    /\ unbondingPc \in {"idle", "save", "transition"}
    /\ unbondingEvent \subseteq UnbondingEvent
    /\ withdrawing \subseteq Delegations

HandlerInit ==
    /\ unbondingPc = "idle"
    /\ unbondingEvent = {}
    /\ withdrawing = {}

EndUnbonding == unbondingPc' = "idle" /\ unbondingEvent' = {}

-----------------------------------------------------------------------------
(* handleUnbondingDelegation                                               *)

ReceiveUnbonding ==
    /\ unbondingPc = "idle"
    /\ unbondingChan # <<>>
    /\ unbondingChan' = Tail(unbondingChan)

(* The delegation may start unbonding, judging by the state just read. *)
AcceptUnbonding ==
    LET event == Head(unbondingChan)
        state == delegations[event.hash].state
    IN  /\ ReceiveUnbonding
        /\ state \notin OutdatedStatesForUnbonding
        /\ state \in QualifiedStatesToUnbonding
        /\ unbondingPc' = "save"
        /\ unbondingEvent' = {event}
        /\ UNCHANGED <<withdrawing, watchers, withdrawnChan, storeVars>>

DropUnbonding ==
    /\ ReceiveUnbonding
    /\ LET state == delegations[Head(unbondingChan).hash].state IN
          state \in OutdatedStatesForUnbonding \/
          state \notin QualifiedStatesToUnbonding
    /\ UNCHANGED <<handlerVars, watchers, withdrawnChan, storeVars>>

(* Faulty variant: the entry is written as that of a staking timelock. *)
SaveNewTimeLockExpire_Active(event) ==
    /\ FreeIds # {}
    /\ timelockQueue' = SaveTimeLockExpireCheck(
                            event.hash, event.startHeight + event.timelock,
                            ActiveTxType)

(* SaveNewTimeLockExpire.  That an id is free is a bound of the model. *)
SaveNewTimeLockExpire(event) ==
    /\ FreeIds # {}
    /\ timelockQueue' = SaveTimeLockExpireCheck(
                            event.hash, event.startHeight + event.timelock,
                            UnbondingTxType)

SaveUnbondingExpiry ==
    \E event \in unbondingEvent :
        /\ unbondingPc = "save"
        /\ SaveNewTimeLockExpire(event)
        /\ unbondingPc' = "transition"
        /\ UNCHANGED <<unbondingEvent, withdrawing, watcherVars, delegations>>

StartUnbonding ==
    \E event \in unbondingEvent :
        /\ unbondingPc = "transition"
        /\ delegations' = TransitionToUnbondingState(
                              event.hash, event.startHeight, event.timelock)
        /\ EndUnbonding
        /\ UNCHANGED <<withdrawing, watcherVars, timelockQueue>>

(* A database call fails: the event is lost.  A failed write may have been *)
(* applied.                                                                *)
UnbondingFault ==
    /\ FaultsAllowed
    /\ \/ /\ ReceiveUnbonding
          /\ UNCHANGED <<handlerVars, watchers, withdrawnChan, storeVars>>
       \/ \E event \in unbondingEvent :
             /\ unbondingPc = "save"
             /\ SaveNewTimeLockExpire(event) \/ UNCHANGED timelockQueue
             /\ EndUnbonding
             /\ UNCHANGED <<withdrawing, watcherVars, delegations>>
       \/ /\ unbondingPc = "transition"
          /\ EndUnbonding
          /\ \E event \in unbondingEvent :
                delegations' \in {delegations,
                    TransitionToUnbondingState(
                        event.hash, event.startHeight, event.timelock)}
          /\ UNCHANGED <<withdrawing, watcherVars, timelockQueue>>

UnbondingProgress ==
    \/ AcceptUnbonding
    \/ DropUnbonding
    \/ SaveUnbondingExpiry
    \/ StartUnbonding

-----------------------------------------------------------------------------
(* handleWithdrawnDelegation                                               *)

ReceiveWithdrawn ==
    /\ withdrawing = {}
    /\ withdrawnChan # <<>>
    /\ withdrawnChan' = Tail(withdrawnChan)

AcceptWithdrawn ==
    LET d == Head(withdrawnChan) IN
    /\ ReceiveWithdrawn
    /\ delegations[d].state \notin OutdatedStatesForWithdraw
    /\ delegations[d].state \in QualifiedStatesToWithdraw
    /\ withdrawing' = {d}
    /\ UNCHANGED <<unbondingPc, unbondingEvent, watchers, unbondingChan,
                   storeVars>>

(* Faulty variant: an event that comes too early is not taken out. *)
DropWithdrawn_OutdatedOnly ==
    /\ ReceiveWithdrawn
    /\ delegations[Head(withdrawnChan)].state \in OutdatedStatesForWithdraw
    /\ UNCHANGED <<handlerVars, watchers, unbondingChan, storeVars>>

DropWithdrawn ==
    /\ ReceiveWithdrawn
    /\ LET state == delegations[Head(withdrawnChan)].state IN
          state \in OutdatedStatesForWithdraw \/
          state \notin QualifiedStatesToWithdraw
    /\ UNCHANGED <<handlerVars, watchers, unbondingChan, storeVars>>

Withdraw ==
    \E d \in withdrawing :
        /\ delegations' = TransitionToWithdrawnState(
                              d, QualifiedStatesToWithdraw)
        /\ withdrawing' = {}
        /\ UNCHANGED <<unbondingPc, unbondingEvent, watcherVars,
                       timelockQueue>>

WithdrawnFault ==
    /\ FaultsAllowed
    /\ \/ /\ ReceiveWithdrawn
          /\ UNCHANGED <<handlerVars, watchers, unbondingChan, storeVars>>
       \/ \E d \in withdrawing :
             /\ delegations' \in {delegations,
                    TransitionToWithdrawnState(d, QualifiedStatesToWithdraw)}
             /\ withdrawing' = {}
             /\ UNCHANGED <<unbondingPc, unbondingEvent, watcherVars,
                            timelockQueue>>

WithdrawnProgress == AcceptWithdrawn \/ DropWithdrawn \/ Withdraw

=============================================================================
