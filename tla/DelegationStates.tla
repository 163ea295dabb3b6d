-------------------------- MODULE DelegationStates --------------------------
(***************************************************************************)
(* The states of a Phase 1 delegation document, the two kinds of timelock  *)
(* entry, and the tables saying from which states each transition of the   *)
(* service may start (internal/types and internal/utils/state_transition). *)
(***************************************************************************)

CONSTANT Delegations        \* _id (staking transaction hash) of each document

Active             == "active"
UnbondingRequested == "unbonding_requested"
Unbonding          == "unbonding"
Unbonded           == "unbonded"
Withdrawn          == "withdrawn"
Transitioned       == "transitioned"

DelegationState == {Active, UnbondingRequested, Unbonding, Unbonded,
                    Withdrawn, Transitioned}

ActiveTxType    == "active"
UnbondingTxType == "unbonding"
StakingTxType   == {ActiveTxType, UnbondingTxType}

-----------------------------------------------------------------------------

(* States in which an unbonding event has already been dealt with. *)
OutdatedStatesForUnbonding == {Unbonding, Unbonded, Withdrawn}

OutdatedStatesForWithdraw == {Withdrawn}

(* Active is included for the bootstrap case, where the unbonding          *)
(* transaction is seen before the request for it.                          *)
QualifiedStatesToUnbonding == {Active, UnbondingRequested}

(* Faulty variant: an expiry entry of either kind unbonds either state. *)
QualifiedStatesToUnbonded_AnyType(txType) == {Active, Unbonding}

(* Faulty variant: the end of the staking timelock also unbonds a          *)
(* delegation whose unbonding is requested.                                *)
QualifiedStatesToUnbonded_Requested(txType) ==
    IF txType = ActiveTxType THEN {Active, UnbondingRequested} ELSE {Unbonding}

QualifiedStatesToUnbonded(txType) ==
    IF txType = ActiveTxType THEN {Active} ELSE {Unbonding}

QualifiedStatesToWithdraw == {Unbonded}

=============================================================================
