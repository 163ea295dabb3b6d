---------------------------- MODULE TxClassifier ----------------------------
(***************************************************************************)
(* What a watcher makes of the transaction that spends its output          *)
(* (IsValidUnbondingTx, validateWithdrawalTxFromStaking,                   *)
(* validateWithdrawalTxFromUnbonding and the two handlers that call them,  *)
(* internal/services/watch_btc_events.go).  BitcoinChain records one path  *)
(* for each spend and SpendWatchers acts on it; this module has the        *)
(* transaction instead, with inputs and outputs the service did not ask    *)
(* for, and says when its verdict is the one the path stands for.          *)
(*                                                                         *)
(* A script is named by the path it belongs to.  The document of a watched *)
(* delegation decodes: its transaction was decoded to watch it.            *)
(***************************************************************************)
EXTENDS Integers, Sequences

CONSTANTS
    MaxInputs,      \* bound: inputs of a spending transaction
    MaxOutputs,     \* bound: its outputs
    OutputValues,   \* values its outputs may have
    StakingValue,   \* value of the staking output
    UnbondingFees   \* fees the versions of the parameters may ask for

ASSUME ClassifierAssumption ==
    /\ MaxInputs \in Nat
    /\ MaxOutputs \in Nat
    /\ OutputValues \subseteq Nat
    /\ StakingValue \in Nat
    /\ UnbondingFees \subseteq Nat

VARIABLES
    spend,      \* the spend the notifier reports, and the output it is of
    env,        \* what the calls made while handling it return
    verdict     \* "pending", or how the handler ended

vars == <<spend, env, verdict>>

-----------------------------------------------------------------------------
(* Transactions that Bitcoin accepts as the spend of a watched output.     *)

(* The second to last element of a witness, which is the script it reveals *)
(* unless an annex follows; "short" is a witness with fewer than two       *)
(* elements, as a key spend has.                                           *)
Witness == {"short", "unrelated", "timelock", "unbonding", "slashing"}

Input == [outpoint : {"watched", "elsewhere"},
          witness  : Witness,
          sequence : {"max", "lower"}]

Output == [script : {"unbonding", "unrelated"}, value : OutputValues]

Transaction ==
    [ins  : UNION {[1 .. n -> Input] : n \in 1 .. MaxInputs},
     outs : UNION {[1 .. n -> Output] : n \in 1 .. MaxOutputs},
     lockTime : {0, 1}]

(* The taproot trees of the two outputs; their internal keys sign nothing. *)
Scripts(output) ==
    IF output = "staking" THEN {"timelock", "unbonding", "slashing"}
                          ELSE {"timelock", "slashing"}

Spend == [output : {"staking", "unbonding"}, tx : Transaction,
          input : 1 .. MaxInputs,
          revealed : {"timelock", "unbonding", "slashing"}]

(* Exactly the reported input spends the output, and it reveals a script   *)
(* of the tree; behind an annex the second to last element is the control  *)
(* block, which is no script.  The other inputs are anyone's; they may     *)
(* reveal scripts equal to these when the staker has two delegations alike. *)
Accepted(s) ==
    /\ s.input \in DOMAIN s.tx.ins
    /\ s.revealed \in Scripts(s.output)
    /\ s.tx.ins[s.input].witness \in {s.revealed, "unrelated"}
    /\ \A i \in DOMAIN s.tx.ins :
          s.tx.ins[i].outpoint = "watched" <=> i = s.input

(* found: the query for the document succeeds; params: there are           *)
(* parameters for its height, with this fee; rebuilds: its keys and the    *)
(* parameters give scripts; header: the header of the block is available.  *)
Env == [found : BOOLEAN, params : BOOLEAN, fee : UnbondingFees,
        rebuilds : BOOLEAN, header : BOOLEAN]

-----------------------------------------------------------------------------
(* The checks.                                                             *)

IsTransferTx(tx) == Len(tx.ins) = 1 /\ Len(tx.outs) = 1

ExpectedUnbondingOutputValue(e) == StakingValue - e.fee

(* Faulty variant: the value of the output is not compared. *)
IsUnbondingTxAsExpected_AnyValue(tx, e) ==
    /\ tx.ins[1].sequence = "max"
    /\ tx.lockTime = 0
    /\ ExpectedUnbondingOutputValue(e) > 0
    /\ tx.outs[1].script = "unbonding"

(* The checks of a transaction that does reveal the unbonding script. *)
IsUnbondingTxAsExpected(tx, e) ==
    /\ tx.ins[1].sequence = "max"
    /\ tx.lockTime = 0
    /\ ExpectedUnbondingOutputValue(e) > 0
    /\ tx.outs[1].script = "unbonding"
    /\ tx.outs[1].value = ExpectedUnbondingOutputValue(e)

(* "yes", "no", "invalid" for ErrInvalidUnbondingTx, "failed" for another  *)
(* error, or "panic", in the order of the returns.                         *)
IsValidUnbondingTx(tx, e) ==
    IF ~ IsTransferTx(tx) \/ tx.ins[1].outpoint # "watched" THEN "no"
    ELSE IF ~ e.rebuilds THEN "failed"
    ELSE IF tx.ins[1].witness = "short" THEN "panic"
    ELSE IF tx.ins[1].witness # "unbonding" THEN "no"
    ELSE IF ~ IsUnbondingTxAsExpected(tx, e) THEN "invalid"
    ELSE "yes"

(* Faulty variant: the script is taken from the first input. *)
ValidateWithdrawalTx_FirstInput(tx, input, e) ==
    IF ~ e.rebuilds THEN "failed"
    ELSE IF tx.ins[1].witness = "short" THEN "panic"
    ELSE IF tx.ins[1].witness # "timelock" THEN "invalid"
    ELSE "yes"

(* validateWithdrawalTxFromStaking and validateWithdrawalTxFromUnbonding,  *)
(* which differ in the tree they rebuild.                                  *)
ValidateWithdrawalTx(tx, input, e) ==
    IF ~ e.rebuilds THEN "failed"
    ELSE IF tx.ins[input].witness = "short" THEN "panic"
    ELSE IF tx.ins[input].witness # "timelock" THEN "invalid"
    ELSE "yes"

Readable(e) == e.found /\ e.params

(* Faulty variant: a check that could not be made counts as passed. *)
WithdrawalVerdict_FailedPasses(tx, input, e, other) ==
    CASE ValidateWithdrawalTx(tx, input, e) \in {"yes", "failed"} -> "withdrawn"
      [] ValidateWithdrawalTx(tx, input, e) = "invalid"           -> "ignored"
      [] ValidateWithdrawalTx(tx, input, e) = "panic"             -> "panic"

(* The verdict of a withdrawal check; other is what the handler returns    *)
(* when the check fails for another reason than the transaction.           *)
WithdrawalVerdict(tx, input, e, other) ==
    CASE ValidateWithdrawalTx(tx, input, e) = "yes"     -> "withdrawn"
      [] ValidateWithdrawalTx(tx, input, e) = "invalid" -> "ignored"
      [] ValidateWithdrawalTx(tx, input, e) = "failed"  -> other
      [] ValidateWithdrawalTx(tx, input, e) = "panic"   -> "panic"

(* handleSpendingStakingTransaction: "unbonding" and "withdrawn" are the   *)
(* events it pushes, "ignored" a return of nil for an invalid transaction, *)
(* "error" a return of an error.  After a failed withdrawal check it       *)
(* returns err, which is nil there: "silent".                              *)
HandleSpendingStakingTransaction(tx, input, e) ==
    IF ~ Readable(e) THEN "error"
    ELSE CASE IsValidUnbondingTx(tx, e) = "yes"     ->
                 IF e.header THEN "unbonding" ELSE "error"
           [] IsValidUnbondingTx(tx, e) = "invalid" -> "ignored"
           [] IsValidUnbondingTx(tx, e) = "failed"  -> "error"
           [] IsValidUnbondingTx(tx, e) = "panic"   -> "panic"
           [] IsValidUnbondingTx(tx, e) = "no"      ->
                 WithdrawalVerdict(tx, input, e, "silent")

HandleSpendingUnbondingTransaction(tx, input, e) ==
    IF ~ Readable(e) THEN "error"
    ELSE WithdrawalVerdict(tx, input, e, "error")

Verdict(s, e) ==
    IF s.output = "staking"
    THEN HandleSpendingStakingTransaction(s.tx, s.input, e)
    ELSE HandleSpendingUnbondingTransaction(s.tx, s.input, e)

-----------------------------------------------------------------------------

Init ==
    /\ spend \in {s \in Spend : Accepted(s)}
    /\ env \in Env
    /\ verdict = "pending"

Handle ==
    /\ verdict = "pending"
    /\ verdict' = Verdict(spend, env)
    /\ UNCHANGED <<spend, env>>

Spec == Init /\ [][Handle]_vars

-----------------------------------------------------------------------------

(* The unbonding transaction the protocol foresees: the staker's output in, *)
(* all of it but the fee out, final, and nothing else.                     *)
WellFormedUnbonding(s, e) ==
    /\ s.tx.ins = <<[outpoint |-> "watched", witness |-> "unbonding",
                     sequence |-> "max"]>>
    /\ s.tx.outs = <<[script |-> "unbonding", value |-> StakingValue - e.fee]>>
    /\ s.tx.lockTime = 0
    /\ StakingValue > e.fee

HasAnnex(s) == s.tx.ins[s.input].witness # s.revealed

(* The path BitcoinChain records for a spend: the script the spending input *)
(* reveals, with "slashing" also for the unbonding transactions that are   *)
(* not well formed and for every spend with an annex, a withdrawal too.    *)
RecordedPath(s, e) ==
    IF \/ HasAnnex(s)
       \/ s.revealed = "unbonding" /\ ~ WellFormedUnbonding(s, e)
    THEN "slashing"
    ELSE s.revealed

(* What SpendWatchers does on each path. *)
EventOn(path) ==
    CASE path = "unbonding" -> "unbonding"
      [] path = "timelock"  -> "withdrawn"
      [] path = "slashing"  -> "ignored"

Healthy(e) == e.found /\ e.params /\ e.rebuilds /\ e.header

(* Every spend gets the verdict of its path, whatever else is in the       *)
(* transaction: a withdrawal together with other inputs at any place, from *)
(* other delegations too, is one unless it has an annex, and an unbonding  *)
(* transaction that pays elsewhere, or not enough, is not.                 *)
ClassifiedByPath ==
    verdict # "pending" /\ Healthy(env) =>
        verdict = EventOn(RecordedPath(spend, env))

(* The panics on short witnesses are out of reach of spends on the chain,  *)
(* although a transaction may well have inputs with such witnesses.        *)
NoPanic == verdict # "panic"

(* Whatever fails on the way, no wrong event is pushed, and the spend is   *)
(* dropped without an error or a verdict only when the scripts of the      *)
(* delegation cannot be rebuilt.                                           *)
FailuresPushNothing ==
    verdict # "pending" /\ ~ Healthy(env) =>
        /\ verdict \in {"unbonding", "withdrawn", "ignored"} =>
              verdict = EventOn(RecordedPath(spend, env))
        /\ verdict = "silent" => ~ env.rebuilds /\ ~ IsTransferTx(spend.tx)

=============================================================================
