------------------------- MODULE TxClassifierProofs -------------------------
(***************************************************************************)
(* The verdict on a spend is the one of its path, for transactions of any  *)
(* size, any values and any fees.                                          *)
(***************************************************************************)
EXTENDS TxClassifier, TLAPS

(* What an accepted spend looks like: the spending input is one of its     *)
(* inputs, and inputs and outputs are sequences.                           *)
LEMMA SpendShape ==
    ASSUME NEW s \in Spend, Accepted(s)
    PROVE  /\ s.output \in {"staking", "unbonding"}
           /\ Len(s.tx.ins) \in Nat \ {0}
           /\ DOMAIN s.tx.ins = 1 .. Len(s.tx.ins)
           /\ s.input \in 1 .. Len(s.tx.ins)
           /\ \A i \in 1 .. Len(s.tx.ins) : s.tx.ins[i] \in Input
           /\ Len(s.tx.outs) \in Nat \ {0}
           /\ DOMAIN s.tx.outs = 1 .. Len(s.tx.outs)
           /\ \A i \in 1 .. Len(s.tx.outs) : s.tx.outs[i] \in Output
           /\ s.tx.lockTime \in {0, 1}
<1>1. s.output \in {"staking", "unbonding"} /\ s.tx \in Transaction
  BY DEF Spend
<1>2. PICK n \in 1 .. MaxInputs : s.tx.ins \in [1 .. n -> Input]
  BY <1>1 DEF Transaction
<1>3. PICK m \in 1 .. MaxOutputs : s.tx.outs \in [1 .. m -> Output]
  BY <1>1 DEF Transaction
<1>4. MaxInputs \in Nat /\ MaxOutputs \in Nat
  BY ClassifierAssumption
<1>5. s.tx.ins \in Seq(Input) /\ Len(s.tx.ins) = n
  BY <1>2, <1>4
<1>6. s.tx.outs \in Seq(Output) /\ Len(s.tx.outs) = m
  BY <1>3, <1>4
<1>7. DOMAIN s.tx.ins = 1 .. Len(s.tx.ins) /\ s.input \in DOMAIN s.tx.ins
  BY <1>2, <1>5 DEF Accepted
<1>8. s.tx.lockTime \in {0, 1}
  BY <1>1 DEF Transaction
<1> QED
  BY <1>1, <1>2, <1>3, <1>4, <1>5, <1>6, <1>7, <1>8

(* A transfer that reveals the unbonding script passes the checks exactly  *)
(* when it is the transaction the protocol foresees.                       *)
LEMMA ExpectedIsWellFormed ==
    ASSUME NEW s \in Spend, Accepted(s), NEW e \in Env,
           IsTransferTx(s.tx), s.tx.ins[1].witness = "unbonding"
    PROVE  IsUnbondingTxAsExpected(s.tx, e) <=> WellFormedUnbonding(s, e)
<1>1. /\ Len(s.tx.ins) = 1
      /\ Len(s.tx.outs) = 1
      /\ s.input = 1
      /\ s.tx.ins[1] \in Input
      /\ s.tx.outs[1] \in Output
      /\ DOMAIN s.tx.ins = 1 .. 1
      /\ DOMAIN s.tx.outs = 1 .. 1
  BY SpendShape DEF IsTransferTx
<1>2. s.tx.ins[1].outpoint = "watched"
  BY <1>1 DEF Accepted
<1>3. StakingValue \in Nat /\ e.fee \in Nat
  BY ClassifierAssumption DEF Env
<1>4. s.tx.ins = <<s.tx.ins[1]>> /\ s.tx.outs = <<s.tx.outs[1]>>
  <2>1. s.tx.ins \in Seq(Input) /\ s.tx.outs \in Seq(Output)
    BY <1>1, ClassifierAssumption DEF Spend, Transaction
  <2> QED
    BY <1>1, <2>1
<1>5. s.tx.ins = <<[outpoint |-> "watched", witness |-> "unbonding",
                    sequence |-> "max"]>>
        <=> s.tx.ins[1].sequence = "max"
  BY <1>1, <1>2, <1>4 DEF Input
<1>6. s.tx.outs = <<[script |-> "unbonding", value |-> StakingValue - e.fee]>>
        <=> /\ s.tx.outs[1].script = "unbonding"
            /\ s.tx.outs[1].value = StakingValue - e.fee
  BY <1>1, <1>4 DEF Output
<1> QED
  BY <1>3, <1>5, <1>6
  DEF IsUnbondingTxAsExpected, WellFormedUnbonding, ExpectedUnbondingOutputValue

(* No check finds a short witness where it looks, and one finds a script   *)
(* exactly when the spend reveals that script and has no annex.            *)
LEMMA NoShortWitness ==
    ASSUME NEW s \in Spend, Accepted(s), NEW e \in Env
    PROVE  LET script == s.tx.ins[s.input].witness IN
           /\ script \in {"timelock", "unbonding", "slashing", "unrelated"}
           /\ HasAnnex(s) <=> script = "unrelated"
           /\ script # "unrelated" => s.revealed = script
           /\ s.output = "unbonding" => script # "unbonding"
           /\ s.revealed \in {"timelock", "unbonding", "slashing"}
           /\ IsTransferTx(s.tx) =>
                 s.input = 1 /\ s.tx.ins[1].outpoint = "watched"
<1>1. /\ s.revealed \in Scripts(s.output)
      /\ s.tx.ins[s.input].witness \in {s.revealed, "unrelated"}
  BY DEF Accepted
<1>2. ASSUME IsTransferTx(s.tx)
      PROVE  s.input = 1 /\ s.tx.ins[1].outpoint = "watched"
  BY <1>2, SpendShape DEF IsTransferTx, Accepted
<1> QED
  BY <1>1, <1>2, SpendShape DEF Scripts, HasAnnex

(* What IsValidUnbondingTx answers for the spend of a staking output. *)
LEMMA UnbondingAnswer ==
    ASSUME NEW s \in Spend, Accepted(s), NEW e \in Env
    PROVE  LET answer == IsValidUnbondingTx(s.tx, e) IN
           /\ answer # "panic"
           /\ answer = "failed" => ~ e.rebuilds
           /\ answer = "yes" => RecordedPath(s, e) = "unbonding"
           /\ answer = "invalid" => RecordedPath(s, e) = "slashing"
           /\ answer = "no" => RecordedPath(s, e) # "unbonding"
           /\ answer = "no" /\ ~ e.rebuilds => ~ IsTransferTx(s.tx)
           /\ answer \in {"yes", "no", "invalid", "failed"}
<1>1. WellFormedUnbonding(s, e) => IsTransferTx(s.tx)
  BY SpendShape DEF WellFormedUnbonding, IsTransferTx
<1>2. CASE ~ IsTransferTx(s.tx)
  BY <1>1, <1>2, NoShortWitness DEF IsValidUnbondingTx, RecordedPath
<1>3. CASE IsTransferTx(s.tx) /\ s.tx.ins[1].witness = "unbonding"
  BY <1>3, ExpectedIsWellFormed, NoShortWitness
  DEF IsValidUnbondingTx, RecordedPath
<1>4. CASE IsTransferTx(s.tx) /\ s.tx.ins[1].witness # "unbonding"
  BY <1>4, NoShortWitness DEF IsValidUnbondingTx, RecordedPath
<1> QED
  BY <1>2, <1>3, <1>4

(* What the check for a withdrawal leads to. *)
LEMMA WithdrawalAnswer ==
    ASSUME NEW s \in Spend, Accepted(s), NEW e \in Env, NEW other
    PROVE  WithdrawalVerdict(s.tx, s.input, e, other) =
               IF ~ e.rebuilds THEN other
               ELSE IF s.tx.ins[s.input].witness = "timelock" THEN "withdrawn"
               ELSE "ignored"
BY NoShortWitness DEF WithdrawalVerdict, ValidateWithdrawalTx

(* The three properties of the verdict, for each spend and whatever the    *)
(* calls return.                                                           *)
GoodVerdict(s, e, v) ==
    /\ Healthy(e) => v = EventOn(RecordedPath(s, e))
    /\ v # "panic"
    /\ v \in {"unbonding", "withdrawn", "ignored"} =>
          v = EventOn(RecordedPath(s, e))
    /\ v = "silent" => ~ e.rebuilds /\ ~ IsTransferTx(s.tx)
    /\ v \in {"unbonding", "withdrawn", "ignored", "error", "silent"}

LEMMA VerdictIsGood ==
    ASSUME NEW s \in Spend, Accepted(s), NEW e \in Env
    PROVE  GoodVerdict(s, e, Verdict(s, e))
<1> DEFINE script == s.tx.ins[s.input].witness
<1>1. RecordedPath(s, e) \in {"timelock", "unbonding", "slashing"}
  BY NoShortWitness DEF RecordedPath
<1>2. script = "timelock" <=> RecordedPath(s, e) = "timelock"
  BY NoShortWitness DEF RecordedPath
<1>3. s.output = "unbonding" => RecordedPath(s, e) # "unbonding"
  BY NoShortWitness DEF RecordedPath
<1>4. s.output \in {"staking", "unbonding"}
  BY SpendShape
<1>5. CASE ~ Readable(e)
  <2>1. Verdict(s, e) = "error"
    BY <1>5 DEF Verdict, HandleSpendingStakingTransaction,
                HandleSpendingUnbondingTransaction
  <2> QED
    BY <1>5, <2>1 DEF GoodVerdict, Healthy, Readable
<1>6. CASE Readable(e) /\ s.output = "unbonding"
  <2>1. RecordedPath(s, e) # "unbonding"
    BY <1>3, <1>6
  <2>2. Verdict(s, e) = WithdrawalVerdict(s.tx, s.input, e, "error")
    BY <1>6 DEF Verdict, HandleSpendingUnbondingTransaction
  <2>3. Verdict(s, e) = IF ~ e.rebuilds THEN "error"
                        ELSE IF script = "timelock" THEN "withdrawn"
                        ELSE "ignored"
    BY <2>2, WithdrawalAnswer
  <2> QED
    BY <1>1, <1>2, <2>1, <2>3 DEF GoodVerdict, Healthy, EventOn
<1>7. CASE Readable(e) /\ s.output = "staking"
  <2> DEFINE answer == IsValidUnbondingTx(s.tx, e)
  <2>1. Verdict(s, e) = HandleSpendingStakingTransaction(s.tx, s.input, e)
    BY <1>7 DEF Verdict
  <2>2. answer # "no" =>
           Verdict(s, e) = CASE answer = "yes" -> IF e.header THEN "unbonding"
                                                             ELSE "error"
                             [] answer = "invalid" -> "ignored"
                             [] answer = "failed"  -> "error"
    BY <1>7, <2>1, UnbondingAnswer DEF HandleSpendingStakingTransaction
  <2>3. answer = "no" =>
           Verdict(s, e) = IF ~ e.rebuilds THEN "silent"
                           ELSE IF script = "timelock" THEN "withdrawn"
                           ELSE "ignored"
    BY <1>7, <2>1, WithdrawalAnswer DEF HandleSpendingStakingTransaction
  <2>4. CASE answer = "no"
    BY <1>1, <1>2, <2>3, <2>4, UnbondingAnswer DEF GoodVerdict, Healthy, EventOn
  <2>5. CASE answer # "no"
    BY <2>2, <2>5, UnbondingAnswer DEF GoodVerdict, Healthy, EventOn
  <2> QED
    BY <2>4, <2>5
<1> QED
  BY <1>4, <1>5, <1>6, <1>7

-----------------------------------------------------------------------------

Judged ==
    /\ spend \in Spend
    /\ Accepted(spend)
    /\ env \in Env
    /\ verdict # "pending" => GoodVerdict(spend, env, verdict)

LEMMA JudgedIsInvariant == Spec => []Judged
<1>1. Init => Judged
  BY DEF Init, Judged
<1>2. Judged /\ [Handle]_vars => Judged'
  <2>1. CASE Handle
    BY <2>1, VerdictIsGood DEF Judged, Handle
  <2>2. CASE UNCHANGED vars
    BY <2>2 DEF Judged, vars
  <2> QED
    BY <2>1, <2>2
<1> QED
  BY <1>1, <1>2, PTL DEF Spec

(* Every spend the handlers judge gets the verdict of its path             *)
(* (IsValidUnbondingTx and the two withdrawal checks).                     *)
THEOREM Classification == Spec => []ClassifiedByPath
<1>1. Judged => ClassifiedByPath
  BY DEF Judged, GoodVerdict, ClassifiedByPath
<1> QED
  BY <1>1, JudgedIsInvariant, PTL

(* IsValidUnbondingTx and the withdrawal checks read no witness that an    *)
(* accepted spend may not have.                                            *)
THEOREM SafeWitness == Spec => []NoPanic
<1>1. Judged => NoPanic
  BY DEF Judged, GoodVerdict, NoPanic
<1> QED
  BY <1>1, JudgedIsInvariant, PTL

(* No wrong event is pushed when a call of handleSpendingStakingTransaction *)
(* or handleSpendingUnbondingTransaction fails on the way.                  *)
THEOREM SafeFailures == Spec => []FailuresPushNothing
<1>1. Judged => FailuresPushNothing
  BY DEF Judged, GoodVerdict, FailuresPushNothing
<1> QED
  BY <1>1, JudgedIsInvariant, PTL

=============================================================================
