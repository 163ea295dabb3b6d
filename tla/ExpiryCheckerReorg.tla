------------------------- MODULE ExpiryCheckerReorg -------------------------
(***************************************************************************)
(* The service on a chain that reorganises.  The notifier reports a spend  *)
(* once it is in a block, and reports on another channel of the same event *)
(* that the block has been undone; no watcher reads that one               *)
(* (watchForSpendStakingTx, watchForSpendUnbondingTx), and no handler asks *)
(* the chain again before it writes.  So the steps of the service are the  *)
(* ones of ExpiryChecker, and only the chain has a new one.  The history   *)
(* variables keep what the chain has ever shown, which is the most a       *)
(* service that waits for no confirmation can promise to be right about.   *)
(***************************************************************************)
EXTENDS ExpiryChecker

CONSTANT MaxReorgs        \* bound: how many blocks are disconnected

ASSUME ReorgAssumption == MaxReorgs \in Nat

VARIABLES
    reorgs,      \* how many blocks have been disconnected
    minedAt,     \* history: heights each unbonding transaction was mined at
    highest,     \* history: height of the highest block
    everGone     \* history: delegations whose funds were gone

historyVars == <<minedAt, highest, everGone>>

reorgVars == <<vars, reorgs, historyVars>>

ReorgInit ==
    /\ Init
    /\ reorgs = 0
    /\ minedAt = [d \in Delegations |-> {}]
    /\ highest = StartTip
    /\ everGone = {}

(* The spends that are left when the blocks from the given height on are   *)
(* undone.                                                                 *)
Surviving(spends, height) ==
    [d \in Delegations |->
        IF spends[d].height >= height THEN NoSpend ELSE spends[d]]

(* The best block is disconnected; what it held is unspent again, and may  *)
(* be mined later, or never.  The blocks from before the start stay.       *)
DisconnectBlock ==
    /\ reorgs < MaxReorgs
    /\ tip > StartTip
    /\ reorgs' = reorgs + 1
    /\ tip' = tip - 1
    /\ stakingSpend' = Surviving(stakingSpend, tip)
    /\ unbondingSpend' = Surviving(unbondingSpend, tip)
    /\ UNCHANGED <<storeVars, memoryVars, restarts>>

Remember ==
    /\ minedAt' = [d \in Delegations |->
          minedAt[d] \cup (IF stakingSpend'[d].path = "unbonding"
                           THEN {stakingSpend'[d].height} ELSE {})]
    /\ highest' = IF tip' > highest THEN tip' ELSE highest
    /\ everGone' = everGone \cup {d \in Delegations : OutputGone(d)'}

ReorgNext ==
    /\ (Next /\ UNCHANGED reorgs) \/ DisconnectBlock
    /\ Remember

ReorgSpec == ReorgInit /\ [][ReorgNext]_reorgVars

(* The fairness of ExpiryChecker: blocks need be neither mined nor undone. *)
ReorgFairSpec == ReorgSpec /\ Fairness

-----------------------------------------------------------------------------
(* What the service keeps true whatever the chain does.                    *)

(* The unbonding transaction of a delegation was on the chain at the       *)
(* recorded height in some block, though maybe in none that is left.       *)
RecordedWasMined ==
    \A d \in Delegations :
        delegations[d].unbondingTx # NoUnbondingTx =>
            delegations[d].unbondingTx.startHeight \in minedAt[d]

(* A delegation that is unbonded was past one of its timelocks: an expiry  *)
(* read before a reorganisation may be acted upon after it, but it was     *)
(* true when read.                                                         *)
ExpiredWasFree ==
    \A d \in Delegations :
        delegations[d].state \in {Unbonded, Withdrawn} =>
            IF delegations[d].unbondingTx = NoUnbondingTx
            THEN highest >= StakingExpiry(d)
            ELSE \E h \in minedAt[d] : highest >= h + UnbondingTime[d]

(* A delegation that is withdrawn, with no unbonding transaction, had its  *)
(* funds leave in some block.  With one that is not so: GetTxOut finds no  *)
(* output of an unbonding transaction that was undone, and the subscriber  *)
(* poller takes that for a spend.                                          *)
WithdrawnWasGone ==
    \A d \in Delegations :
        /\ delegations[d].state = Withdrawn
        /\ delegations[d].unbondingTx = NoUnbondingTx
        => d \in everGone

(* What users of the database can still rely on: every step changes        *)
(* nothing they see, or is a step of ReorgLifecycle.                       *)
ReorgPromise ==
    INSTANCE ReorgLifecycle
        WITH status <- [d \in Delegations |-> delegations[d].state],
             unbondingFrom <- [d \in Delegations |->
                                  delegations[d].unbondingTx.startHeight]

ImplementsReorgLifecycle == ReorgPromise!Spec

(* An active delegation whose staking timelock is over is dealt with,      *)
(* unless the chain takes that back.                                       *)
ExpiredIsUnbondedOrUndone ==
    \A d \in Delegations :
        delegations[d].state = Active /\ tip >= StakingExpiry(d)
            ~> \/ delegations[d].state # Active
               \/ tip < StakingExpiry(d)

=============================================================================
