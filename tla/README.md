# TLA+ models of the Babylon staking expiry checker

The staking expiry checker is one Go process. It watches Bitcoin on behalf of
the delegations of Babylon's Phase 1 and keeps the state of each one in a
MongoDB database that it shares with the Phase 1 API. This directory models the
process together with its database and its view of the chain, checks the models
with TLC, and proves the main results with TLAPS.

Names in `code font` are names of the source or of a module here. Paths are
relative to the repository.

## 1. The system

| component | source | state | operations |
|---|---|---|---|
| delegation states | `internal/types`, `internal/utils/state_transition.go` | none | the tables of states a transition may start from |
| database client | `internal/db` | collections `delegations` and `timelock_queue` | three state transitions, find and delete expired entries, insert an entry, page through delegations by state |
| expiry checker poller | `internal/services/pollers.go`, `service.go` | the batch in hand | each tick: best height, one batch, and per entry update the delegation and delete the entry |
| BTC subscriber poller | `pollers.go`, `tracked_subscriptions.go` | page in hand, token, tracked subscriptions | each tick: all pages of `unbonded` and `unbonding_requested` delegations; start a watcher, or report an output that is spent |
| spend watchers | `watch_btc_events.go` | one goroutine per subscription | register with the notifier, wait, classify the spending transaction, push an event, watch the unbonding output |
| event handlers | `delegation_handlers.go` | the event in hand | unbonding: insert an entry, then move the delegation; withdrawn: move the delegation |
| service | `service.go`, `cmd/` | two channels of 100 events, quit channel, wait group | start, shut down |
| Bitcoin client and notifier | `internal/btcclient` | none of the service's own | RPC calls with retries; spend notifications |
| Phase 1 API | not in the repository | the same database | requests for unbonding, moves to Phase 2 |
| configuration, parameters, metrics, tracing, command line | `internal/config`, `params`, `internal/observability`, `cmd/` | read once at start | none that changes state |

**How they interact.** The pollers, the handlers and the watchers run
concurrently. They share three things: the database, where only writes of one
document are atomic; the two event channels, from watchers and the subscriber
poller to the handlers; and the set of tracked subscriptions. Everything but the
database is lost when the process ends.

**What is hard.** Two writes in two collections that belong together (entry and
delegation) without a transaction; reads followed by writes with other
goroutines in between; pages and batches that are snapshots; events that come
early, late, twice or never; a process that ends anywhere. `PROJECT.json` lists
the hazards with their lines and the properties aimed at each.

**What makes each part correct.**

- *Expiry poller*: no delegation is unbonded before its timelock is over
  (`UnbondedAfterExpiry`); no entry is lost by a failure between update and
  deletion (`ActiveHasTimelock`, `BatchIsQueued`); expired entries do leave the
  queue (`QueueDrains`) and active delegations do get unbonded
  (`ExpiredIsUnbonded`).
- *Unbonding handler*: what is stored is what is on the chain
  (`UnbondingTxOnChain`), the entry is there when the delegation needs it
  (`UnbondingHasTimelock`), and no more than one is written in each life of the
  process (`UnbondingEntriesBounded`).
- *Watchers and withdrawn handler*: nothing is withdrawn that is not gone
  (`WithdrawnOnlyIfGone`); one watcher per output (`OneWatcherPerOutput`), and
  none lost before its time (`NoSpendIsLost`); spends
  are noticed (`RequestedUnbondingNoticed`, `LateWithdrawalNoticed`,
  `UntrackedWithdrawalNoticed`); channels drain (`ChannelsDrain`).
- *Classification*: a spend gets the verdict of the path it took, whatever else
  is in the transaction (`ClassifiedByPath`), without a panic (`NoPanic`), and a
  failing call leads to no wrong event (`FailuresPushNothing`).
- *Handlers*: what was read of a delegation still holds when it is written
  (`HandledIsEligible`).
- *Subscriber poller*: a poll without an error covers all that waited
  (`ScanCoversWaiting`, and `PollMissesNothing` in the whole service), and an
  output found spent is reported until the delegation is withdrawn
  (`SpentOutputIsRetried`).
- *On a chain that reorganises*: what is recorded was true of the chain when it
  was looked at (`RecordedWasMined`, `ExpiredWasFree`, `WithdrawnWasGone`), the
  documents still live a life one can state (`ImplementsReorgLifecycle`), and the
  pollers go on (`ExpiredIsUnbondedOrUndone`, `QueueDrains`).
- *Service*: the wait group counts what runs (`WaitGroupCounts`,
  `NoneLeftBehind`), a shutdown completes (`ShutdownCompletes`), polls end
  (`PollEnds`).
- *All of it*: the documents live the life other users of the database expect
  (`ImplementsLifecycle`).

## 2. The modules

    DelegationStates --> BitcoinChain --> DelegationStore --> ExpiryPoller ----+
                              |                  |                             |
                              v                  +--> SpendWatchers            |
                     DelegationLifecycle              |         |              |
                              ^             SubscriberPoller  DelegationHandlers
                              |               |       |         |              |
                              |       SubscriberScan  +----+----+--------------+
                              |             |              v
                              +--- INSTANCE | ------ ExpiryChecker --> ExpiryCheckerReorg
                                            |          |       |          |       |
                       SubscriberScanProofs +    ScanCoverage  |          |   INSTANCE
                                                       |       |          |       v
                       ExpiryCheckerTypes <------------|-------+          |  ReorgLifecycle
                               |                       |                  |
                       ExpiryCheckerProofs             |                  |
                               |                       |                  |
                       ExpiryCheckerRefinement         |                  |
                               |                       |                  |
                       ExpiryCheckerHandlerProofs <----+                  |
                               |                                          |
                       ExpiryCheckerReorgProofs <-------------------------+

    TxClassifier --> TxClassifierProofs
    ServiceLifecycle --> ServiceLifecycleProofs

The last two stand alone. `TxClassifier` justifies what `BitcoinChain` and
`SpendWatchers` assume, that a spend has one path and its watcher acts on that
path: its `RecordedPath` is the path of `BitcoinChain`, its `EventOn` the action
of `SpendWatchers`. `ServiceLifecycle` has the goroutines of `ExpiryChecker`
again with what they block on in place of what they compute.

| module | what it models |
|---|---|
| `DelegationStates` | states, timelock types and the transition tables |
| `BitcoinChain` | external: best height, and the spend of each staking and unbonding output, by path and height; the consensus rule of relative timelocks |
| `DelegationStore` | the two collections, one operator per query; external: what the API does and what the database holds at first |
| `ExpiryPoller` | `processExpiredDelegations`, one action per call |
| `SpendWatchers` | the watchers and the two channels |
| `SubscriberPoller` | `processBTCSubscriber` and `TrackedSubscriptions`, one action per document |
| `DelegationHandlers` | the two handlers, one action per database call |
| `DelegationLifecycle` | the abstract specification: the life of a delegation, with no pollers, channels or queue |
| `ExpiryChecker` | composition, fairness, properties, inductive invariant, refinement mapping |
| `ScanCoverage` | the service with the history of a poll: what waited when it began, what it reported |
| `SubscriberScan` | the subscriber poller alone over a larger database that changes under it |
| `ExpiryCheckerReorg` | the same service on a chain whose best block may be undone, with the history of what the chain has shown |
| `ReorgLifecycle` | the abstract specification on such a chain: every move of a document rests on something the chain has once shown |
| `TxClassifier` | `IsValidUnbondingTx`, the two withdrawal checks and the handlers around them, over records of a transaction |
| `ServiceLifecycle` | start, loops, watchers, RPC retries, pushes and shutdown, with the wait group, the context and the quit channel |
| `MC...` | constants for TLC |
| `...Types`, `...Proofs`, `...Refinement` | the proofs |

### State and actions against the code

- `delegations[d]` is the document of `d`: its `state` and the two fields of
  `unbonding_tx` that matter later, `start_height` and `timelock`. Hex strings,
  keys, output indices and timestamps are left out. An absent `unbonding_tx` is
  `NoUnbondingTx`, with height 0, where no block holds such a transaction.
- `timelockQueue` is the set of `timelock_queue` documents, each with an id.
  `InsertOne` never replaces: two entries of one delegation can coexist.
- `TransitionState` is `transitionState`: `UpdateOne` with the eligible states
  in its filter. One that matches nothing changes nothing and is no error, in the
  driver and in the model. (The comment at `internal/db/delegation.go:58`
  promises a NotFoundError that `UpdateOne` never leads to; both callers would
  ignore it.)
- `expiryPc`, `btcTip`, `expiredBatch`, `current` are the program counter and
  the locals of `processExpiredDelegations`. `FindExpiredDelegations` has a limit
  and no sort, so the batch is any `MaxFindLimit` of the expired entries, in any
  order.
- `subscriberPc`, `page`, `pageToken` are those of `processBTCSubscriber`. The
  page is sorted by `_id`, holds copies of the documents, and its token is the
  last `_id` on it, or empty when nothing follows.
- `watchers` counts the watcher goroutines of each output, before and after
  their registration. Starting one and `AddSubscription` are one step, since
  nothing reads the set in between but the poller itself.
- `unbondingChan`, `withdrawnChan` are the channels; a push is enabled while
  there is room, which is how `PushOrQuit` waits.
- `unbondingPc`, `unbondingEvent`, `withdrawing` are the handlers' counters and
  locals. Taking an event and reading its delegation are one step: the receive
  touches only the channel, and a later read is the same step taken later. The
  read and each of the writes are separate steps.
- `Restart` loses all of it but the database and the chain. It may come at any
  point, so it also stands for a shutdown in the middle of anything.
- `...Fault` actions are the error paths. A failed write may have been applied
  before the error was reported, and may not.
- A spend is classified by its path in `SpendWatchers`; the chain says which it
  is, and `"slashing"` stands for every spend the checks reject. The checks
  themselves are in `TxClassifier`: a transaction is a record of inputs
  (outpoint, script revealed by the witness, sequence), outputs (script, value)
  and lock time; a script is named by its path. `Accepted` is what consensus
  leaves to be seen: the reported input, and no other, spends the watched output
  through a script of its tree (`revealed`). The service reads the second to last
  element of the witness, which is that script, or the control block (`"unrelated"`)
  when an annex follows. `env` holds how each call of the handler ends.
- `IsUTXOSpent` is true as well of an output that is not on the chain:
  `GetTxOut` answers nil to both.
- `DisconnectBlock` undoes the best block and the spends in it. No action of the
  service changes: watchers read `Spend` and not `Reorg`. A spend that was
  reported and not yet received is taken back with its block, as lnd does.
- In `ServiceLifecycle`, `at[g]` is what goroutine `g` stands at: its `select`, a
  database or RPC call, a push, its registration. `wg` is the counter of the
  wait group; `main` goes through `wg.Wait` in the steps of `sync.WaitGroup`,
  since an `Add` between the last `Done` and the release of the waiter panics.
  `attempts` counts the tries of an RPC call. The watcher of a staking output that
  starts one for the unbonding output calls `wg.Add(1)` for it, and its own
  deferred `wg.Done()` in a later step: until then it is in `returning` while `at`
  already has the new one, so each of `Watchers` stands for a watched output.
- `DeleteExpired` has the error of `DeleteOne` for an entry that is not there
  (`IsDeleted`). `BatchIsQueued` says that it never occurs.

## 3. The runs

| run | instance | shows |
|---|---|---|
| `safety` | one delegation, faults, one restart, channels of two | all the safety properties, the bound on unbonding entries, and the refinement of `DelegationLifecycle` |
| `three` | three delegations, one restart, one slot per channel, batches and pages of two | the inductive invariant `IInv`, the refinement and what a poll covers (`ScanCoverage`) when delegations interleave |
| `liveness` | one delegation, one restart, one slot per channel, `FairSpec` | no watcher or event of a tracked delegation is lost, and what must happen in the end |
| `scan` | three delegations, pages of two, faults | what the pages of a poll cover while documents change |
| `retry` | one delegation, faults, one restart, `RetrySpec` | what failing calls cannot prevent as long as they do not fail for ever |
| `reorg` | one delegation, one undone block, one restart, `ReorgFairSpec` | what stays true on a chain that reorganises, the refinement of `ReorgLifecycle`, and that the expiry poller goes on |
| `tx_classifier` | two inputs, two outputs, fees below, at and above the staked value | verdicts, with every combination of failing calls |
| `lifecycle` | one watcher, one slot per channel, two attempts per call, `FairSpec` | wait group and shutdown; shutdowns and polls end |
| `stuck_unbonding` | one delegation, `FairSpec` | finding 1 |
| `requested_expired` | one delegation, `FairSpec` | finding 2 |
| `dropped_withdrawal` | one delegation, `FairSpec` | finding 3 |
| `unvalidated_withdrawal` | one delegation, one restart | finding 4 |

**Bounds.** `MaxTip` bounds the chain and `MaxRestarts` the restarts;
`TimelockIds` bounds the entries that coexist, `ChanCap` is the capacity of a
channel (100 in the code), `MaxFindLimit` and `MaxPaginationLimit` are 200 and a
setting of at least 2 there.

- Staked at height 1 for 3 blocks, first seen at 2, unbonding timelock of 1
  block, chain up to 5: the unbonding transaction, its expiry, the staking
  expiry and a withdrawal fit in every order, before and after each other.
- Timelock ids: one for the staking entry, one for an unbonding entry, one for a
  second unbonding entry from the same event handled again after a restart. In
  `safety` there is one more, so that a third unbonding entry would be seen if it
  were written: `UnbondingEntriesBounded` with one restart says at most two, and
  two do occur. When no id is free, the insertion waits; that is a limit of the
  model and the proofs do not need it to be otherwise.
- A restart loses all memory, so one is enough to meet each point of the code.
- Three delegations on pages of two make a boundary that shifts. In `scan`, where
  the database may begin in any state, delegations join and leave between the two
  pages of a poll. In `three` a first page is full only when all three wait, so
  what happens between the pages is that one is withdrawn and leaves, before the
  restart or after it.
- `three` leaves out faults, and its chain grows by one block: one staking timelock
  is over at the start, one ends with that block and one goes on. Unbonding
  transactions and withdrawals share the block, so no unbonding timelock ends.
  `safety` and `retry` have those. The proofs, that of `PollMissesNothing` too,
  have all of it and no bound.
- On the chain that reorganises the staking timelock is 4 blocks, the unbonding
  timelock 2 and the chain goes up to 5, so that the undone block is less than a
  timelock, and an undone transaction has the time to be mined again at another
  height, or never. `RInv`, which is proved, has no bound on undone blocks.
- `MaxInputs`, `MaxOutputs`: a second input or output is what distinguishes the
  checks; two have every order of the watched and another input. The staked
  value is 2 and the fees 1 to 3, so the expected output is positive, zero or
  negative.
- `Watchers` bounds the outputs watched at a time, with one watcher that is about
  to return besides, and `MaxDocuments` the documents of a poll. One watcher and
  the poller fill a channel of one slot and wait for room at the same time, and the
  watcher starts and ends again and again; the proofs are for any number of
  watchers.
- `QueueDrains` is checked in `retry` and `reorg`. A fair behaviour without faults
  is one `retry` has too, so `liveness` does not repeat it.
- Deadlock is checked in the runs of the pollers: their ticks go on for ever, so
  a state with no step would be a real one. A handled spend (`TxClassifier`) and
  an ended process (`ServiceLifecycle`) do stop.

**Fairness.** Weak fairness of each goroutine: both pollers, both handlers, and
the watchers of each delegation. Tickers keep firing (`time.NewTicker` with a
positive interval, `internal/config/poller.go`), the Go scheduler runs every
runnable goroutine, and a channel with room accepts a push. Calls are assumed to
return under `FairSpec` (`FaultsAllowed = FALSE`). `RetrySpec` allows faults at
any time and assumes that a call that is made again and again is answered in the
end: strong fairness of each call of the pollers, which their next tick repeats,
and of the withdrawn handler, whose event the poller reports again. Nobody
repeats a call of a watcher or of the unbonding handler, so no more is assumed
there than that they go on. No fairness is assumed of blocks, undone or not, of
the API or of restarts.

In `ServiceLifecycle` the goroutines are weakly fair, whether their calls succeed
or fail: no RPC call need ever succeed. The `select` of a poller picks at random
among the cases that are ready (Go specification), so a poller whose context is
cancelled does not take its ticker for ever: strong fairness of `Leave`. No
fairness is assumed of spends or signals. "In the end" is written
`[]<>(cancelled => ~ Running)` there: since a signal and the end of the process
are never taken back, that is `cancelled ~> ~ Running`, and cheaper to check.
`PollEnds` has the same form: a poller is between two polls again and again.

### Findings

1. `stuck_unbonding`. The unbonding handler inserts the entry, then moves the
   delegation. If the unbonding timelock is over by the time the event is handled
   (the service was down, or the event waited), the expiry poller may take the
   entry in between, find the delegation not yet unbonding, and delete it. The
   delegation is then unbonding with no entry. It is not scanned by the
   subscriber poller in that state. README: "Identify when staking/unbonding
   timelock has expired, so delegation can be marked as Unbonded".
2. `requested_expired`. A delegation in state `unbonding_requested` whose
   unbonding transaction never appears is not unbonded by its staking entry,
   which is deleted. Its later withdrawal is dropped as well. Same line.
3. `dropped_withdrawal`. A withdrawal that is handled before the expiry poller
   marked the delegation as unbonded is dropped, and the delegation stays in
   the tracked set until a restart. README: "Identify when withdrawal tx appeared
   in BTC (...) and mark delegation as Withdrawn". `LateWithdrawalNoticed` and
   `UntrackedWithdrawalNoticed` say what does hold: a withdrawal that comes after
   the mark is noticed, and so is one of a delegation not tracked.
4. `unvalidated_withdrawal`. An unbonding output found spent by RPC is reported as
   withdrawn without a look at the spender, also after a slashing. The source
   says so in a TODO; the README says "spent through timelock path".
   `WithdrawnOnlyIfGone` says what does hold: the funds are gone.

**Limits of the properties.** Each of these is a clause in a property above, put
there because the code does not promise more:

- A registration with the notifier that fails leaves its delegation tracked
  without a watcher until a restart (a TODO in the source,
  `watch_btc_events.go:509`). `SpentOutputIsRetried` says what is retried.
- The expiry of an unbonding output counts from the first report of its
  transaction. If that block is undone, the entry stays and expires, whether or
  not the transaction is mined again: `ExpiredWasFree` counts from any height the
  transaction was once mined at. It cannot say the recorded height, which was
  tried first and which TLC refuted: the entry is written, the process restarts
  before the delegation moves, the block is undone, the transaction is mined
  again higher and reported with the new height, and the old entry expires.
- The output of an unbonding transaction that was undone is not found by
  `GetTxOut`, and after a restart the subscriber poller takes that for a spend:
  `WithdrawnWasGone` is about delegations without an unbonding transaction too.
- A transaction that reveals the unbonding script with a second input or output
  is no transfer, and `IsValidUnbondingTx` says no to it without the error its
  comment announces; it is filed as an invalid withdrawal. No event differs, and
  `ClassifiedByPath` gives it that verdict.
- With a taproot annex the second to last element of the witness is the control
  block. An unbonding transaction or a withdrawal that has one is filed with the
  invalid spends (`RecordedPath` gives it the path `"slashing"`) and moves no
  document. Nodes do not relay such transactions by default.
- The API is assumed to move active documents only, and a database to start with
  active documents (`StoreInit`); the other states come from the API and from
  earlier lives of the process (`Restart`), or are there at once in `scan`.
- The loops call `wg.Add(1)` themselves, so a loop that has not run yet when main
  calls `wg.Wait` is not waited for (variable `late`): `NoneLeftBehind` is about
  the other shutdowns.

## 4. The proofs

All for any set of delegations, heights, timelocks, limits, capacities and
numbers of restarts, with faults or without, from the assumptions named in the
modules: `ChainAssumption`, `StoreAssumption` (positive ids and limits, and ids
for the entries handed over), `ChannelAssumption`, `RestartAssumption`.

- `ExpiryCheckerTypes`: `TypeCorrect`, that is `Spec => []TypeOK`, one lemma per
  component.
- `ExpiryCheckerProofs`: `Invariant`, that is `Spec => []IInv`, and from it
  `UnbondedOnlyAfterExpiry`, `NoEarlyWithdrawal`, `StoredUnbondingTx`,
  `TimelockOfActive`, `TimelockOfUnbonding` and `BatchStaysQueued`.
- `ExpiryCheckerRefinement`: `Refinement` (`ImplementsLifecycle`) and
  `SingleWatcher` (`OneWatcherPerOutput`).
- `ExpiryCheckerHandlerProofs`: `HandledStaysEligible` (`HandledIsEligible`),
  `EntriesBounded` (`UnbondingEntriesBounded`), `PollCoversService`
  (`CoverageSpec => []PollMissesNothing`) and `NothingIsLost` (`NoSpendIsLost`).
- `SubscriberScanProofs`: `PollCoversWaiting` (`ScanCoversWaiting`).
- `ExpiryCheckerReorgProofs`: `RecordedHeights` (`RecordedWasMined`),
  `ExpiredOnce` (`ExpiredWasFree`), `ActiveKeepsTimelock` (`ActiveHasTimelock`),
  `WithdrawnOnce` (`WithdrawnWasGone`) and `ReorgRefinement`
  (`ImplementsReorgLifecycle`), for any number of undone blocks. What does not
  rest on the chain survives it: `BatchDespiteReorgs` (`BatchIsQueued`),
  `SingleWatcherDespiteReorgs` (`OneWatcherPerOutput`), `HandledDespiteReorgs`
  (`HandledIsEligible`) and `EntriesBoundedDespiteReorgs`
  (`UnbondingEntriesBounded`).
- `TxClassifierProofs`: `Classification` (`ClassifiedByPath`), `SafeWitness`
  (`NoPanic`) and `SafeFailures` (`FailuresPushNothing`), for transactions of any
  size (`ClassifierAssumption`).
- `ServiceLifecycleProofs`: `TypeCorrect`, `CounterIsExact` (`WaitGroupCounts`)
  and `NoGoroutineLeft` (`NoneLeftBehind`), for any finite set of watchers
  (`LifecycleAssumption`, `NamesAssumption`).

**Why `IInv` is more than the properties.** None of them is inductive alone.
A delegation is unbonded after its expiry because the entry that unbonds it
carries the height of a timelock on the chain (`QueueConsistent`) and the batch
holds expired entries only (`PollConsistent`). An unbonding entry has the right
height because the event has it, wherever the event is (`EventsConsistent`).
Active delegations keep their entry because by the time it is deleted the
delegation has been updated, and no state leads back to active
(`PollConsistent`). Unbonding delegations have theirs because between the two
writes it is queued, or is over already (`SavedBeforeTransition`): the second
half is finding 1 seen from the proof. That `UnbondingHasTimelock` stops at the
expiry has the same reason.

**The refinement** goes action by action: each step of the service leaves states
and unbonding heights alone, or moves one delegation in one of the ways of
`DelegationLifecycle`, with the guard of that move taken from `IInv`.

**One watcher.** `WatchersTracked` is the invariant: a delegation has at most one
watcher for both of its outputs, and only while it is tracked. Only the poller
tracks, and it starts nothing for a delegation that is; the watcher of a staking
output that starts one for the unbonding output ends in the same step.

**Handlers.** The state a handler has read can change before it writes. For an
unbonding event it does not: its delegation has left the active state for good
when a watcher is started, and from `unbonding_requested` only the handler
itself moves it. That holds of every event in the channel and of every
watcher, which is the strengthening (no delegation with either is active).

**Watchers and events.** The poller passes over what it has tracked, so until the
next restart all hangs on the one watcher it started. `NInv` follows it: a step
leaves the watcher of an output in place, or finds that output spent for good, or
moves it from the staking to the unbonding output and pushes an event in the same
step (`WatchGoesOn`). A reported unbonding goes from the channel to the handler,
which ends it only by moving the delegation (`ReportGoesOn`), because the event it
holds is of a delegation that is still requested (`HandledIsEligible`). That a
requested delegation gets the watcher of its *staking* output needs
`PageTellsRequests`: a page may be out of date, but not so that it shows a
delegation as past a request it has yet to leave. The hypothesis `~ FaultsAllowed`
is necessary (see the limits above), and so is the chain without reorganisations:
a watcher ends with a spend whose block may be undone. The liveness properties
`RequestedUnbondingNoticed` and `LateWithdrawalNoticed` rest on this invariant;
fairness is what TLC adds.

**Unbonding entries.** Nothing in the database keeps two entries of a delegation
apart, so the bound comes from the process. `TInv` gives each delegation one
ticket for an entry in each life of the process. It is held by a delegation that
is not subscribed to yet, passed to the watcher of its staking output, to the
event in the channel, to the handler that is about to save, and used up by the
insertion. `OneTicket` says that no two hold it at a time; `TicketsCounted` that
entries and ticket together are at most one per life.

**The scan.** `ScanInv`: a delegation that waited when the poll began is tracked,
or reported, or on the page in hand, or after the page's token and still in a
scanned state. The last case survives the other goroutines because documents
only join the scanned states, except for those whose withdrawal was reported.

`PollCoversService` is the same claim where the other goroutines are the real
ones, so it has to be shown that they do not take a delegation away under the
poll. `CInv` does it with `EventsCovered`: every event, in a channel or with a
handler, is of a delegation that is tracked or reported, because a watcher exists
only for a tracked one (`WatchersTracked`) and the poller itself is the other
source. So a handler moves only what the poll need not come to any more, and
whatever the API and the expiry poller do leads into the scanned states or stays
there (`ScannedStays`).

**Reorganisations.** `IInv` compares what the service holds with the chain and is
lost when a block is undone. `RInv` compares it with the history of the chain,
which only grows: each step that looks at the chain copies what the history has
already recorded. `QInv` adds what the poller holds, which looks at no chain at
all: unique entries, all of the batch queued, and no active delegation behind the
entry about to be deleted. `WInv` adds where reports of withdrawals come from: a
timelock spend the history knows, or a delegation with a recorded unbonding
transaction, which no step takes back.

The refinement of `DelegationLifecycle` does not survive, since its moves have
guards about the chain of the moment. `ReorgLifecycle` has the moves with guards
about the history, and `ReorgRefinement` maps each step of the service to one of
them: the height an event carries, and the height an entry expires from, are in
`minedAt` (`RInv`), a withdrawal is in `everGone` or has a recorded unbonding
transaction (`WInv`). The invariants of the handlers, of the watchers and of the
tickets speak of no block at all, so an undone one is a stutter for them.

**Classification.** The transaction is unbounded in the proof. `SpendShape` says
what an accepted spend looks like; each check is then decided by the script the
spending input reveals, because a one-to-one transaction has no other input.

**Shutdown.** Every step of a goroutine is one of six kinds for the wait group: it
moves, returns, begins, starts a watcher from the poller, starts the next watcher
from a watcher, or is that watcher returning. The invariant is shown for the
kinds. A goroutine that starts another is counted itself, so the counter is not
zero then; that is why no `Add` meets a waiter being released.

**Model-checked only.** The liveness properties (`FairSpec`, `RetrySpec`,
`ReorgFairSpec`), since fairness and ENABLED are beyond the prover. Every
invariant a passing run checks is proved. The violations, of course, are
counterexamples.

## 5. What is not modelled

- The bytes of scripts, keys and signatures: `TxClassifier` names a script by its
  path. `uint16(delegation.StakingTx.TimeLock)` in the rebuilding of scripts is
  out with them; the database holds timelocks that come from 16 bits.
- What the notifier does inside, its set-up and its (empty) hint cache.
- The panics a restart of the process would repeat: a document whose transaction
  does not decode, or one with an unknown timelock type, which
  `StakingTxTypeFromString` refuses and which stops every poll it is in. No
  writer of the database makes one.
- Configuration, parameter files, metrics, tracing, logging, flags, and the
  scripts, images and mocks of the repository: they hold no state the behaviour
  depends on. What the validation of the configuration guarantees (a page limit
  above 1, positive intervals and retries) is assumed of the constants.
- The rest of the Phase 1 API: only the requests that move an active delegation.

## 6. Plan

Done, in this order: states, chain, store; expiry poller; watchers, handlers and
subscriber poller; composition with its runs; abstract life and refinement;
first proofs; the scan; the classifier; the life of the process with retries and
shutdown; faults that pass; reorganisations; the proofs of all of these; the
abstract life on a chain that reorganises and its refinement; the bound on
unbonding entries; the coverage of a poll in the whole service; that nothing
tracked is lost.

Open: the coverage of a poll on a chain that reorganises (no step of the argument
looks at a block, so `CInv` should hold as it is);
a larger instance of `lifecycle`, whose cost is in the goroutines'
interleavings.
