-------------------------- MODULE ServiceLifecycle --------------------------
(***************************************************************************)
(* The goroutines of the service, from RunUntilShutdown to the end of the  *)
(* process (internal/services/service.go, cmd/staking-expiry-checker/      *)
(* main.go): how they start, what they block on, how many times they retry *)
(* an RPC call, and how a shutdown reaches them.  What they read and write *)
(* is in ExpiryChecker; here a call only succeeds or fails.                *)
(***************************************************************************)
EXTENDS Naturals, FiniteSets

CONSTANTS
    Watchers,       \* bound: watched outputs at a time
    ChanCap,        \* capacity of each event channel (100 in the code)
    MaxRetryTimes,  \* attempts of one RPC call (cfg.MaxRetryTimes)
    MaxDocuments    \* bound: documents in the pages of one poll

ASSUME LifecycleAssumption ==
    /\ IsFiniteSet(Watchers)
    /\ ChanCap \in Nat \ {0}
    /\ MaxRetryTimes \in Nat \ {0}
    /\ MaxDocuments \in Nat

VARIABLES
    main,        \* where the main goroutine is, or how the process ended
    cancelled,   \* a signal has cancelled the context
    quit,        \* the quit channel is closed
    wg,          \* counter of the wait group
    at,          \* where each of the other goroutines is
    output,      \* the output a watcher is for
    returning,   \* watchers whose predecessor has still to call wg.Done
    attempts,    \* failed attempts of the RPC call in progress
    todo,        \* documents left to the subscriber poller
    events,      \* length of each event channel
    late         \* a loop had not called wg.Add when main called wg.Wait

watcherVars == <<output, returning>>

workVars == <<watcherVars, attempts, todo, events>>

vars == <<main, cancelled, quit, wg, at, output, returning, attempts, todo,
          events, late>>

Handlers   == {"unbonding", "withdrawn"}
Loops      == {"expiry", "subscriber"} \cup Handlers
Goroutines == Loops \cup Watchers

ASSUME NamesAssumption == Loops \cap Watchers = {}

(* "asleep" is main in wg.Wait; "releasing" when the counter has reached 0 *)
(* and the waiter is not yet released; "woken" before it looks again.      *)
MainState == {"starting", "waiting", "joining", "asleep", "releasing", "woken",
              "stopping", "exited", "panicked", "failed"}

(* "none" is a goroutine that is not there (any more), "spawned" one that  *)
(* has not run yet.                                                        *)
NotCounted == {"none", "spawned"}

Place == NotCounted \cup
         {"select", "rpc", "db", "document", "register", "watch",
          "push unbonding", "push withdrawn", "hand over"}

TypeOK ==
    /\ main \in MainState
    /\ cancelled \in BOOLEAN
    /\ quit \in BOOLEAN
    /\ wg \in Nat
    /\ at \in [Goroutines -> Place]
    /\ output \in [Watchers -> {"staking", "unbonding"}]
    /\ returning \subseteq Watchers
    /\ attempts \in [Goroutines -> 0 .. MaxRetryTimes - 1]
    /\ todo \in 0 .. MaxDocuments
    /\ events \in [Handlers -> 0 .. ChanCap]
    /\ late \in BOOLEAN

Init ==
    /\ main = "starting"
    /\ cancelled = FALSE
    /\ quit = FALSE
    /\ wg = 0
    /\ at = [g \in Goroutines |-> "none"]
    /\ output = [w \in Watchers |-> "staking"]
    /\ returning = {}
    /\ attempts = [g \in Goroutines |-> 0]
    /\ todo = 0
    /\ events = [h \in Handlers |-> 0]
    /\ late = FALSE

Running == main \notin {"exited", "panicked", "failed"}

-----------------------------------------------------------------------------
(* The wait group.  An Add between the last Done and the release of the    *)
(* waiter panics, and so does a waiter that finds the counter moved.       *)

Add == /\ wg' = wg + 1
       /\ main' = IF main = "releasing" THEN "panicked" ELSE main

Done == /\ wg' = wg - 1
        /\ main' = IF main = "asleep" /\ wg = 1 THEN "releasing" ELSE main

Counted == {g \in Goroutines : at[g] \notin NotCounted}

(* g goes on at place, without a call to the wait group. *)
Go(g, place) ==
    /\ at' = [at EXCEPT ![g] = place]
    /\ UNCHANGED <<main, wg, watcherVars>>

(* The goroutine is gone; the output of a watcher that is not there is     *)
(* written "staking".                                                      *)
Gone(g) ==
    /\ at' = [at EXCEPT ![g] = "none"]
    /\ output' = [w \in Watchers |-> IF w = g THEN "staking" ELSE output[w]]
    /\ UNCHANGED returning

(* g returns and its deferred wg.Done runs. *)
Return(g) == Gone(g) /\ Done

-----------------------------------------------------------------------------
(* The main goroutine.                                                     *)

(* The configuration, the clients and the notifier are set up, and the     *)
(* four loops spawned; or one of these fails, and log.Fatal ends it.       *)
Start ==
    /\ main = "starting"
    /\ \/ /\ main' = "waiting"
          /\ at' = [g \in Goroutines |->
                       IF g \in Loops THEN "spawned" ELSE at[g]]
       \/ /\ main' = "failed"
          /\ UNCHANGED at
    /\ UNCHANGED <<cancelled, quit, wg, workVars, late>>

(* SIGINT or SIGTERM. *)
Signal ==
    /\ Running
    /\ ~ cancelled
    /\ cancelled' = TRUE
    /\ UNCHANGED <<main, quit, wg, at, workVars, late>>

CloseQuit ==
    /\ main = "waiting"
    /\ cancelled
    /\ main' = "joining"
    /\ quit' = TRUE
    /\ UNCHANGED <<cancelled, wg, at, workVars, late>>

(* wg.Wait: return at once, or sleep until the counter reaches 0. *)
Wait ==
    /\ main = "joining"
    /\ main' = IF wg = 0 THEN "stopping" ELSE "asleep"
    /\ late' = \E l \in Loops : at[l] = "spawned"
    /\ UNCHANGED <<cancelled, quit, wg, at, workVars>>

Release ==
    /\ main = "releasing"
    /\ main' = "woken"
    /\ UNCHANGED <<cancelled, quit, wg, at, workVars, late>>

Resume ==
    /\ main = "woken"
    /\ main' = IF wg = 0 THEN "stopping" ELSE "panicked"
    /\ UNCHANGED <<cancelled, quit, wg, at, workVars, late>>

(* The deferred btcNotifier.Stop; then main returns. *)
Exit ==
    /\ main = "stopping"
    /\ main' = "exited"
    /\ UNCHANGED <<cancelled, quit, wg, at, workVars, late>>

Main == Start \/ CloseQuit \/ Wait \/ Release \/ Resume \/ Exit

-----------------------------------------------------------------------------
(* The loops.                                                              *)

(* The first statement of the goroutine: wg.Add(1). *)
Begin(l) ==
    /\ Running
    /\ at[l] = "spawned"
    /\ at' = [at EXCEPT ![l] = "select"]
    /\ Add
    /\ UNCHANGED <<cancelled, quit, workVars, late>>

(* The select takes ctx.Done() or quit. *)
Leave(l) ==
    /\ Running
    /\ at[l] = "select"
    /\ cancelled \/ quit
    /\ Return(l)
    /\ UNCHANGED <<cancelled, quit, attempts, todo, events, late>>

(* The select takes the ticker: a poll begins. *)
Tick(l) ==
    /\ Running
    /\ at[l] = "select"
    /\ \/ l = "expiry" /\ Go(l, "rpc") /\ UNCHANGED todo
       \/ l = "subscriber" /\ Go(l, "db") /\ todo' \in 0 .. MaxDocuments
    /\ UNCHANGED <<cancelled, quit, attempts, events, late>>

(* The select takes an event. *)
Receive(h) ==
    /\ Running
    /\ at[h] = "select"
    /\ events[h] > 0
    /\ events' = [events EXCEPT ![h] = @ - 1]
    /\ Go(h, "db")
    /\ UNCHANGED <<cancelled, quit, attempts, todo, late>>

(* A loop whose call fails goes back to its select; a watcher returns. *)
GiveUp(g) ==
    IF g \in Loops
    THEN Go(g, "select") /\ todo' = IF g = "subscriber" THEN 0 ELSE todo
    ELSE Return(g) /\ UNCHANGED todo

(* A database call fails: a fault, the poll's timeout, or the shutdown. *)
DbFails(g) ==
    /\ Running
    /\ at[g] = "db"
    /\ GiveUp(g)
    /\ UNCHANGED <<cancelled, quit, attempts, events, late>>

(* The database calls of the expiry poller for one batch, or of a handler  *)
(* for one event, succeed; none does once the context is cancelled.        *)
DbReturns(l) ==
    /\ Running
    /\ l # "subscriber"
    /\ at[l] = "db"
    /\ ~ cancelled
    /\ Go(l, "select")
    /\ UNCHANGED <<cancelled, quit, attempts, todo, events, late>>

(* The subscriber poller has its page. *)
PageReturns ==
    /\ Running
    /\ at["subscriber"] = "db"
    /\ ~ cancelled
    /\ Go("subscriber", IF todo = 0 THEN "select" ELSE "document")
    /\ UNCHANGED <<cancelled, quit, attempts, todo, events, late>>

RpcEnds(g) == attempts' = [attempts EXCEPT ![g] = 0]

(* Faulty variant: the call is tried until it succeeds. *)
RpcFails_ForEver(g) ==
    /\ Running
    /\ at[g] = "rpc"
    /\ attempts' = [attempts EXCEPT ![g] = (@ + 1) % MaxRetryTimes]
    /\ UNCHANGED <<main, wg, at, watcherVars, cancelled, quit, todo, events,
                   late>>

(* An attempt of an RPC call fails; clientCallWithRetry tries again, up to *)
(* MaxRetryTimes attempts, and looks at no context.                        *)
RpcFails(g) ==
    /\ Running
    /\ at[g] = "rpc"
    /\ IF attempts[g] + 1 < MaxRetryTimes
       THEN /\ attempts' = [attempts EXCEPT ![g] = @ + 1]
            /\ UNCHANGED <<main, wg, at, watcherVars, todo>>
       ELSE GiveUp(g) /\ RpcEnds(g)
    /\ UNCHANGED <<cancelled, quit, events, late>>

(* GetBlockCount returns to the expiry poller. *)
TipReturns ==
    /\ Running
    /\ at["expiry"] = "rpc"
    /\ Go("expiry", "db")
    /\ RpcEnds("expiry")
    /\ UNCHANGED <<cancelled, quit, todo, events, late>>

-----------------------------------------------------------------------------
(* The documents of the subscriber poller.                                 *)

(* Where the poller goes after a document: the next one, on this page or   *)
(* after a query for another, or the end of the poll.                      *)
AfterDocument ==
    IF todo = 1 THEN {"select"} ELSE {"document", "db"}

DocumentDone == todo' = todo - 1

Skip ==
    /\ Running
    /\ at["subscriber"] = "document"
    /\ \E place \in AfterDocument : Go("subscriber", place)
    /\ DocumentDone
    /\ UNCHANGED <<cancelled, quit, attempts, events, late>>

CheckOutput ==
    /\ Running
    /\ at["subscriber"] = "document"
    /\ Go("subscriber", "rpc")
    /\ UNCHANGED <<cancelled, quit, attempts, todo, events, late>>

(* IsUTXOSpent returns true. *)
FoundSpent ==
    /\ Running
    /\ at["subscriber"] = "rpc"
    /\ Go("subscriber", "push withdrawn")
    /\ RpcEnds("subscriber")
    /\ UNCHANGED <<cancelled, quit, todo, events, late>>

(* Faulty variant: the new goroutine counts itself. *)
StartWatcher_CountsItself(w) ==
    /\ Running
    /\ at["subscriber"] \in {"document", "rpc"}
    /\ at[w] = "none" /\ w \notin returning
    /\ \E place \in AfterDocument :
          at' = [at EXCEPT !["subscriber"] = place, ![w] = "register"]
    /\ output' = [output EXCEPT ![w] = IF at["subscriber"] = "rpc"
                                       THEN "unbonding" ELSE "staking"]
    /\ DocumentDone
    /\ RpcEnds("subscriber")
    /\ UNCHANGED <<main, wg, returning, cancelled, quit, events, late>>

(* registerStakingSpendNotification, or after IsUTXOSpent has returned     *)
(* false registerUnbondingSpendNotification: the poller counts the         *)
(* goroutine before it starts.                                             *)
StartWatcher(w) ==
    /\ Running
    /\ at["subscriber"] \in {"document", "rpc"}
    /\ at[w] = "none" /\ w \notin returning
    /\ \E place \in AfterDocument :
          at' = [at EXCEPT !["subscriber"] = place, ![w] = "register"]
    /\ output' = [output EXCEPT ![w] = IF at["subscriber"] = "rpc"
                                       THEN "unbonding" ELSE "staking"]
    /\ DocumentDone
    /\ RpcEnds("subscriber")
    /\ Add
    /\ UNCHANGED <<returning, cancelled, quit, events, late>>

-----------------------------------------------------------------------------
(* Pushes, by the subscriber poller and by watchers.                       *)

(* Faulty variant: the sender does not look at the quit channel. *)
Pushed_NoQuit(h) ==
    /\ events[h] < ChanCap
    /\ events' = [events EXCEPT ![h] = @ + 1]

(* Faulty variant: the channel has no capacity. *)
Pushed_Unbounded(h) ==
    \/ events' = [events EXCEPT ![h] = @ + 1]
    \/ quit /\ UNCHANGED events

(* PushOrQuit: into the channel, or dropped once quit is closed. *)
Pushed(h) ==
    \/ /\ events[h] < ChanCap
       /\ events' = [events EXCEPT ![h] = @ + 1]
    \/ quit /\ UNCHANGED events

ReportSpent ==
    /\ Running
    /\ at["subscriber"] = "push withdrawn"
    /\ Pushed("withdrawn")
    /\ \E place \in AfterDocument : Go("subscriber", place)
    /\ DocumentDone
    /\ UNCHANGED <<cancelled, quit, attempts, late>>

PushWithdrawn(w) ==
    /\ Running
    /\ at[w] = "push withdrawn"
    /\ Pushed("withdrawn")
    /\ Return(w)
    /\ UNCHANGED <<cancelled, quit, attempts, todo, late>>

(* The watcher of a staking output pushes the event, and goes on also when *)
(* the push ended with quit.                                               *)
PushUnbonding(w) ==
    /\ Running
    /\ at[w] = "push unbonding"
    /\ Pushed("unbonding")
    /\ Go(w, "hand over")
    /\ UNCHANGED <<cancelled, quit, attempts, todo, late>>

(* Faulty variant: the new goroutine is not counted. *)
StartUnbondingWatcher_NotCounted(w) ==
    /\ Running
    /\ at[w] = "hand over"
    /\ w \notin returning
    /\ at' = [at EXCEPT ![w] = "register"]
    /\ output' = [output EXCEPT ![w] = "unbonding"]
    /\ returning' = returning \cup {w}
    /\ UNCHANGED <<main, wg, cancelled, quit, attempts, todo, events, late>>

(* It starts the watcher of the unbonding output, which takes its place,   *)
(* with wg.Add before the new goroutine and its own wg.Done.  (Bound: one  *)
(* predecessor at a time.)                                                 *)
StartUnbondingWatcher(w) ==
    /\ Running
    /\ at[w] = "hand over"
    /\ w \notin returning
    /\ at' = [at EXCEPT ![w] = "register"]
    /\ output' = [output EXCEPT ![w] = "unbonding"]
    /\ returning' = returning \cup {w}
    /\ Add
    /\ UNCHANGED <<cancelled, quit, attempts, todo, events, late>>

(* The watcher of the staking output returns. *)
PredecessorReturns(w) ==
    /\ Running
    /\ w \in returning
    /\ returning' = returning \ {w}
    /\ Done
    /\ UNCHANGED <<cancelled, quit, at, output, attempts, todo, events, late>>

-----------------------------------------------------------------------------
(* The watchers.                                                           *)

(* RegisterSpendNtfn returns, possibly with an error. *)
Register(w) ==
    /\ Running
    /\ at[w] = "register"
    /\ Go(w, "watch") \/ Return(w)
    /\ UNCHANGED <<cancelled, quit, attempts, todo, events, late>>

(* The notifier reports the spend. *)
SpendReported(w) ==
    /\ Running
    /\ at[w] = "watch"
    /\ Go(w, "db")
    /\ UNCHANGED <<cancelled, quit, attempts, todo, events, late>>

WatchQuits(w) ==
    /\ Running
    /\ at[w] = "watch"
    /\ quit
    /\ Return(w)
    /\ UNCHANGED <<cancelled, quit, attempts, todo, events, late>>

(* The delegation is read under context.Background(), so also during a     *)
(* shutdown.  The spend is a withdrawal, an unbonding transaction, whose   *)
(* block's timestamp is asked for, or neither.                             *)
Judge(w) ==
    /\ Running
    /\ at[w] = "db"
    /\ \/ Go(w, "push withdrawn")
       \/ output[w] = "staking" /\ Go(w, "rpc")
       \/ Return(w)
    /\ UNCHANGED <<cancelled, quit, attempts, todo, events, late>>

TimestampReturns(w) ==
    /\ Running
    /\ at[w] = "rpc"
    /\ Go(w, "push unbonding")
    /\ RpcEnds(w)
    /\ UNCHANGED <<cancelled, quit, todo, events, late>>

-----------------------------------------------------------------------------

LoopStep(l) ==
    \/ Begin(l)
    \/ Leave(l)
    \/ Tick(l)
    \/ l \in Handlers /\ Receive(l)
    \/ DbFails(l)
    \/ DbReturns(l)
    \/ RpcFails(l)
    \/ l = "expiry" /\ TipReturns
    \/ l = "subscriber" /\ (PageReturns \/ Skip \/ CheckOutput \/ FoundSpent
                              \/ ReportSpent
                              \/ \E w \in Watchers : StartWatcher(w))

WatcherWork(w) ==
    \/ Register(w)
    \/ WatchQuits(w)
    \/ Judge(w)
    \/ DbFails(w)
    \/ RpcFails(w)
    \/ TimestampReturns(w)
    \/ PushWithdrawn(w)
    \/ PushUnbonding(w)
    \/ StartUnbondingWatcher(w)
    \/ PredecessorReturns(w)

Next ==
    \/ Main
    \/ Signal
    \/ \E l \in Loops : LoopStep(l)
    \/ \E w \in Watchers : WatcherWork(w) \/ SpendReported(w)

Spec == Init /\ [][Next]_vars

(* Goroutines run, tickers tick, and calls return with a result or an      *)
(* error.  The select of a poller chooses at random among the cases that   *)
(* are ready, so it does not take the ticker for ever.                     *)
Fairness ==
    /\ WF_vars(Main)
    /\ \A l \in Loops : WF_vars(LoopStep(l))
    /\ \A l \in {"expiry", "subscriber"} : SF_vars(Leave(l))
    /\ \A w \in Watchers : WF_vars(WatcherWork(w))

FairSpec == Spec /\ Fairness

-----------------------------------------------------------------------------

(* The counter of the wait group is the number of goroutines that have     *)
(* been counted and have not returned, also while a watcher of a staking   *)
(* output and the one it has started overlap.                              *)
WaitGroupCounts == wg = Cardinality(Counted) + Cardinality(returning)

(* Once wg.Wait has returned no goroutine is left, and wg.Wait does not    *)
(* panic, provided that the four loops had counted themselves when it was  *)
(* called: watchers that are started during the shutdown, by the poller or *)
(* by other watchers, are waited for, with the reads they make without the *)
(* cancelled context.                                                      *)
NoneLeftBehind ==
    (~ late /\ main \in {"stopping", "exited", "panicked"}) =>
        /\ main # "panicked"
        /\ \A g \in Goroutines : at[g] = "none"
        /\ returning = {}

(* A shutdown completes from every state: no loop goes on ticking, no      *)
(* sender waits for a handler that has returned, and no call is retried    *)
(* for ever, even if no RPC call succeeds any more.  (A signal is never    *)
(* taken back.)                                                            *)
ShutdownCompletes == []<>(cancelled => ~ Running)

(* No poll goes on for ever, whether its calls succeed or not. *)
PollEnds ==
    \A l \in {"expiry", "subscriber"} :
        []<>(at[l] \in {"rpc", "db", "document", "push withdrawn"}
                => ~ Running)

=============================================================================
