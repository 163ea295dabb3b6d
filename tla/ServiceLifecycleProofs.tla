----------------------- MODULE ServiceLifecycleProofs -----------------------
(***************************************************************************)
(* The wait group of the service, for any number of watchers, any capacity *)
(* of the channels and any number of retries.  Every step of a goroutine   *)
(* other than main is one of six kinds as far as the wait group goes; the  *)
(* invariant is shown for the kinds.                                       *)
(***************************************************************************)
EXTENDS ServiceLifecycle, FiniteSetTheorems, TLAPS

-----------------------------------------------------------------------------
(* The invariant.                                                          *)

AllGone ==
    /\ \A g \in Goroutines : at[g] = "none"
    /\ returning = {}

(* Watchers are counted before they run. *)
OnlyLoopsSpawned == \A w \in Watchers : at[w] # "spawned"

Joined == main \in {"asleep", "releasing", "woken", "stopping", "exited", "panicked"}

(* Unless a loop was late, no goroutine is uncounted while main waits, and *)
(* none is left when it goes on.                                           *)
OnTime ==
    ~ late =>
        /\ Joined => \A l \in Loops : at[l] # "spawned"
        /\ main \in {"releasing", "woken", "stopping", "exited"} => AllGone
        /\ main # "panicked"

(* The subscriber poller has a document in hand, or none is left to it. *)
DocumentInHand ==
    at["subscriber"] \in {"document", "rpc", "push withdrawn"} => todo > 0

NotStarted == main \in {"starting", "failed"} => AllGone

IInv ==
    /\ TypeOK
    /\ WaitGroupCounts
    /\ OnlyLoopsSpawned
    /\ OnTime
    /\ NotStarted
    /\ DocumentInHand

-----------------------------------------------------------------------------
(* The kinds of steps.                                                     *)

(* Places change, but no goroutine starts or returns. *)
Moved ==
    /\ at' \in [Goroutines -> Place]
    /\ \A g \in Goroutines :
          at[g] \in NotCounted \/ at'[g] \in NotCounted => at'[g] = at[g]
    /\ UNCHANGED <<main, wg, watcherVars, late>>

Returned(g) ==
    /\ at[g] \notin NotCounted
    /\ Return(g)
    /\ UNCHANGED late

Begun(l) ==
    /\ at[l] = "spawned"
    /\ at' = [at EXCEPT ![l] = "select"]
    /\ Add
    /\ UNCHANGED <<watcherVars, late>>

(* The subscriber poller starts the watcher w. *)
Launched(w) ==
    /\ at["subscriber"] \notin NotCounted
    /\ at[w] = "none"
    /\ \E place \in Place \ NotCounted :
          at' = [at EXCEPT !["subscriber"] = place, ![w] = "register"]
    /\ \E kind \in {"staking", "unbonding"} :
          output' = [output EXCEPT ![w] = kind]
    /\ Add
    /\ UNCHANGED <<returning, late>>

(* A watcher starts the one that takes its place. *)
HandedOver(w) ==
    /\ at[w] = "hand over"
    /\ w \notin returning
    /\ at' = [at EXCEPT ![w] = "register"]
    /\ output' = [output EXCEPT ![w] = "unbonding"]
    /\ returning' = returning \cup {w}
    /\ Add
    /\ UNCHANGED late

(* It returns itself. *)
Left(w) ==
    /\ w \in returning
    /\ returning' = returning \ {w}
    /\ Done
    /\ UNCHANGED <<at, output, late>>

Kinds ==
    \/ Moved
    \/ \E g \in Goroutines : Returned(g)
    \/ \E l \in Loops : Begun(l)
    \/ \E w \in Watchers : Launched(w) \/ HandedOver(w) \/ Left(w)

(* The variables the wait group has nothing to do with. *)
RestOK ==
    /\ cancelled \in BOOLEAN
    /\ quit \in BOOLEAN
    /\ attempts \in [Goroutines -> 0 .. MaxRetryTimes - 1]
    /\ todo \in 0 .. MaxDocuments
    /\ events \in [Handlers -> 0 .. ChanCap]

(* A goroutine that is counted goes on to a place where it still is. *)
LEMMA GoMoves ==
    ASSUME TypeOK, NEW g \in Goroutines, at[g] \notin NotCounted,
           NEW place \in Place \ NotCounted, Go(g, place), late' = late
    PROVE  Moved
BY DEF TypeOK, Go, Moved

LEMMA GiveUpKinds ==
    ASSUME TypeOK, NEW g \in Goroutines, at[g] \notin NotCounted,
           GiveUp(g), late' = late
    PROVE  /\ Moved \/ Returned(g)
           /\ todo' \in 0 .. MaxDocuments
<1>1. CASE g \in Loops
  <2>1. Go(g, "select") /\ "select" \in Place \ NotCounted
    BY <1>1 DEF GiveUp, Place, NotCounted
  <2>2. todo' \in 0 .. MaxDocuments
    BY <1>1, LifecycleAssumption DEF GiveUp, TypeOK
  <2> QED
    BY <2>1, <2>2, GoMoves
<1>2. CASE g \notin Loops
  BY <1>2 DEF GiveUp, Returned, TypeOK
<1> QED
  BY <1>1, <1>2

LEMMA SubscriberIsLoop ==
    /\ "subscriber" \in Loops /\ "expiry" \in Loops
    /\ Handlers \subseteq Loops
    /\ Loops \subseteq Goroutines /\ Watchers \subseteq Goroutines
    /\ "unbonding" \in Handlers /\ "withdrawn" \in Handlers
BY DEF Loops, Handlers, Goroutines

LEMMA AttemptsReset ==
    ASSUME TypeOK, NEW g \in Goroutines, RpcEnds(g)
    PROVE  attempts' \in [Goroutines -> 0 .. MaxRetryTimes - 1]
BY LifecycleAssumption DEF TypeOK, RpcEnds

LEMMA PushedType ==
    ASSUME TypeOK, NEW h \in Handlers, Pushed(h)
    PROVE  events' \in [Handlers -> 0 .. ChanCap]
<1>1. events \in [Handlers -> 0 .. ChanCap]
  BY DEF TypeOK
<1>2. CASE UNCHANGED events
  BY <1>1, <1>2
<1>3. CASE events[h] < ChanCap /\ events' = [events EXCEPT ![h] = @ + 1]
  <2>1. events[h] + 1 \in 0 .. ChanCap
    BY <1>1, <1>3, LifecycleAssumption
  <2> QED
    BY <1>1, <1>3, <2>1
<1> QED
  BY <1>2, <1>3 DEF Pushed

(* Where the poller goes after a document, and what is left to do. *)
LEMMA NextDocument ==
    ASSUME TypeOK, todo > 0
    PROVE  /\ AfterDocument \subseteq Place \ NotCounted
           /\ DocumentDone => todo' \in 0 .. MaxDocuments
           /\ DocumentDone /\ at'["subscriber"] \in AfterDocument => DocumentInHand'
<1>1. AfterDocument \subseteq Place \ NotCounted
  BY DEF AfterDocument, Place, NotCounted
<1>2. todo \in 0 .. MaxDocuments /\ MaxDocuments \in Nat
  BY LifecycleAssumption DEF TypeOK
<1>3. ASSUME DocumentDone PROVE todo' \in 0 .. MaxDocuments
  BY <1>2, <1>3 DEF DocumentDone
<1>4. ASSUME DocumentDone, at'["subscriber"] \in AfterDocument
      PROVE  DocumentInHand'
  <2>1. CASE todo = 1
    BY <1>4, <2>1 DEF AfterDocument, DocumentInHand
  <2>2. CASE todo # 1
    <3>1. todo - 1 > 0
      BY <1>2, <2>2
    <3> QED
      BY <1>4, <3>1 DEF DocumentDone, DocumentInHand
  <2> QED
    BY <2>1, <2>2
<1> QED
  BY <1>1, <1>3, <1>4

(* Each step of a loop is of one of the kinds and keeps the types. *)
LEMMA LoopKinds ==
    ASSUME TypeOK, DocumentInHand, NEW l \in Loops, LoopStep(l)
    PROVE  Kinds /\ RestOK' /\ DocumentInHand'
<1> USE SubscriberIsLoop
<1>1. CASE Begin(l)
  <2>1. Begun(l)
    BY <1>1 DEF Begin, Begun, workVars
  <2>2. RestOK'
    BY <1>1 DEF Begin, TypeOK, RestOK, workVars
  <2>3. DocumentInHand'
    BY <1>1 DEF Begin, DocumentInHand, TypeOK, workVars
  <2> QED
    BY <2>1, <2>2, <2>3 DEF Kinds
<1>2. CASE Leave(l)
  <2>1. Returned(l)
    BY <1>2 DEF Leave, Returned, NotCounted
  <2>2. RestOK'
    BY <1>2 DEF Leave, TypeOK, RestOK
  <2>3. DocumentInHand'
    BY <1>2 DEF Leave, Return, Gone, DocumentInHand, TypeOK
  <2> QED
    BY <2>1, <2>2, <2>3 DEF Kinds
<1>3. CASE Tick(l)
  <2>1. Moved
    <3>1. at[l] \notin NotCounted /\ late' = late
      BY <1>3 DEF Tick, NotCounted
    <3>2. PICK place \in {"rpc", "db"} : Go(l, place)
      BY <1>3 DEF Tick
    <3>3. place \in Place \ NotCounted
      BY DEF Place, NotCounted
    <3> QED
      BY <3>1, <3>2, <3>3, GoMoves
  <2>2. RestOK'
    BY <1>3 DEF Tick, TypeOK, RestOK
  <2>3. DocumentInHand'
    BY <1>3 DEF Tick, Go, DocumentInHand, TypeOK
  <2> QED
    BY <2>1, <2>2, <2>3 DEF Kinds
<1>4. CASE l \in Handlers /\ Receive(l)
  <2>1. Moved
    <3>1. at[l] \notin NotCounted /\ late' = late
      BY <1>4 DEF Receive, NotCounted
    <3>2. Go(l, "db") /\ "db" \in Place \ NotCounted
      BY <1>4 DEF Receive, Place, NotCounted
    <3> QED
      BY <3>1, <3>2, GoMoves
  <2>2. events' \in [Handlers -> 0 .. ChanCap]
    <3>1. events \in [Handlers -> 0 .. ChanCap] /\ ChanCap \in Nat
      BY LifecycleAssumption DEF TypeOK
    <3>2. events[l] - 1 \in 0 .. ChanCap
      BY <1>4, <3>1 DEF Receive
    <3> QED
      BY <1>4, <3>1, <3>2 DEF Receive
  <2>3. RestOK'
    BY <1>4, <2>2 DEF Receive, TypeOK, RestOK
  <2>4. DocumentInHand'
    BY <1>4 DEF Receive, Go, DocumentInHand, TypeOK, Handlers
  <2> QED
    BY <2>1, <2>3, <2>4 DEF Kinds
<1>5. CASE DbFails(l)
  <2>1. (Moved \/ Returned(l)) /\ todo' \in 0 .. MaxDocuments
    BY <1>5, GiveUpKinds DEF DbFails, NotCounted
  <2>2. RestOK'
    BY <1>5, <2>1 DEF DbFails, TypeOK, RestOK
  <2>3. DocumentInHand'
    BY <1>5 DEF DbFails, GiveUp, Go, DocumentInHand, TypeOK
  <2> QED
    BY <2>1, <2>2, <2>3 DEF Kinds
<1>6. CASE DbReturns(l)
  <2>1. Moved
    <3>1. at[l] \notin NotCounted /\ late' = late
      BY <1>6 DEF DbReturns, NotCounted
    <3>2. Go(l, "select") /\ "select" \in Place \ NotCounted
      BY <1>6 DEF DbReturns, Place, NotCounted
    <3> QED
      BY <3>1, <3>2, GoMoves
  <2>2. RestOK'
    BY <1>6 DEF DbReturns, TypeOK, RestOK
  <2>3. DocumentInHand'
    BY <1>6 DEF DbReturns, Go, DocumentInHand, TypeOK
  <2> QED
    BY <2>1, <2>2, <2>3 DEF Kinds
<1>7. CASE RpcFails(l)
  <2>1. CASE attempts[l] + 1 < MaxRetryTimes
    <3>1. /\ attempts' = [attempts EXCEPT ![l] = @ + 1]
          /\ UNCHANGED <<main, wg, at, todo, late, cancelled, quit,
                         watcherVars, events>>
      BY <1>7, <2>1 DEF RpcFails
    <3>2. attempts' \in [Goroutines -> 0 .. MaxRetryTimes - 1]
      <4>1. attempts[l] \in 0 .. MaxRetryTimes - 1 /\ MaxRetryTimes \in Nat
        BY LifecycleAssumption DEF TypeOK
      <4>2. attempts[l] + 1 \in 0 .. MaxRetryTimes - 1
        BY <2>1, <4>1
      <4> QED
        BY <3>1, <4>2 DEF TypeOK
    <3>3. Moved
      BY <3>1 DEF Moved, TypeOK
    <3>4. RestOK'
      BY <3>1, <3>2 DEF TypeOK, RestOK
    <3>5. DocumentInHand'
      BY <3>1 DEF DocumentInHand
    <3> QED
      BY <3>3, <3>4, <3>5 DEF Kinds
  <2>2. CASE ~ (attempts[l] + 1 < MaxRetryTimes)
    <3>1. (Moved \/ Returned(l)) /\ todo' \in 0 .. MaxDocuments
      BY <1>7, <2>2, GiveUpKinds DEF RpcFails, NotCounted
    <3>2. RestOK'
      BY <1>7, <2>2, <3>1, AttemptsReset DEF RpcFails, TypeOK, RestOK
    <3>3. DocumentInHand'
      BY <1>7, <2>2 DEF RpcFails, GiveUp, Go, DocumentInHand, TypeOK
    <3> QED
      BY <3>1, <3>2, <3>3 DEF Kinds
  <2> QED
    BY <2>1, <2>2
<1>8. CASE l = "expiry" /\ TipReturns
  <2>1. Moved
    <3>1. at["expiry"] \notin NotCounted /\ late' = late
      BY <1>8 DEF TipReturns, NotCounted
    <3>2. Go("expiry", "db") /\ "db" \in Place \ NotCounted
      BY <1>8 DEF TipReturns, Place, NotCounted
    <3> QED
      BY <3>1, <3>2, GoMoves
  <2>2. RestOK'
    BY <1>8, AttemptsReset DEF TipReturns, TypeOK, RestOK
  <2>3. DocumentInHand'
    BY <1>8 DEF TipReturns, Go, DocumentInHand, TypeOK
  <2> QED
    BY <2>1, <2>2, <2>3 DEF Kinds
<1>9. CASE l = "subscriber" /\ PageReturns
  <2>1. Moved
    <3>1. at["subscriber"] \notin NotCounted /\ late' = late
      BY <1>9 DEF PageReturns, NotCounted
    <3>2. PICK place \in {"select", "document"} : Go("subscriber", place)
      BY <1>9 DEF PageReturns
    <3>3. place \in Place \ NotCounted
      BY DEF Place, NotCounted
    <3> QED
      BY <3>1, <3>2, <3>3, GoMoves
  <2>2. RestOK'
    BY <1>9 DEF PageReturns, TypeOK, RestOK
  <2>3. DocumentInHand'
    <3>1. todo \in Nat /\ todo' = todo
      BY <1>9, LifecycleAssumption DEF PageReturns, TypeOK
    <3>2. at'["subscriber"] = IF todo = 0 THEN "select" ELSE "document"
      BY <1>9 DEF PageReturns, Go, TypeOK
    <3>3. CASE todo = 0
      BY <3>2, <3>3 DEF DocumentInHand
    <3>4. CASE todo # 0
      <4>1. todo' > 0
        BY <3>1, <3>4
      <4> QED
        BY <4>1 DEF DocumentInHand
    <3> QED
      BY <3>3, <3>4
  <2> QED
    BY <2>1, <2>2, <2>3 DEF Kinds
<1>10. CASE l = "subscriber" /\ Skip
  <2>1. todo > 0
    BY <1>10 DEF Skip, DocumentInHand
  <2>2. Moved
    <3>1. at["subscriber"] \notin NotCounted /\ late' = late
      BY <1>10 DEF Skip, NotCounted
    <3>2. PICK place \in AfterDocument : Go("subscriber", place)
      BY <1>10 DEF Skip
    <3> QED
      BY <2>1, <3>1, <3>2, NextDocument, GoMoves
  <2>3. RestOK'
    BY <1>10, <2>1, NextDocument DEF Skip, TypeOK, RestOK
  <2>4. DocumentInHand'
    <3>1. DocumentDone /\ at'["subscriber"] \in AfterDocument
      BY <1>10 DEF Skip, Go, TypeOK
    <3> QED
      BY <2>1, <3>1, NextDocument
  <2> QED
    BY <2>2, <2>3, <2>4 DEF Kinds
<1>11. CASE l = "subscriber" /\ CheckOutput
  <2>1. Moved
    <3>1. at["subscriber"] \notin NotCounted /\ late' = late
      BY <1>11 DEF CheckOutput, NotCounted
    <3>2. Go("subscriber", "rpc") /\ "rpc" \in Place \ NotCounted
      BY <1>11 DEF CheckOutput, Place, NotCounted
    <3> QED
      BY <3>1, <3>2, GoMoves
  <2>2. RestOK'
    BY <1>11 DEF CheckOutput, TypeOK, RestOK
  <2>3. DocumentInHand'
    BY <1>11 DEF CheckOutput, Go, DocumentInHand, TypeOK
  <2> QED
    BY <2>1, <2>2, <2>3 DEF Kinds
<1>12. CASE l = "subscriber" /\ FoundSpent
  <2>1. Moved
    <3>1. at["subscriber"] \notin NotCounted /\ late' = late
      BY <1>12 DEF FoundSpent, NotCounted
    <3>2. Go("subscriber", "push withdrawn") /\ "push withdrawn" \in Place \ NotCounted
      BY <1>12 DEF FoundSpent, Place, NotCounted
    <3> QED
      BY <3>1, <3>2, GoMoves
  <2>2. RestOK'
    BY <1>12, AttemptsReset DEF FoundSpent, TypeOK, RestOK
  <2>3. DocumentInHand'
    BY <1>12 DEF FoundSpent, Go, DocumentInHand, TypeOK
  <2> QED
    BY <2>1, <2>2, <2>3 DEF Kinds
<1>13. CASE l = "subscriber" /\ ReportSpent
  <2>1. todo > 0
    BY <1>13 DEF ReportSpent, DocumentInHand
  <2>2. Moved
    <3>1. at["subscriber"] \notin NotCounted /\ late' = late
      BY <1>13 DEF ReportSpent, NotCounted
    <3>2. PICK place \in AfterDocument : Go("subscriber", place)
      BY <1>13 DEF ReportSpent
    <3> QED
      BY <2>1, <3>1, <3>2, NextDocument, GoMoves
  <2>3. RestOK'
    BY <1>13, <2>1, NextDocument, PushedType DEF ReportSpent, TypeOK, RestOK
  <2>4. DocumentInHand'
    <3>1. DocumentDone /\ at'["subscriber"] \in AfterDocument
      BY <1>13 DEF ReportSpent, Go, TypeOK
    <3> QED
      BY <2>1, <3>1, NextDocument
  <2> QED
    BY <2>2, <2>3, <2>4 DEF Kinds
<1>14. CASE l = "subscriber" /\ \E w \in Watchers : StartWatcher(w)
  <2>1. PICK w \in Watchers : StartWatcher(w)
    BY <1>14
  <2>2. todo > 0
    BY <2>1 DEF StartWatcher, DocumentInHand
  <2>3. PICK place \in AfterDocument :
            at' = [at EXCEPT !["subscriber"] = place, ![w] = "register"]
    BY <2>1 DEF StartWatcher
  <2>4. Launched(w)
    BY <2>1, <2>2, <2>3, NextDocument DEF StartWatcher, Launched, NotCounted
  <2>5. RestOK'
    BY <2>1, <2>2, NextDocument, AttemptsReset DEF StartWatcher, TypeOK, RestOK
  <2>6. DocumentInHand'
    <3>1. at'["subscriber"] = place
      BY <2>3, NamesAssumption DEF TypeOK
    <3> QED
      BY <2>1, <2>2, <3>1, NextDocument DEF StartWatcher
  <2> QED
    BY <2>4, <2>5, <2>6 DEF Kinds
<1> QED
  BY <1>1, <1>2, <1>3, <1>4, <1>5, <1>6, <1>7, <1>8, <1>9, <1>10, <1>11,
     <1>12, <1>13, <1>14 DEF LoopStep

(* A watcher is none of the loops. *)
LEMMA WatcherIsNoLoop ==
    ASSUME NEW w \in Watchers
    PROVE  w \notin Loops /\ w # "subscriber" /\ w \in Goroutines
BY NamesAssumption, SubscriberIsLoop

(* What a watcher's step leaves alone. *)
LEMMA OthersInHand ==
    ASSUME TypeOK, DocumentInHand, NEW w \in Watchers,
           (\E place : at' = [at EXCEPT ![w] = place]) \/ at' = at, todo' = todo
    PROVE  DocumentInHand'
BY WatcherIsNoLoop, SubscriberIsLoop DEF DocumentInHand, TypeOK

LEMMA WatcherKinds ==
    ASSUME TypeOK, DocumentInHand, NEW w \in Watchers,
           WatcherWork(w) \/ SpendReported(w)
    PROVE  Kinds /\ RestOK' /\ DocumentInHand'
<1> USE WatcherIsNoLoop, SubscriberIsLoop
<1>1. CASE Register(w)
  <2>1. Moved \/ Returned(w)
    <3>1. at[w] \notin NotCounted /\ late' = late
      BY <1>1 DEF Register, NotCounted
    <3>2. CASE Go(w, "watch")
      BY <3>1, <3>2, GoMoves DEF Place, NotCounted
    <3>3. CASE Return(w)
      BY <3>1, <3>3 DEF Returned
    <3> QED
      BY <1>1, <3>2, <3>3 DEF Register
  <2>2. RestOK'
    BY <1>1 DEF Register, TypeOK, RestOK
  <2>3. DocumentInHand'
    BY <1>1, OthersInHand DEF Register, Go, Return, Gone
  <2> QED
    BY <2>1, <2>2, <2>3 DEF Kinds
<1>2. CASE WatchQuits(w)
  <2>1. Returned(w)
    BY <1>2 DEF WatchQuits, Returned, NotCounted
  <2>2. RestOK'
    BY <1>2 DEF WatchQuits, TypeOK, RestOK
  <2>3. DocumentInHand'
    BY <1>2, OthersInHand DEF WatchQuits, Return, Gone
  <2> QED
    BY <2>1, <2>2, <2>3 DEF Kinds
<1>3. CASE Judge(w)
  <2>1. Moved \/ Returned(w)
    <3>1. at[w] \notin NotCounted /\ late' = late
      BY <1>3 DEF Judge, NotCounted
    <3>2. ASSUME NEW place \in {"push withdrawn", "rpc"}, Go(w, place)
          PROVE  Moved
      BY <3>1, <3>2, GoMoves DEF Place, NotCounted
    <3>3. CASE Return(w)
      BY <3>1, <3>3 DEF Returned
    <3> QED
      BY <1>3, <3>2, <3>3 DEF Judge
  <2>2. RestOK'
    BY <1>3 DEF Judge, TypeOK, RestOK
  <2>3. DocumentInHand'
    BY <1>3, OthersInHand DEF Judge, Go, Return, Gone
  <2> QED
    BY <2>1, <2>2, <2>3 DEF Kinds
<1>4. CASE DbFails(w)
  <2>1. (Moved \/ Returned(w)) /\ todo' \in 0 .. MaxDocuments
    BY <1>4, GiveUpKinds DEF DbFails, NotCounted
  <2>2. RestOK'
    BY <1>4, <2>1 DEF DbFails, TypeOK, RestOK
  <2>3. DocumentInHand'
    BY <1>4, OthersInHand DEF DbFails, GiveUp, Return, Gone
  <2> QED
    BY <2>1, <2>2, <2>3 DEF Kinds
<1>5. CASE RpcFails(w)
  <2>1. CASE attempts[w] + 1 < MaxRetryTimes
    <3>1. /\ attempts' = [attempts EXCEPT ![w] = @ + 1]
          /\ UNCHANGED <<main, wg, at, todo, late, cancelled, quit,
                         watcherVars, events>>
      BY <1>5, <2>1 DEF RpcFails
    <3>2. attempts' \in [Goroutines -> 0 .. MaxRetryTimes - 1]
      <4>1. attempts[w] \in 0 .. MaxRetryTimes - 1 /\ MaxRetryTimes \in Nat
        BY LifecycleAssumption DEF TypeOK
      <4>2. attempts[w] + 1 \in 0 .. MaxRetryTimes - 1
        BY <2>1, <4>1
      <4> QED
        BY <3>1, <4>2 DEF TypeOK
    <3>3. Moved
      BY <3>1 DEF Moved, TypeOK
    <3>4. RestOK'
      BY <3>1, <3>2 DEF TypeOK, RestOK
    <3>5. DocumentInHand'
      BY <3>1 DEF DocumentInHand
    <3> QED
      BY <3>3, <3>4, <3>5 DEF Kinds
  <2>2. CASE ~ (attempts[w] + 1 < MaxRetryTimes)
    <3>1. (Moved \/ Returned(w)) /\ todo' \in 0 .. MaxDocuments
      BY <1>5, <2>2, GiveUpKinds DEF RpcFails, NotCounted
    <3>2. RestOK'
      BY <1>5, <2>2, <3>1, AttemptsReset DEF RpcFails, TypeOK, RestOK
    <3>3. DocumentInHand'
      BY <1>5, <2>2, OthersInHand DEF RpcFails, GiveUp, Return, Gone
    <3> QED
      BY <3>1, <3>2, <3>3 DEF Kinds
  <2> QED
    BY <2>1, <2>2
<1>6. CASE TimestampReturns(w)
  <2>1. Moved
    <3>1. at[w] \notin NotCounted /\ late' = late
      BY <1>6 DEF TimestampReturns, NotCounted
    <3>2. Go(w, "push unbonding") /\ "push unbonding" \in Place \ NotCounted
      BY <1>6 DEF TimestampReturns, Place, NotCounted
    <3> QED
      BY <3>1, <3>2, GoMoves
  <2>2. RestOK'
    BY <1>6, AttemptsReset DEF TimestampReturns, TypeOK, RestOK
  <2>3. DocumentInHand'
    BY <1>6, OthersInHand DEF TimestampReturns, Go
  <2> QED
    BY <2>1, <2>2, <2>3 DEF Kinds
<1>7. CASE PushWithdrawn(w)
  <2>1. Returned(w)
    BY <1>7 DEF PushWithdrawn, Returned, NotCounted
  <2>2. RestOK'
    BY <1>7, PushedType DEF PushWithdrawn, TypeOK, RestOK
  <2>3. DocumentInHand'
    BY <1>7, OthersInHand DEF PushWithdrawn, Return, Gone
  <2> QED
    BY <2>1, <2>2, <2>3 DEF Kinds
<1>8. CASE PushUnbonding(w)
  <2>1. Moved
    <3>1. at[w] \notin NotCounted /\ late' = late
      BY <1>8 DEF PushUnbonding, NotCounted
    <3>2. Go(w, "hand over") /\ "hand over" \in Place \ NotCounted
      BY <1>8 DEF PushUnbonding, Place, NotCounted
    <3> QED
      BY <3>1, <3>2, GoMoves
  <2>2. RestOK'
    BY <1>8, PushedType DEF PushUnbonding, TypeOK, RestOK
  <2>3. DocumentInHand'
    BY <1>8, OthersInHand DEF PushUnbonding, Go
  <2> QED
    BY <2>1, <2>2, <2>3 DEF Kinds
<1>9. CASE SpendReported(w)
  <2>1. Moved
    <3>1. at[w] \notin NotCounted /\ late' = late
      BY <1>9 DEF SpendReported, NotCounted
    <3>2. Go(w, "db") /\ "db" \in Place \ NotCounted
      BY <1>9 DEF SpendReported, Place, NotCounted
    <3> QED
      BY <3>1, <3>2, GoMoves
  <2>2. RestOK'
    BY <1>9 DEF SpendReported, TypeOK, RestOK
  <2>3. DocumentInHand'
    BY <1>9, OthersInHand DEF SpendReported, Go
  <2> QED
    BY <2>1, <2>2, <2>3 DEF Kinds
<1>10. CASE StartUnbondingWatcher(w)
  <2>1. HandedOver(w)
    BY <1>10 DEF StartUnbondingWatcher, HandedOver
  <2>2. RestOK'
    BY <1>10 DEF StartUnbondingWatcher, TypeOK, RestOK
  <2>3. DocumentInHand'
    BY <1>10, OthersInHand DEF StartUnbondingWatcher
  <2> QED
    BY <2>1, <2>2, <2>3 DEF Kinds
<1>11. CASE PredecessorReturns(w)
  <2>1. Left(w)
    BY <1>11 DEF PredecessorReturns, Left
  <2>2. RestOK'
    BY <1>11 DEF PredecessorReturns, TypeOK, RestOK
  <2>3. DocumentInHand'
    BY <1>11, OthersInHand DEF PredecessorReturns
  <2> QED
    BY <2>1, <2>2, <2>3 DEF Kinds
<1> QED
  BY <1>1, <1>2, <1>3, <1>4, <1>5, <1>6, <1>7, <1>8, <1>9, <1>10, <1>11
  DEF WatcherWork

-----------------------------------------------------------------------------
(* The invariant holds through each kind of step.                          *)

LEMMA FiniteCounted == IsFiniteSet(Goroutines) /\ IsFiniteSet(Counted)
<1>1. IsFiniteSet(Loops)
  <2>1. Loops = {"expiry", "subscriber", "unbonding", "withdrawn"}
    BY DEF Loops, Handlers
  <2>2. IsFiniteSet({"expiry"})
    BY FS_Singleton
  <2>3. IsFiniteSet({"expiry"} \cup {"subscriber"})
    BY <2>2, FS_AddElement
  <2>4. IsFiniteSet(({"expiry"} \cup {"subscriber"}) \cup {"unbonding"})
    BY <2>3, FS_AddElement
  <2>5. IsFiniteSet((({"expiry"} \cup {"subscriber"}) \cup {"unbonding"})
                        \cup {"withdrawn"})
    BY <2>4, FS_AddElement
  <2>6. Loops = (({"expiry"} \cup {"subscriber"}) \cup {"unbonding"})
                    \cup {"withdrawn"}
    BY <2>1
  <2> QED
    BY <2>5, <2>6
<1>2. IsFiniteSet(Goroutines)
  BY <1>1, LifecycleAssumption, FS_Union DEF Goroutines
<1>3. Counted \subseteq Goroutines
  BY DEF Counted
<1> QED
  BY <1>2, <1>3, FS_Subset

LEMMA MovedCounts ==
    ASSUME TypeOK, Moved
    PROVE  Counted' = Counted
BY DEF Moved, Counted

LEMMA ReturnedCounts ==
    ASSUME TypeOK, NEW g \in Goroutines, Returned(g)
    PROVE  Counted' = Counted \ {g} /\ g \in Counted
BY DEF TypeOK, Returned, Return, Gone, Counted, NotCounted

LEMMA BegunCounts ==
    ASSUME TypeOK, NEW l \in Loops, Begun(l)
    PROVE  Counted' = Counted \cup {l} /\ l \notin Counted
BY SubscriberIsLoop DEF TypeOK, Begun, Counted, NotCounted

LEMMA LaunchedCounts ==
    ASSUME TypeOK, NEW w \in Watchers, Launched(w)
    PROVE  Counted' = Counted \cup {w} /\ w \notin Counted
<1>1. PICK place \in Place \ NotCounted :
          at' = [at EXCEPT !["subscriber"] = place, ![w] = "register"]
  BY DEF Launched
<1>2. w # "subscriber" /\ w \in Goroutines /\ "subscriber" \in Goroutines
  BY WatcherIsNoLoop, SubscriberIsLoop
<1>3. \A g \in Goroutines :
          at'[g] = IF g = w THEN "register"
                   ELSE IF g = "subscriber" THEN place ELSE at[g]
  BY <1>1, <1>2 DEF TypeOK
<1>4. place \notin NotCounted /\ "register" \notin NotCounted
  BY DEF NotCounted
<1>5. at["subscriber"] \notin NotCounted /\ at[w] \in NotCounted
  BY DEF Launched, NotCounted
<1>6. \A g \in Goroutines :
          at'[g] \notin NotCounted <=> at[g] \notin NotCounted \/ g = w
  BY <1>2, <1>3, <1>4, <1>5
<1> QED
  BY <1>2, <1>5, <1>6 DEF Counted

LEMMA HandedOverCounts ==
    ASSUME TypeOK, NEW w \in Watchers, HandedOver(w)
    PROVE  Counted' = Counted
BY WatcherIsNoLoop DEF TypeOK, HandedOver, Counted, NotCounted

LEMMA FiniteReturning ==
    ASSUME TypeOK
    PROVE  /\ IsFiniteSet(returning)
           /\ Cardinality(returning) \in Nat
           /\ Cardinality(Counted) \in Nat
BY LifecycleAssumption, FiniteCounted, FS_Subset, FS_CardinalityType DEF TypeOK

(* The counter after each kind. *)
LEMMA KindsCount ==
    ASSUME TypeOK, WaitGroupCounts, Kinds
    PROVE  WaitGroupCounts' /\ wg' \in Nat
<1>1. /\ IsFiniteSet(Counted) /\ IsFiniteSet(returning)
      /\ Cardinality(Counted) \in Nat /\ Cardinality(returning) \in Nat
      /\ wg = Cardinality(Counted) + Cardinality(returning)
  BY FiniteCounted, FiniteReturning DEF WaitGroupCounts
<1>2. CASE Moved
  BY <1>1, <1>2, MovedCounts DEF Moved, WaitGroupCounts, TypeOK, watcherVars
<1>3. ASSUME NEW g \in Goroutines, Returned(g)
      PROVE  WaitGroupCounts' /\ wg' \in Nat
  <2>1. Counted' = Counted \ {g} /\ g \in Counted
    BY <1>3, ReturnedCounts
  <2>2. /\ Cardinality(Counted') = Cardinality(Counted) - 1
        /\ Cardinality(Counted') \in Nat
    BY <1>1, <2>1, FS_RemoveElement, FS_CardinalityType
  <2>3. wg' = wg - 1 /\ returning' = returning
    BY <1>3 DEF Returned, Return, Gone, Done
  <2> QED
    BY <1>1, <2>2, <2>3 DEF WaitGroupCounts
<1>4. ASSUME NEW g \in Goroutines, Counted' = Counted \cup {g}, g \notin Counted,
             Add, returning' = returning
      PROVE  WaitGroupCounts' /\ wg' \in Nat
  <2>1. Cardinality(Counted') = Cardinality(Counted) + 1
    BY <1>1, <1>4, FS_AddElement
  <2> QED
    BY <1>1, <1>4, <2>1 DEF WaitGroupCounts, Add
<1>5. ASSUME NEW l \in Loops, Begun(l)
      PROVE  WaitGroupCounts' /\ wg' \in Nat
  BY <1>4, <1>5, BegunCounts, SubscriberIsLoop DEF Begun, watcherVars
<1>6. ASSUME NEW w \in Watchers, Launched(w)
      PROVE  WaitGroupCounts' /\ wg' \in Nat
  BY <1>4, <1>6, LaunchedCounts, WatcherIsNoLoop DEF Launched
<1>7. ASSUME NEW w \in Watchers, HandedOver(w)
      PROVE  WaitGroupCounts' /\ wg' \in Nat
  <2>1. Counted' = Counted
    BY <1>7, HandedOverCounts
  <2>2. Cardinality(returning') = Cardinality(returning) + 1
    BY <1>1, <1>7, FS_AddElement DEF HandedOver
  <2>3. wg' = wg + 1
    BY <1>7 DEF HandedOver, Add
  <2> QED
    BY <1>1, <2>1, <2>2, <2>3 DEF WaitGroupCounts
<1>8. ASSUME NEW w \in Watchers, Left(w)
      PROVE  WaitGroupCounts' /\ wg' \in Nat
  <2>1. Counted' = Counted
    BY <1>8 DEF Left, Counted
  <2>2. /\ Cardinality(returning') = Cardinality(returning) - 1
        /\ Cardinality(returning') \in Nat
    BY <1>1, <1>8, FS_RemoveElement, FS_CardinalityType DEF Left
  <2>3. wg' = wg - 1
    BY <1>8 DEF Left, Done
  <2> QED
    BY <1>1, <2>1, <2>2, <2>3 DEF WaitGroupCounts
<1> QED
  BY <1>2, <1>3, <1>5, <1>6, <1>7, <1>8 DEF Kinds

(* The places, the watchers and main after each kind. *)
StartedTypeOK ==
    /\ at \in [Goroutines -> Place]
    /\ output \in [Watchers -> {"staking", "unbonding"}]
    /\ returning \subseteq Watchers
    /\ main \in MainState
    /\ late \in BOOLEAN

LEMMA KindsType ==
    ASSUME TypeOK, Kinds
    PROVE  StartedTypeOK'
<1> USE SubscriberIsLoop DEF Place, NotCounted, StartedTypeOK
<1>1. CASE Moved
  BY <1>1 DEF Moved, TypeOK, watcherVars
<1>2. ASSUME NEW g \in Goroutines, Returned(g)
      PROVE  StartedTypeOK'
  BY <1>2 DEF Returned, Return, Gone, Done, TypeOK, MainState
<1>3. ASSUME NEW l \in Loops, Begun(l)
      PROVE  StartedTypeOK'
  BY <1>3 DEF Begun, Add, TypeOK, MainState, watcherVars
<1>4. ASSUME NEW w \in Watchers, Launched(w)
      PROVE  StartedTypeOK'
  <2>1. PICK place \in Place \ NotCounted :
            at' = [at EXCEPT !["subscriber"] = place, ![w] = "register"]
    BY <1>4 DEF Launched
  <2>2. at' \in [Goroutines -> Place]
    BY <2>1 DEF TypeOK
  <2>3. output' \in [Watchers -> {"staking", "unbonding"}]
    BY <1>4 DEF Launched, TypeOK
  <2> QED
    BY <1>4, <2>2, <2>3 DEF Launched, Add, TypeOK, MainState
<1>5. ASSUME NEW w \in Watchers, HandedOver(w)
      PROVE  StartedTypeOK'
  BY <1>5 DEF HandedOver, Add, TypeOK, MainState
<1>6. ASSUME NEW w \in Watchers, Left(w)
      PROVE  StartedTypeOK'
  BY <1>6 DEF Left, Done, TypeOK, MainState
<1> QED
  BY <1>1, <1>2, <1>3, <1>4, <1>5, <1>6 DEF Kinds

LEMMA KindsSpawned ==
    ASSUME TypeOK, OnlyLoopsSpawned, Kinds
    PROVE  /\ OnlyLoopsSpawned'
           /\ \A l \in Loops : at'[l] = "spawned" => at[l] = "spawned"
<1> USE SubscriberIsLoop, NamesAssumption DEF NotCounted
<1> DEFINE Fewer == \A g \in Goroutines : at'[g] = "spawned" => at[g] = "spawned"
<1>1. ASSUME Moved
      PROVE  Fewer
  BY <1>1 DEF Moved
<1>2. ASSUME NEW g \in Goroutines, Returned(g)
      PROVE  Fewer
  BY <1>2 DEF Returned, Return, Gone, TypeOK
<1>3. ASSUME NEW k \in Loops, Begun(k)
      PROVE  Fewer
  BY <1>3 DEF Begun, TypeOK
<1>4. ASSUME NEW w \in Watchers, Launched(w)
      PROVE  Fewer
  BY <1>4 DEF Launched, TypeOK
<1>5. ASSUME NEW w \in Watchers, HandedOver(w) \/ Left(w)
      PROVE  Fewer
  BY <1>5 DEF HandedOver, Left, TypeOK
<1>6. Fewer
  BY <1>1, <1>2, <1>3, <1>4, <1>5 DEF Kinds
<1> QED
  BY <1>6 DEF OnlyLoopsSpawned

(* No goroutine steps when none is there. *)
LEMMA KindsNeedOne ==
    ASSUME TypeOK, AllGone, Kinds
    PROVE  UNCHANGED <<at, main, wg, returning, late>>
<1>1. CASE Moved
  <2>1. \A g \in Goroutines : at'[g] = at[g]
    BY <1>1 DEF Moved, AllGone, NotCounted
  <2> QED
    BY <1>1, <2>1 DEF Moved, TypeOK, watcherVars
<1>2. CASE ~ Moved
  BY <1>2, SubscriberIsLoop
  DEF Kinds, Returned, Begun, Launched, HandedOver, Left, AllGone, NotCounted
<1> QED
  BY <1>1, <1>2

LEMMA NothingCounted ==
    ASSUME NEW C \in SUBSET Goroutines, NEW R \in SUBSET Watchers,
           Cardinality(C) + Cardinality(R) = 0
    PROVE  C = {} /\ R = {}
<1>1. IsFiniteSet(C) /\ IsFiniteSet(R)
  BY FiniteCounted, LifecycleAssumption, FS_Subset
<1>2. Cardinality(C) \in Nat /\ Cardinality(R) \in Nat
  BY <1>1, FS_CardinalityType
<1>3. Cardinality(C) = 0 /\ Cardinality(R) = 0
  BY <1>2
<1> QED
  BY <1>1, <1>3, FS_EmptySet

(* When the last counted goroutine returns and none is spawned, none is    *)
(* left.                                                                   *)
LEMMA LastReturn ==
    ASSUME TypeOK, WaitGroupCounts, OnlyLoopsSpawned,
           wg = 0, \A l \in Loops : at[l] # "spawned"
    PROVE  AllGone
<1>1. Counted \subseteq Goroutines /\ returning \subseteq Watchers
  BY DEF Counted, TypeOK
<1>2. Counted = {} /\ returning = {}
  BY <1>1, NothingCounted DEF WaitGroupCounts
<1> QED
  BY <1>2 DEF Counted, NotCounted, AllGone, OnlyLoopsSpawned, Goroutines

LEMMA KindsKeepInv ==
    ASSUME IInv, Kinds, RestOK', DocumentInHand'
    PROVE  IInv'
<1>1. /\ TypeOK /\ WaitGroupCounts /\ OnlyLoopsSpawned /\ OnTime
      /\ NotStarted
  BY DEF IInv
<1>2. WaitGroupCounts' /\ wg' \in Nat
  BY <1>1, KindsCount
<1>3. OnlyLoopsSpawned' /\ \A l \in Loops : at'[l] = "spawned" => at[l] = "spawned"
  BY <1>1, KindsSpawned
<1>4. TypeOK'
  BY <1>1, <1>2, KindsType DEF RestOK, TypeOK, StartedTypeOK
<1>5. late' = late
  BY DEF Kinds, Moved, Returned, Begun, Launched, HandedOver, Left
<1>6. \/ main' = main
      \/ main = "asleep" /\ main' = "releasing" /\ wg' = 0
      \/ main = "releasing" /\ main' = "panicked"
  <2>1. (main' = main /\ wg' = wg) \/ Done \/ Add
    BY DEF Kinds, Moved, Returned, Begun, Launched, HandedOver, Left, Return
  <2> QED
    BY <1>1, <2>1 DEF Done, Add, TypeOK
<1>7. AllGone => UNCHANGED <<at, main, wg, returning, late>>
  BY <1>1, KindsNeedOne
<1>8. NotStarted'
  BY <1>1, <1>6, <1>7 DEF NotStarted, AllGone
<1>9. OnTime'
  <2> SUFFICES ASSUME ~ late PROVE OnTime'
    BY <1>5 DEF OnTime
  <2>1. CASE AllGone
    BY <1>1, <1>7, <2>1 DEF OnTime, Joined, AllGone
  <2>2. CASE ~ AllGone /\ main' = main
    BY <1>1, <1>3, <2>2 DEF OnTime, Joined
  <2>3. CASE ~ AllGone /\ main = "asleep" /\ main' = "releasing" /\ wg' = 0
    <3>1. \A l \in Loops : at'[l] # "spawned"
      BY <1>1, <1>3, <2>3 DEF OnTime, Joined
    <3>2. AllGone'
      <4>1. Counted' \subseteq Goroutines /\ returning' \subseteq Watchers
        BY <1>4 DEF Counted, TypeOK
      <4>2. Counted' = {} /\ returning' = {}
        BY <1>2, <2>3, <4>1, NothingCounted DEF WaitGroupCounts
      <4>3. \A g \in Goroutines : at'[g] \in NotCounted
        BY <4>2 DEF Counted
      <4> QED
        BY <1>3, <3>1, <4>2, <4>3
        DEF AllGone, NotCounted, OnlyLoopsSpawned, Goroutines
    <3> QED
      BY <2>3, <3>1, <3>2 DEF OnTime
  <2>4. CASE ~ AllGone /\ main = "releasing"
    BY <1>1, <2>4 DEF OnTime
  <2> QED
    BY <1>6, <2>1, <2>2, <2>3, <2>4
<1> QED
  BY <1>2, <1>3, <1>4, <1>8, <1>9 DEF IInv

-----------------------------------------------------------------------------
(* The main goroutine and the signal.                                      *)

LEMMA MainKeepsInv ==
    ASSUME IInv, Main \/ Signal
    PROVE  IInv'
<1> USE SubscriberIsLoop DEF IInv, workVars, watcherVars
<1>1. CASE Start
  <2>1. UNCHANGED <<cancelled, quit, wg, workVars, late>>
    BY <1>1 DEF Start
  <2>2. AllGone
    BY <1>1 DEF Start, NotStarted
  <2>3. CASE main' = "waiting" /\ at' = [g \in Goroutines |->
                       IF g \in Loops THEN "spawned" ELSE at[g]]
    <3>1. at' \in [Goroutines -> Place] /\ main' \in MainState
      BY <2>3 DEF TypeOK, Place, NotCounted, MainState
    <3>2. \A g \in Goroutines :
              at'[g] = IF g \in Loops THEN "spawned" ELSE "none"
      BY <2>2, <2>3 DEF AllGone
    <3>3. Counted = {} /\ Counted' = {}
      BY <2>2, <3>2 DEF AllGone, Counted, NotCounted
    <3>4. TypeOK' /\ WaitGroupCounts'
      BY <2>1, <3>1, <3>3 DEF TypeOK, WaitGroupCounts
    <3>5. OnlyLoopsSpawned'
      BY <3>2, NamesAssumption DEF OnlyLoopsSpawned
    <3>6. OnTime' /\ NotStarted'
      BY <2>3 DEF OnTime, NotStarted, Joined
    <3>7. DocumentInHand'
      BY <3>2 DEF DocumentInHand
    <3> QED
      BY <3>4, <3>5, <3>6, <3>7
  <2>4. CASE main' = "failed" /\ UNCHANGED at
    <3>1. Counted' = Counted
      BY <2>4 DEF Counted
    <3>2. TypeOK' /\ WaitGroupCounts'
      BY <2>1, <2>4, <3>1 DEF TypeOK, WaitGroupCounts, MainState
    <3>3. OnTime' /\ NotStarted'
      BY <2>1, <2>2, <2>4 DEF OnTime, NotStarted, Joined, AllGone
    <3> QED
      BY <2>1, <2>4, <3>2, <3>3 DEF OnlyLoopsSpawned, DocumentInHand
  <2> QED
    BY <1>1, <2>3, <2>4 DEF Start
<1>2. ASSUME UNCHANGED <<at, wg, workVars>>,
             quit' \in BOOLEAN, cancelled' \in BOOLEAN,
             main' \in MainState, late' \in BOOLEAN
      PROVE  /\ TypeOK' /\ WaitGroupCounts' /\ OnlyLoopsSpawned' /\ DocumentInHand'
             /\ AllGone' <=> AllGone
  <2>1. Counted' = Counted
    BY <1>2 DEF Counted
  <2> QED
    BY <1>2, <2>1
    DEF TypeOK, WaitGroupCounts, OnlyLoopsSpawned, DocumentInHand, AllGone
<1>3. CASE CloseQuit
  <2>1. OnTime' /\ NotStarted'
    BY <1>3 DEF CloseQuit, OnTime, NotStarted, Joined
  <2> QED
    BY <1>2, <1>3, <2>1 DEF CloseQuit, TypeOK, MainState
<1>4. CASE Wait
  <2>1. ~ late' => \A l \in Loops : at'[l] # "spawned"
    BY <1>4 DEF Wait
  <2>2. ~ late' /\ wg = 0 => AllGone'
    BY <1>4, <2>1, LastReturn DEF Wait, AllGone
  <2>3. OnTime' /\ NotStarted'
    BY <1>4, <2>1, <2>2 DEF Wait, OnTime, NotStarted
  <2>4. late' \in BOOLEAN /\ main' \in MainState
    BY <1>4 DEF Wait, MainState
  <2> QED
    BY <1>2, <1>4, <2>3, <2>4 DEF Wait, TypeOK
<1>5. CASE Release
  <2>1. OnTime' /\ NotStarted'
    BY <1>5 DEF Release, OnTime, NotStarted, Joined, AllGone
  <2> QED
    BY <1>2, <1>5, <2>1 DEF Release, TypeOK, MainState
<1>6. CASE Resume
  <2>1. AllGone => wg = 0
    <3>1. AllGone => Counted = {} /\ returning = {}
      BY DEF AllGone, Counted, NotCounted
    <3> QED
      BY <3>1, FS_EmptySet DEF WaitGroupCounts
  <2>2. OnTime' /\ NotStarted'
    BY <1>6, <2>1 DEF Resume, OnTime, NotStarted, Joined, AllGone
  <2> QED
    BY <1>2, <1>6, <2>2 DEF Resume, TypeOK, MainState
<1>7. CASE Exit
  <2>1. OnTime' /\ NotStarted'
    BY <1>7 DEF Exit, OnTime, NotStarted, Joined, AllGone
  <2> QED
    BY <1>2, <1>7, <2>1 DEF Exit, TypeOK, MainState
<1>8. CASE Signal
  <2>1. OnTime' /\ NotStarted'
    BY <1>8 DEF Signal, OnTime, NotStarted, Joined, AllGone
  <2> QED
    BY <1>2, <1>8, <2>1 DEF Signal, TypeOK
<1> QED
  BY <1>1, <1>3, <1>4, <1>5, <1>6, <1>7, <1>8 DEF Main

-----------------------------------------------------------------------------

LEMMA InitInv == Init => IInv
<1> SUFFICES ASSUME Init PROVE IInv
  OBVIOUS
<1>1. TypeOK
  <2>1. /\ 0 \in 0 .. MaxRetryTimes - 1
        /\ 0 \in 0 .. MaxDocuments
        /\ 0 \in 0 .. ChanCap
    BY LifecycleAssumption
  <2>2. attempts \in [Goroutines -> 0 .. MaxRetryTimes - 1] /\ todo \in 0 .. MaxDocuments
    BY <2>1 DEF Init
  <2>3. events \in [Handlers -> 0 .. ChanCap]
    BY <2>1 DEF Init
  <2>4. at \in [Goroutines -> Place]
    BY DEF Init, Place, NotCounted
  <2> QED
    BY <2>2, <2>3, <2>4 DEF Init, TypeOK, MainState
<1>2. AllGone
  BY DEF Init, AllGone
<1>3. Counted = {}
  BY <1>2 DEF AllGone, Counted, NotCounted
<1>4. WaitGroupCounts
  BY <1>3, FS_EmptySet DEF Init, WaitGroupCounts
<1> QED
  BY <1>1, <1>2, <1>4, SubscriberIsLoop
  DEF Init, IInv, OnlyLoopsSpawned, OnTime, NotStarted, DocumentInHand, Joined, AllGone

LEMMA NextInv == IInv /\ [Next]_vars => IInv'
<1> SUFFICES ASSUME IInv, [Next]_vars PROVE IInv'
  OBVIOUS
<1>1. TypeOK /\ DocumentInHand
  BY DEF IInv
<1>2. CASE Main \/ Signal
  BY <1>2, MainKeepsInv
<1>3. ASSUME NEW l \in Loops, LoopStep(l) PROVE IInv'
  BY <1>1, <1>3, LoopKinds, KindsKeepInv
<1>4. ASSUME NEW w \in Watchers, WatcherWork(w) \/ SpendReported(w) PROVE IInv'
  BY <1>1, <1>4, WatcherKinds, KindsKeepInv
<1>5. CASE UNCHANGED vars
  <2>1. Counted' = Counted /\ (Joined' <=> Joined) /\ (AllGone' <=> AllGone)
    BY <1>5 DEF vars, Counted, Joined, AllGone
  <2> QED
    BY <1>5, <2>1
    DEF vars, IInv, TypeOK, WaitGroupCounts, OnlyLoopsSpawned, OnTime,
        NotStarted, DocumentInHand
<1> QED
  BY <1>2, <1>3, <1>4, <1>5 DEF Next

LEMMA Invariant == Spec => []IInv
BY InitInv, NextInv, PTL DEF Spec

(* Every variable keeps its type; the channels of the service never hold   *)
(* more events than they have room for (NewService, PushOrQuit).           *)
THEOREM TypeCorrect == Spec => []TypeOK
<1>1. IInv => TypeOK
  BY DEF IInv
<1> QED
  BY <1>1, Invariant, PTL

(* The counter of the wait group is the number of goroutines that have been *)
(* counted and have not returned (the wg.Add and wg.Done calls of          *)
(* service.go, delegation_handlers.go and watch_btc_events.go).            *)
THEOREM CounterIsExact == Spec => []WaitGroupCounts
<1>1. IInv => WaitGroupCounts
  BY DEF IInv
<1> QED
  BY <1>1, Invariant, PTL

(* After wg.Wait no goroutine is left, and it does not panic, unless a loop *)
(* was late (RunUntilShutdown, service.go:59-92).                          *)
THEOREM NoGoroutineLeft == Spec => []NoneLeftBehind
<1>1. IInv => NoneLeftBehind
  BY DEF IInv, OnTime, NoneLeftBehind, AllGone
<1> QED
  BY <1>1, Invariant, PTL

=============================================================================
