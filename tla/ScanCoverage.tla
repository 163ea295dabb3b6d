---------------------------- MODULE ScanCoverage ----------------------------
(***************************************************************************)
(* What a poll of the subscriber poller owes, in the service as a whole:   *)
(* the steps are those of ExpiryChecker, and two history variables keep    *)
(* what was to be watched when the poll began and which withdrawals the    *)
(* poller has reported.  SubscriberScan asks the same question of a        *)
(* database in any state, with the other goroutines reduced to what they   *)
(* do to it.                                                               *)
(***************************************************************************)
EXTENDS ExpiryChecker

VARIABLES
    waiting,    \* history: the delegations to watch when the poll began
    reported    \* history: those reported since the service started

coverageVars == <<vars, waiting, reported>>

ToWatch == {d \in Delegations : delegations[d].state \in StatesToWatch}

CoverageInit ==
    /\ Init
    /\ waiting = {}
    /\ reported = {}

(* A poll begins with its first page, if there is any; one that fails, or  *)
(* is lost with the process, owes nothing.  (A fault that looks like a     *)
(* last page without documents counts as that page.)                       *)
NoteWaiting ==
    waiting' = IF \/ SubscriberFault /\ ~ FetchPage
                  \/ restarts' # restarts
               THEN {}
               ELSE IF subscriberPc = "idle" /\ subscriberPc' # "idle" THEN ToWatch
               ELSE waiting

NoteReported ==
    reported' = IF restarts' # restarts THEN {}
                ELSE reported \cup
                        {d \in Delegations :
                            \E doc \in page :
                                doc.hash = d /\ ReportSpentOutput(doc)}

CoverageNext == Next /\ NoteWaiting /\ NoteReported

CoverageSpec == CoverageInit /\ [][CoverageNext]_coverageVars

-----------------------------------------------------------------------------

(* A poll that ends without an error has missed nothing, although handlers *)
(* take delegations out of the states it scans for between two pages, and  *)
(* change them after their page was read: every delegation that waited for *)
(* a spend when the poll began has been subscribed to, or its withdrawal   *)
(* was reported.  A restart ends a poll and forgets the subscriptions.     *)
PollMissesNothing ==
    subscriberPc = "idle" => waiting \subseteq trackedSubs \cup reported

=============================================================================
