---------------------------- MODULE ShortlistPage ----------------------------
(***************************************************************************)
(* The shortlist page of web-user and the requests it has in flight: the   *)
(* user starts a run, the page polls it every 2.5 seconds until it is      *)
(* over, shows its shortlist, and loads a candidate's resume on demand.    *)
(* The page runs on one thread; what interleaves are its callbacks: an     *)
(* answer, a timer, a click.  Starting again does not cancel a request.    *)
(*                                                                         *)
(* The functions on the page record are the component's methods.           *)
(***************************************************************************)
EXTENDS Integers, FiniteSets

CONSTANTS
    MaxStarts,  \* bound: how often the user starts a run
    MaxLoads    \* bound: resume requests in flight for one candidate

ASSUME BoundsAssumption == MaxStarts \in Nat \ {0} /\ MaxLoads \in Nat \ {0}

\* A run is numbered by the start that created it; 0 is the empty id.
Runs == 1..MaxStarts
NoRun == 0

\* Every start leaves at most one poll or timer behind, so these slots are enough.
Slots == 1..MaxStarts

VARIABLES
    page,       \* the component's fields
    starts,     \* starts so far
    create,     \* the POST /agent-runs in flight
    polls,      \* the GET /agent-runs/{id} in flight, by slot
    loads,      \* the number of GET /candidates/{id} in flight, by candidate
    server,     \* status of each run's row
    faulty      \* some request has failed

vars == <<page, starts, create, polls, loads, server, faulty>>

Pending == {"queued", "running"}
NoPoll == [phase |-> "none"]

\* Each run's shortlist is represented by its first candidate, named as the run.
Candidates == Runs

-----------------------------------------------------------------------------
(* The component's methods. *)

ResetRunState(p) ==
    [p EXCEPT !.timer = FALSE, !.runId = NoRun, !.runStatus = "idle", !.isPolling = FALSE,
              !.shortlist = NoRun, !.expanded = NoRun,
              !.detail = [c \in Candidates |-> "idle"]]

HandleRunError(p) == [p EXCEPT !.timer = FALSE, !.runStatus = "failed"]

\* Mutant: only a run seen running can complete.
SyncFromRunning(p, run, status) ==
    IF status = "failed" THEN HandleRunError(p)
    ELSE [p EXCEPT !.runStatus = status,
                   !.shortlist = IF status = "completed" /\ p.runStatus = "running" THEN run ELSE @]

\* A failed run is thrown as an error, which refreshRun catches.
SyncRunState(p, run, status) ==
    IF status = "failed" THEN HandleRunError(p)
    ELSE [p EXCEPT !.runStatus = status,
                   !.shortlist = IF status = "completed" THEN run ELSE @]

\* Mutant: a failed run is polled on.
ShouldPollUntilCompleted(p) == p.runId # NoRun /\ p.runStatus # "completed"

ShouldPoll(p) == p.runId # NoRun /\ p.runStatus \in Pending

\* Mutant: the timer is stopped but not set again.
SettleWithoutTimer(p) == [p EXCEPT !.isPolling = FALSE, !.timer = FALSE]

\* The finally block of refreshRun.
Settle(p) == [p EXCEPT !.isPolling = FALSE, !.timer = ShouldPoll(p)]

\* startRun awaits the first poll; then its own finally block runs.
Return(p, first) == [p EXCEPT !.isStarting = @ /\ ~first]

FreeSlot == CHOOSE i \in Slots : polls[i] = NoPoll

\* The body of refreshRun up to its await.
RefreshRun(p, first) ==
    IF p.runId = NoRun \/ p.isPolling
    THEN page' = Return(p, first) /\ UNCHANGED polls
    ELSE /\ page' = [p EXCEPT !.isPolling = TRUE]
         /\ polls' = [polls EXCEPT ![FreeSlot] =
                        [phase |-> "sent", run |-> p.runId, first |-> first]]

-----------------------------------------------------------------------------
(* Clicks. *)

Init ==
    /\ page = [alive |-> TRUE, runId |-> NoRun, runStatus |-> "idle", isStarting |-> FALSE,
               isPolling |-> FALSE, timer |-> FALSE, shortlist |-> NoRun, expanded |-> NoRun,
               detail |-> [c \in Candidates |-> "idle"]]
    /\ starts = 0 /\ create = "none" /\ faulty = FALSE
    /\ polls = [i \in Slots |-> NoPoll]
    /\ loads = [c \in Candidates |-> 0]
    /\ server = [r \in Runs |-> "none"]

StartRun ==
    /\ page.alive /\ ~page.isStarting /\ starts < MaxStarts
    /\ page' = [ResetRunState(page) EXCEPT !.isStarting = TRUE]
    /\ starts' = starts + 1
    /\ create' = "sent"
    /\ UNCHANGED <<polls, loads, server, faulty>>

\* ngOnDestroy: the timer is stopped, what is in flight is not.
LeavePage ==
    /\ page.alive
    /\ page' = [page EXCEPT !.alive = FALSE, !.timer = FALSE]
    /\ UNCHANGED <<starts, create, polls, loads, server, faulty>>

LoadCandidateDetail(p, c) ==
    /\ loads[c] < MaxLoads
    /\ page' = [p EXCEPT !.detail[c] = "loading"]
    /\ loads' = [loads EXCEPT ![c] = @ + 1]

CollapseResume ==
    /\ page.alive /\ page.shortlist # NoRun /\ page.expanded = page.shortlist
    /\ page' = [page EXCEPT !.expanded = NoRun]
    /\ UNCHANGED <<starts, create, polls, loads, server, faulty>>

ExpandResume ==
    /\ page.alive /\ page.shortlist # NoRun /\ page.expanded # page.shortlist
    /\ LET c == page.shortlist
           p == [page EXCEPT !.expanded = c]
       IN IF page.detail[c] \in {"loaded", "loading"}
          THEN page' = p /\ UNCHANGED loads
          ELSE LoadCandidateDetail(p, c)
    /\ UNCHANGED <<starts, create, polls, server, faulty>>

\* The button is there only while the panel shows an error.
RetryResume ==
    /\ page.alive /\ page.shortlist # NoRun /\ page.expanded = page.shortlist
    /\ page.detail[page.expanded] = "error"
    /\ LoadCandidateDetail(page, page.expanded)
    /\ UNCHANGED <<starts, create, polls, server, faulty>>

-----------------------------------------------------------------------------
(* Answers and the timer. *)

CreateAnswers ==
    /\ create = "accepted"
    /\ create' = "none"
    /\ RefreshRun([page EXCEPT !.runId = starts, !.runStatus = "queued"], TRUE)
    /\ UNCHANGED <<starts, loads, server, faulty>>

\* Mutant: startRun's finally block is missing.
CreateFailsStarting ==
    /\ create # "none"
    /\ create' = "none" /\ faulty' = TRUE
    /\ page' = HandleRunError(page)
    /\ UNCHANGED <<starts, polls, loads, server>>

\* Refused (TEMPORAL_START_FAILED), or its answer is lost.
CreateFails ==
    /\ create # "none"
    /\ create' = "none" /\ faulty' = TRUE
    /\ page' = [HandleRunError(page) EXCEPT !.isStarting = FALSE]
    /\ UNCHANGED <<starts, polls, loads, server>>

\* Mutant: pollTimer is not cleared when it fires.
TimerFiresUncleared ==
    /\ page.timer
    /\ RefreshRun(page, FALSE)
    /\ UNCHANGED <<starts, create, loads, server, faulty>>

PollTimerFires ==
    /\ page.timer
    /\ RefreshRun([page EXCEPT !.timer = FALSE], FALSE)
    /\ UNCHANGED <<starts, create, loads, server, faulty>>

PollAnswers(i) ==
    /\ polls[i].phase = "answered"
    /\ page' = Return(Settle(SyncRunState(page, polls[i].run, polls[i].status)), polls[i].first)
    /\ polls' = [polls EXCEPT ![i] = NoPoll]
    /\ UNCHANGED <<starts, create, loads, server, faulty>>

PollFails(i) ==
    /\ polls[i].phase \in {"sent", "answered"}
    /\ page' = Return(Settle(HandleRunError(page)), polls[i].first)
    /\ polls' = [polls EXCEPT ![i] = NoPoll]
    /\ faulty' = TRUE
    /\ UNCHANGED <<starts, create, loads, server>>

\* Mutant: a failed request leaves its entry as it is.
AfterLoadSwallowed == {"loaded", "loading"}

AfterLoad == {"loaded", "error"}

DetailAnswers(c) ==
    /\ loads[c] > 0
    /\ loads' = [loads EXCEPT ![c] = @ - 1]
    /\ page' \in {[page EXCEPT !.detail[c] = status] : status \in AfterLoad}
    /\ UNCHANGED <<starts, create, polls, server, faulty>>

-----------------------------------------------------------------------------
(* The API and the worker. *)

ServeCreate ==
    /\ create = "sent"
    /\ create' = "accepted"
    /\ server' = [server EXCEPT ![starts] = "queued"]
    /\ UNCHANGED <<page, starts, polls, loads, faulty>>

ServePoll(i) ==
    /\ polls[i].phase = "sent"
    /\ polls' = [polls EXCEPT ![i] =
                    [phase |-> "answered", run |-> polls[i].run, first |-> polls[i].first,
                     status |-> server[polls[i].run]]]
    /\ UNCHANGED <<page, starts, create, loads, server, faulty>>

WorkOn(r) ==
    /\ \/ server[r] = "queued" /\ server' = [server EXCEPT ![r] = "running"]
       \/ server[r] = "running" /\ \E s \in {"completed", "failed"} : server' = [server EXCEPT ![r] = s]
    /\ UNCHANGED <<page, starts, create, polls, loads, faulty>>

Next ==
    \/ StartRun \/ LeavePage \/ CollapseResume \/ ExpandResume \/ RetryResume
    \/ CreateAnswers \/ CreateFails \/ PollTimerFires
    \/ \E i \in Slots : PollAnswers(i) \/ PollFails(i) \/ ServePoll(i)
    \/ \E c \in Candidates : DetailAnswers(c)
    \/ ServeCreate \/ \E r \in Runs : WorkOn(r)

Spec == Init /\ [][Next]_vars

\* The API answers, and the browser delivers answers and timers.  Neither the user nor
\* the worker has to do anything.
FairSpec ==
    /\ Spec
    /\ WF_vars(ServeCreate) /\ WF_vars(CreateAnswers) /\ WF_vars(PollTimerFires)
    /\ \A i \in Slots : WF_vars(ServePoll(i)) /\ WF_vars(PollAnswers(i))

-----------------------------------------------------------------------------
(* Properties. *)

Statuses == {"none", "queued", "running", "completed", "failed"}

\* Every variable has its type.  Of substance: the timer is set only between two polls,
\* and only for a run.
TypeOK ==
    /\ page \in [alive : BOOLEAN, runId : Runs \cup {NoRun},
                 runStatus : Statuses \cup {"idle"}, isStarting : BOOLEAN,
                 isPolling : BOOLEAN, timer : BOOLEAN, shortlist : Runs \cup {NoRun},
                 expanded : Candidates \cup {NoRun},
                 detail : [Candidates -> {"idle", "loading", "loaded", "error"}]]
    /\ page.timer => ~page.isPolling /\ page.runId # NoRun
    /\ starts \in 0..MaxStarts /\ create \in {"none", "sent", "accepted"} /\ faulty \in BOOLEAN
    /\ polls \in [Slots -> {NoPoll}
                    \cup [phase : {"sent"}, run : Runs, first : BOOLEAN]
                    \cup [phase : {"answered"}, run : Runs, first : BOOLEAN, status : Statuses]]
    /\ loads \in [Candidates -> 0..MaxLoads]
    /\ server \in [Runs -> Statuses]

\* A page that shows a run as queued or running has a timer set or a poll in flight, in
\* whatever order the answers to an earlier run's polls arrive (the finally block of
\* refreshRun and stopPolling both touch the timer of the run that is current then).
NeverDeaf ==
    page.alive /\ page.runId # NoRun /\ page.runStatus \in Pending =>
        page.timer \/ \E i \in Slots : polls[i] # NoPoll /\ polls[i].run = page.runId

\* A resume panel that says it is loading has a request in flight, also when starting
\* anew has thrown the cache away under a request (loadCandidateDetail).
LoadingHasRequest == \A c \in Candidates : page.detail[c] = "loading" => loads[c] > 0

\* The start button comes back, whatever happens to the request and to the first poll,
\* which startRun awaits.
StartingEnds == page.isStarting ~> ~page.isStarting

\* Once no run is pending any more the page stops asking, whoever left it or started anew.
RunsOver == \A r \in Runs : server[r] \notin Pending
Quiet == ~page.timer /\ \A i \in Slots : polls[i] = NoPoll
PollingStops == RunsOver ~> Quiet \/ ~RunsOver

\* Who starts one run, stays, and whose requests all succeed, sees its shortlist.
OutcomeIsShown ==
    [](starts <= 1 /\ ~faulty /\ page.alive) =>
        (server[1] = "completed" ~> page.shortlist = 1)

\* "The candidate list is bounded by the current run; runs are never mixed"
\* (requirement-traceability.md:85, LI-01: syncRunState renders only the current run result).
ShortlistOfCurrentRun == page.shortlist # NoRun => page.shortlist = page.runId
=============================================================================
