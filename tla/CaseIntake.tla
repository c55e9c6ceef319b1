----------------------------- MODULE CaseIntake -----------------------------
(***************************************************************************)
(* Where the case and the candidate of CaseRecords come from: create_run   *)
(* makes a run, its case and the case's first version in one transaction,  *)
(* and the run's worker upserts the candidates it has found.               *)
(*                                                                         *)
(* Create requests carry one idempotency key.  An attempt of the worker's  *)
(* persist_candidate_snapshots that raised, was slow or lost its answer is *)
(* followed by the next; a slow one goes on.  Every attempt upserts the    *)
(* same candidate with the same resume, the candidate whose verdict        *)
(* CaseRecords is about.                                                   *)
(***************************************************************************)
EXTENDS Integers, CaseRecords

CONSTANT Mixes  \* bound: the threads that come together, and what they find

ASSUME IntakeAssumption ==
    /\ PersistAttempts \subseteq Nat
    /\ Mixes \subseteq [threads : SUBSET Threads,
                        given : {"nothing", "case", "candidate"}]
    /\ \A mix \in Mixes : mix.threads \cap CreateRequests # {} => mix.given = "nothing"

VARIABLES
    cases,      \* rows of jd_case: the one made by create_case, or those of runs
    runs,       \* rows of agent_run with the key; a row's id is the request that made it
    candidates, \* rows of case_candidate with the external identity: id and its
                \* latest_resume_snapshot_id; the id is the attempt that made it
    snapshots,  \* rows of resume_snapshot with the resume's hash
    analyses,   \* rows of resume_analysis_job: the snapshot analysed
    refs        \* what the workflow was answered: it shows these ids

intakeVars == <<cases, runs, candidates, snapshots, analyses, refs>>
vars == <<recordVars, intakeVars>>

\* create_case leaves a case without a version; a run that went before has left one with
\* a version, and a candidate.
Init ==
    /\ RecordsInit
    /\ \E mix \in Mixes :
          LET had(what) == IF mix.given \in what THEN {Earlier} ELSE {}
          IN  /\ thread = [q \in Threads |-> IF q \in mix.threads THEN Idle ELSE Done]
              /\ cases = had({"case", "candidate"}) /\ runs = had({"candidate"})
              /\ versions = {[id |-> q, no |-> 1, active |-> TRUE] : q \in runs}
              /\ newest = runs
              /\ candidates = {[id |-> q, snapshot |-> q] : q \in runs}
              /\ snapshots = {[id |-> q, candidate |-> q] : q \in runs}
              /\ refs = {[candidate |-> q, snapshot |-> q] : q \in runs}
    /\ analyses = {}

-----------------------------------------------------------------------------
(* create_run. *)

\* A run with the key, whatever has become of it, is the answer.
FindRun(q) ==
    /\ thread[q] = Idle
    /\ thread' = [thread EXCEPT ![q] = IF runs = {} THEN [phase |-> "sought"] ELSE Done]
    /\ UNCHANGED <<versions, newest, verdict, history, clock, job, files, overlapped,
                   intakeVars>>

\* The case, its version and the run, or nothing.
InsertRun(q) ==
    /\ cases' = cases \cup {q} /\ runs' = runs \cup {q}
    /\ versions' = versions \cup {[id |-> q, no |-> 1, active |-> TRUE]}
    /\ newest' = {q}

\* Mutant: idempotency_key is not unique.
CommitRunUnchecked(q) ==
    /\ thread[q].phase = "sought"
    /\ thread' = [thread EXCEPT ![q] = Done]
    /\ InsertRun(q)
    /\ UNCHANGED <<verdict, history, clock, job, files, overlapped,
                   candidates, snapshots, analyses, refs>>

\* When another request was faster, the unique constraint makes this one fail.
CommitRun(q) ==
    /\ thread[q].phase = "sought"
    /\ thread' = [thread EXCEPT ![q] = Done]
    /\ IF runs = {} THEN InsertRun(q) ELSE UNCHANGED <<cases, runs, versions, newest>>
    /\ UNCHANGED <<verdict, history, clock, job, files, overlapped,
                   candidates, snapshots, analyses, refs>>

-----------------------------------------------------------------------------
(* The worker: persist_candidate_snapshots and persist_resume_analyses. *)

\* An attempt reads the whole row, latest_verdict included.
BeginUpsert(a) ==
    /\ thread[a] = Idle
    /\ \A b \in PersistAttempts : b < a => thread[b] # Idle
    /\ runs # {} /\ refs = {}
    /\ thread' = [thread EXCEPT ![a] = [phase |-> "found", row |-> candidates,
                                        verdict |-> verdict]]
    /\ overlapped' = Overlap("upsert", a, PersistAttempts)
    /\ UNCHANGED <<versions, newest, verdict, history, clock, job, files, intakeVars>>

FindSnapshot(a) ==
    /\ thread[a].phase = "found"
    /\ thread' = [thread EXCEPT ![a] =
                    [phase |-> "compared", row |-> thread[a].row, verdict |-> thread[a].verdict,
                     snapshot |-> {s \in snapshots :
                                      \E c \in thread[a].row : s.candidate = c.id}]]
    /\ UNCHANGED <<versions, newest, verdict, history, clock, job, files, overlapped,
                   intakeVars>>

\* save_candidate: a row that was found is read again and compared with what is in hand.
SaveUpsert(a) ==
    /\ thread[a].phase = "compared"
    /\ thread' = [thread EXCEPT ![a] =
                    [phase |-> "upserted", verdict |-> thread[a].verdict,
                     candidate |-> IF thread[a].row = {} THEN a
                                   ELSE (CHOOSE c \in thread[a].row : TRUE).id,
                     snapshot |-> IF thread[a].snapshot = {} THEN a
                                  ELSE (CHOOSE s \in thread[a].snapshot : TRUE).id,
                     dirty |-> thread[a].row # {} /\ Changes(thread[a].verdict)]]
    /\ UNCHANGED <<versions, newest, verdict, history, clock, job, files, overlapped,
                   intakeVars>>

LatestAttempt(a) == \A b \in PersistAttempts : b > a => thread[b] = Idle

\* What attempt a has in hand becomes what is stored, and what the workflow is answered,
\* if the answer is not lost and still waited for.
WriteUpsert(a) ==
    LET c == thread[a].candidate
        s == thread[a].snapshot
    IN  /\ candidates' = {d \in candidates : d.id # c} \cup {[id |-> c, snapshot |-> s]}
        /\ snapshots' = snapshots \cup {[id |-> s, candidate |-> c]}
        /\ verdict' = IF thread[a].dirty THEN thread[a].verdict ELSE verdict
        /\ \/ UNCHANGED refs
           \/ LatestAttempt(a) /\ refs = {} /\ refs' = {[candidate |-> c, snapshot |-> s]}

\* Mutant: a candidate's external identity is not unique in its case.
CommitUpsertUnchecked(a) ==
    /\ thread[a].phase = "upserted"
    /\ thread' = [thread EXCEPT ![a] = Done]
    /\ WriteUpsert(a)
    /\ UNCHANGED <<versions, newest, history, clock, job, files, overlapped,
                   cases, runs, analyses>>

\* The constraints on (case, external identity) and on (candidate, hash).
UpsertAllowed(a) ==
    /\ thread[a].candidate = a => candidates = {}
    /\ thread[a].snapshot = a => \A s \in snapshots : s.candidate # thread[a].candidate

CommitUpsert(a) ==
    /\ thread[a].phase = "upserted"
    /\ thread' = [thread EXCEPT ![a] = Done]
    /\ IF UpsertAllowed(a) THEN WriteUpsert(a)
       ELSE UNCHANGED <<candidates, snapshots, verdict, refs>>
    /\ UNCHANGED <<versions, newest, history, clock, job, files, overlapped,
                   cases, runs, analyses>>

\* The row's id is a digest of the snapshot and the versions of model and prompt: however
\* often it is saved, it is one row.
SaveAnalyses ==
    /\ analyses' = analyses \cup {r.snapshot : r \in refs}
    /\ UNCHANGED <<recordVars, cases, runs, candidates, snapshots, refs>>

-----------------------------------------------------------------------------

\* A case or a candidate that is not there is not found; a verdict is given on a candidate
\* that a run shows.
Answerable(q) == IF q \in VerdictRequests THEN refs # {} ELSE cases # {}

Next ==
    \/ \E q \in Requests : Answerable(q) /\ RequestStep(q) /\ UNCHANGED intakeVars
    \/ \E q \in CreateRequests : FindRun(q) \/ CommitRun(q)
    \/ \E a \in PersistAttempts :
          BeginUpsert(a) \/ FindSnapshot(a) \/ SaveUpsert(a) \/ CommitUpsert(a)
    \/ SaveAnalyses
    \/ \E q \in Threads : Abort(q) /\ UNCHANGED intakeVars

Spec == Init /\ [][Next]_vars

-----------------------------------------------------------------------------
(* Properties. *)

\* However create requests with one key race, they make at most one run, and a request
\* that lost leaves nothing behind: every case has its run's version, with number 1
\* (create_run commits case, version and run together or not at all).
OneRunPerKey ==
    /\ Cardinality(runs) <= 1
    /\ \A q \in CreateRequests :
          /\ q \in cases <=> q \in runs
          /\ q \in cases <=> \E v \in versions : v.id = q /\ v.no = 1

\* get_candidate_detail answers with the row and what it names as its latest snapshot.
DetailOf(id) ==
    {p \in candidates \X snapshots : p[1].id = id /\ p[2].id = p[1].snapshot}

\* The candidate a run shows can be opened for good: its row and the very snapshot the run
\* was answered stay those of the candidate, however many attempts to persist it overlap,
\* and its analysis is one of that snapshot.
ShownCandidateHasDetail ==
    /\ Cardinality(candidates) <= 1
    /\ \A r \in refs :
          DetailOf(r.candidate) = {<<[id |-> r.candidate, snapshot |-> r.snapshot],
                                     [id |-> r.snapshot, candidate |-> r.candidate]>>}
    /\ \A s \in analyses : \E r \in refs : r.snapshot = s
=============================================================================
