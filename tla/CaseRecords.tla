----------------------------- MODULE CaseRecords -----------------------------
(***************************************************************************)
(* The write operations of PlatformService on one case: create_jd_version, *)
(* save_verdict (of one candidate) and create_export, each run by request  *)
(* threads that share nothing but the database.  A thread is one           *)
(* transaction, create_export two; PostgreSQL runs them READ COMMITTED.    *)
(* All export requests carry the same idempotency key: they are retries.   *)
(* Where the case and the candidate come from is CaseIntake's; its threads *)
(* are counted here.                                                       *)
(* What a request that cannot go on leaves behind is the same whether it   *)
(* is refused (unknown case, export not permitted) or dies.                *)
(***************************************************************************)
EXTENDS Integers, FiniteSets

CONSTANTS
    VersionRequests, VerdictRequests, ExportRequests,
    CreateRequests, PersistAttempts,    \* threads of CaseIntake
    Earlier,        \* what was there before all of them
    NoVerdict

Requests == VersionRequests \cup VerdictRequests \cup ExportRequests
Threads == Requests \cup CreateRequests \cup PersistAttempts
Verdicts == {"Match", "Maybe", "No"}
Exportable == {"Match", "Maybe"}

ASSUME RequestsAssumption ==
    /\ IsFiniteSet(Threads)
    /\ VersionRequests \cap VerdictRequests = {}
    /\ ExportRequests \cap (VersionRequests \cup VerdictRequests) = {}
    /\ CreateRequests \cap Requests = {}
    /\ PersistAttempts \cap (Requests \cup CreateRequests) = {}
    /\ Earlier \notin Threads
    /\ NoVerdict \notin Verdicts

VARIABLES
    thread,     \* what each request thread has in hand
    versions,   \* rows of jd_version; a version's id is the request that made it
    newest,     \* id of the version committed last, {} before the first
    verdict,    \* latest_verdict of the candidate
    history,    \* rows of verdict_history
    clock,      \* now_utc()
    job,        \* the export_job with the key, or NoJob
    files,      \* export files on disk
    overlapped  \* kinds of request of which two have run at once

recordVars == <<thread, versions, newest, verdict, history, clock, job, files, overlapped>>

Idle == [phase |-> "idle"]
Done == [phase |-> "done"]
NoJob == [status |-> "none"]

\* No verdict and no export yet.
RecordsInit ==
    /\ verdict = NoVerdict /\ history = {} /\ clock = 0
    /\ job = NoJob /\ files = {}
    /\ overlapped = {}

Busy(q) == thread[q] \notin {Idle, Done}

\* Request q of a kind begins: is it alone?
Overlap(kind, q, requests) ==
    IF \E other \in requests \ {q} : Busy(other) THEN overlapped \cup {kind} ELSE overlapped

\* The transaction is rolled back; a file that was written stays.
Abort(q) ==
    /\ Busy(q)
    /\ thread' = [thread EXCEPT ![q] = Done]
    /\ UNCHANGED <<versions, newest, verdict, history, clock, job, files, overlapped>>

-----------------------------------------------------------------------------
(* create_jd_version. *)

\* Mutant: only active versions are counted.
CountActive == Cardinality({v \in versions : v.active})

CountVersions == Cardinality(versions)

BeginVersion(q) ==
    /\ thread[q] = Idle
    /\ thread' = [thread EXCEPT ![q] = [phase |-> "counted", no |-> CountVersions + 1]]
    /\ overlapped' = Overlap("version", q, VersionRequests)
    /\ UNCHANGED <<versions, newest, verdict, history, clock, job, files>>

\* The UPDATE sees what is committed when it starts...
StartDeactivation(q) ==
    /\ thread[q].phase = "counted"
    /\ thread' = [thread EXCEPT ![q] =
                    [phase |-> "updating", no |-> thread[q].no, rows |-> {v.id : v \in versions}]]
    /\ UNCHANGED <<versions, newest, verdict, history, clock, job, files, overlapped>>

\* ...and waits for a transaction that has updated one of those rows.
Deactivate(q) ==
    /\ thread[q].phase = "updating"
    /\ \A other \in VersionRequests :
          thread[other].phase = "updated" => thread[other].rows \cap thread[q].rows = {}
    /\ thread' = [thread EXCEPT ![q].phase = "updated"]
    /\ UNCHANGED <<versions, newest, verdict, history, clock, job, files, overlapped>>

\* Mutant: the new version is inserted before the others are deactivated.
CommitInsertedFirst(q) ==
    /\ thread[q].phase = "updated"
    /\ versions' = {[v EXCEPT !.active = FALSE] :
                      v \in versions \cup {[id |-> q, no |-> thread[q].no, active |-> TRUE]}}
    /\ newest' = {q}
    /\ thread' = [thread EXCEPT ![q] = Done]
    /\ UNCHANGED <<verdict, history, clock, job, files, overlapped>>

\* The same transaction makes the case "searchable" and sets its updated_at (service.py:86-88).
\* Both are left out: every version writes the same status, and no request reads them.
CommitVersion(q) ==
    /\ thread[q].phase = "updated"
    /\ versions' = {[v EXCEPT !.active = @ /\ v.id \notin thread[q].rows] : v \in versions}
                     \cup {[id |-> q, no |-> thread[q].no, active |-> TRUE]}
    /\ newest' = {q}
    /\ thread' = [thread EXCEPT ![q] = Done]
    /\ UNCHANGED <<verdict, history, clock, job, files, overlapped>>

-----------------------------------------------------------------------------
(* save_verdict. *)

ReadCandidate(q) ==
    /\ thread[q] = Idle
    /\ clock' = clock + 1
    /\ \E v \in Verdicts :
          thread' = [thread EXCEPT ![q] = [phase |-> "read", verdict |-> v, at |-> clock + 1]]
    /\ overlapped' = Overlap("verdict", q, VerdictRequests)
    /\ UNCHANGED <<versions, newest, verdict, history, job, files>>

\* Mutant: a verdict, once given, stays the latest.
ChangesUnset(v) == verdict = NoVerdict

\* The column is written only if the row, read again, has another value.
Changes(v) == v # verdict

SaveCandidate(q) ==
    /\ thread[q].phase = "read"
    /\ thread' = [thread EXCEPT ![q] =
                    [phase |-> "saved", verdict |-> thread[q].verdict, at |-> thread[q].at,
                     dirty |-> Changes(thread[q].verdict)]]
    /\ UNCHANGED <<versions, newest, verdict, history, clock, job, files, overlapped>>

Entry(q) == [verdict |-> thread[q].verdict, at |-> thread[q].at]

\* Mutant: the candidate is committed without its history.
CommitCandidateOnly(q) ==
    /\ thread[q].phase = "saved"
    /\ verdict' = IF thread[q].dirty THEN thread[q].verdict ELSE verdict
    /\ thread' = [thread EXCEPT ![q] = Done]
    /\ UNCHANGED <<versions, newest, history, clock, job, files, overlapped>>

CommitVerdict(q) ==
    /\ thread[q].phase = "saved"
    /\ verdict' = IF thread[q].dirty THEN thread[q].verdict ELSE verdict
    /\ history' = history \cup {Entry(q)}
    /\ thread' = [thread EXCEPT ![q] = Done]
    /\ UNCHANGED <<versions, newest, clock, job, files, overlapped>>

-----------------------------------------------------------------------------
(* create_export. *)

\* A job with the key, whatever has become of it, is the answer.
FindJob(q) ==
    /\ thread[q] = Idle
    /\ thread' = [thread EXCEPT ![q] = IF job # NoJob THEN Done ELSE [phase |-> "looked"]]
    /\ UNCHANGED <<versions, newest, verdict, history, clock, job, files, overlapped>>

\* Mutant: idempotency_key is not unique.
InsertUnchecked(q) ==
    /\ thread[q].phase = "looked"
    /\ job' = [status |-> "running", owner |-> q]
    /\ thread' = [thread EXCEPT ![q] = [phase |-> "inserted"]]
    /\ UNCHANGED <<versions, newest, verdict, history, clock, files, overlapped>>

\* When another request was faster, the unique constraint makes this one fail.
InsertJob(q) ==
    /\ thread[q].phase = "looked"
    /\ job' = IF job = NoJob THEN [status |-> "running", owner |-> q] ELSE job
    /\ thread' = [thread EXCEPT ![q] = IF job = NoJob THEN [phase |-> "inserted"] ELSE Done]
    /\ UNCHANGED <<versions, newest, verdict, history, clock, files, overlapped>>

ListCandidates(q) ==
    /\ thread[q].phase = "inserted"
    /\ thread' = [thread EXCEPT ![q] = [phase |-> "listed", includes |-> verdict \in Exportable]]
    /\ UNCHANGED <<versions, newest, verdict, history, clock, job, files, overlapped>>

WriteFile(q) ==
    /\ thread[q].phase = "listed"
    /\ files' = files \cup {[owner |-> q, includes |-> thread[q].includes]}
    /\ thread' = [thread EXCEPT ![q] = [phase |-> "written"]]
    /\ UNCHANGED <<versions, newest, verdict, history, clock, job, overlapped>>

\* What an unsuccessful write leaves on disk is not a file.
WriteFails(q) ==
    /\ thread[q].phase = "listed"
    /\ thread' = [thread EXCEPT ![q] = [phase |-> "unwritten"]]
    /\ UNCHANGED <<versions, newest, verdict, history, clock, job, files, overlapped>>

\* Mutant: the OSError is swallowed.
AlwaysCompleted(q) == "completed"

Outcome(q) == IF thread[q].phase = "written" THEN "completed" ELSE "failed"

\* Mutant: after a failure create_export goes on instead of raising.
CommitJobFallsThrough(q) ==
    /\ thread[q].phase \in {"written", "unwritten"}
    /\ job' = [job EXCEPT !.status = Outcome(q)]
    /\ thread' = [thread EXCEPT ![q] =
                    IF thread[q].phase = "unwritten" THEN [phase |-> "written"] ELSE Done]
    /\ UNCHANGED <<versions, newest, verdict, history, clock, files, overlapped>>

CommitJob(q) ==
    /\ thread[q].phase \in {"written", "unwritten"}
    /\ job' = [job EXCEPT !.status = Outcome(q)]
    /\ thread' = [thread EXCEPT ![q] = Done]
    /\ UNCHANGED <<versions, newest, verdict, history, clock, files, overlapped>>

-----------------------------------------------------------------------------

RequestStep(q) ==
    \/ q \in VersionRequests
       /\ (BeginVersion(q) \/ StartDeactivation(q) \/ Deactivate(q) \/ CommitVersion(q))
    \/ q \in VerdictRequests /\ (ReadCandidate(q) \/ SaveCandidate(q) \/ CommitVerdict(q))
    \/ q \in ExportRequests
       /\ \/ FindJob(q) \/ InsertJob(q) \/ ListCandidates(q)
          \/ WriteFile(q) \/ WriteFails(q) \/ CommitJob(q)

-----------------------------------------------------------------------------
(* Properties. *)

Phases == {"idle", "done", "counted", "updating", "updated", "read", "saved", "looked",
           "inserted", "listed", "written", "unwritten", "sought", "found", "compared",
           "upserted"}

\* Every variable has its type.  Of substance: a job that is over was over when its
\* owner was; while its owner runs it is running.
TypeOK ==
    /\ \A q \in Threads : thread[q].phase \in Phases
    /\ versions \subseteq [id : VersionRequests \cup CreateRequests \cup {Earlier},
                          no : 1..(Cardinality(VersionRequests) + 1), active : BOOLEAN]
    /\ newest \subseteq {v.id : v \in versions}
    /\ verdict \in Verdicts \cup {NoVerdict}
    /\ history \subseteq [verdict : Verdicts, at : 1..Cardinality(VerdictRequests)]
    /\ clock \in 0..Cardinality(VerdictRequests)
    /\ \/ job = NoJob
       \/ job \in [status : {"running", "completed", "failed"}, owner : ExportRequests]
    /\ job # NoJob /\ Busy(job.owner) => job.status = "running"
    /\ files \subseteq [owner : ExportRequests, includes : BOOLEAN]
    /\ overlapped \subseteq {"version", "verdict", "upsert"}

\* However requests for versions overlap, the version committed last is active: a case
\* that has a version always has an active one (deactivate_versions runs before the
\* insert of the same transaction and cannot see the version of another).
NewestVersionIsActive ==
    /\ versions # {} => newest # {}
    /\ \A v \in versions : v.id \in newest => v.active

\* As long as the requests come one at a time, aborted ones included, versions are
\* numbered 1, 2, 3... and only the last is active.
VersionsInOrder ==
    "version" \notin overlapped =>
        /\ {v.no : v \in versions} = 1..Cardinality(versions)
        /\ \A v \in versions : v.active <=> v.no = Cardinality(versions)

\* The candidate's latest verdict always stands in its history, though each request
\* decides whether to write the column before it commits, and though the worker's upsert
\* of the candidate writes back the verdict it read: unless an attempt of that activity
\* outlived its timeout, which may undo a verdict given meanwhile.
LatestVerdictInHistory ==
    "upsert" \notin overlapped =>
        /\ verdict = NoVerdict <=> history = {}
        /\ verdict # NoVerdict => \E h \in history : h.verdict = verdict

\* As long as verdicts are saved one at a time, the latest verdict is the newest entry.
LatestVerdictIsNewest ==
    overlapped \cap {"verdict", "upsert"} = {} =>
        \A h \in history : (\A g \in history : g.at <= h.at) => h.verdict = verdict

\* However often an export is requested with one key, at most one file is written.
ExportedOnce == Cardinality(files) <= 1

\* A job that says completed has its file, and the file lists the candidate only if
\* someone judged it Match or Maybe.
CompletedExportIsTrue ==
    job.status = "completed" =>
        \E f \in files :
            /\ f.owner = job.owner
            /\ f.includes => \E h \in history : h.verdict \in Exportable

\* "At any time only one active JD version" (requirement-traceability.md:59, JD-03).
OneActiveVersion == \A v, w \in versions : v.active /\ w.active => v = w
=============================================================================
