----------------------------- MODULE RunRecord -----------------------------
(***************************************************************************)
(* One run's row and everyone who writes it.  A write is never one step:   *)
(* the activity (persist_agent_run_patch, publish_langfuse_trace) or the   *)
(* API's fail_dispatch copies the row into a record and changes the copy,  *)
(* _save_record reads the row again and marks the columns in which the two *)
(* differ, and the commit writes those columns.  No version column and no  *)
(* lock guards the row.                                                    *)
(*                                                                         *)
(* Temporal runs an activity at least once: an attempt that dies, or whose *)
(* answer is lost, is repeated, and an attempt that is too slow goes on in *)
(* its thread while the next one starts.                                   *)
(*                                                                         *)
(* The workflow is AgentRunLoop's, with the patches of a round abbreviated *)
(* to the round counter, the dedupe step and the patch that appends two    *)
(* steps, analysis and shortlist.  Those of the search, the reflection and *)
(* the stop, of one step each, are left out.  publish_langfuse_trace has   *)
(* no retry limit, so the workflow never sees it fail.                     *)
(***************************************************************************)
EXTENDS Integers, Sequences

CONSTANTS
    Resumes,
    MaxRounds, MinRounds,   \* both as AgentRunLoop computes them
    MaxRetries,             \* bound: activity attempts that are repeated in one run
    Faults,                 \* what may go wrong, a subset of FaultKinds
    CtsDown                 \* every search attempt raises

FaultKinds == {"crash",         \* a process dies, an answer is lost
               "slow-publish",  \* an attempt to publish exceeds its 45 seconds
               "slow-patch",    \* an attempt to patch exceeds its 30 seconds
               "dispatch"}      \* start_workflow raises

ASSUME RoundsAssumption == MaxRounds \in 3..5 /\ MinRounds \in 3..MaxRounds
ASSUME FaultsAssumption ==
    MaxRetries \in Nat /\ Faults \subseteq FaultKinds /\ CtsDown \in BOOLEAN

VARIABLES
    row,        \* the row, by column
    snapshot,   \* state.run: the record the last activity returned to the workflow
    pc,         \* the workflow's next activity
    roundNo,    \* its loop variable
    page,       \* externalIdentityIds of its last search
    retries,    \* attempts repeated so far; slot retries + 1 is the one Temporal waits for
    writer      \* where each thread is that may write the row

vars == <<row, snapshot, pc, roundNo, page, retries, writer>>

Columns == {"status", "round", "steps", "seen", "error", "finished", "trace"}

Slots == 1..(MaxRetries + 1)
Api == 0                        \* the request thread of POST /agent-runs
Current == retries + 1

-----------------------------------------------------------------------------
(* Patches: the columns a write sets and the steps it appends. *)

\* Mutant: to be safe from retries, a step that the ledger ends with is not appended again.
ApplyUnlessLast(record, patch) ==
    LET New(step) == record.steps = <<>> \/ step # record.steps[Len(record.steps)]
    IN  [c \in Columns |-> IF c = "steps" THEN record.steps \o SelectSeq(patch.append, New)
                           ELSE IF c \in DOMAIN patch.set THEN patch.set[c] ELSE record[c]]

Apply(record, patch) ==
    [c \in Columns |-> IF c = "steps" THEN record.steps \o patch.append
                       ELSE IF c \in DOMAIN patch.set THEN patch.set[c] ELSE record[c]]

\* _append_step numbers a step by the ledger in memory: that of the last snapshot and the
\* steps of the patch before it, among which this one has the place.
NewStep(place, type, round, admitted) ==
    [no |-> Len(snapshot.steps) + place, type |-> type, round |-> round,
     admitted |-> admitted]

\* Mutant: the ids of the last page replace those seen before.
SeenAfterLastPage == page

SeenAfter == snapshot.seen \cup page

PatchStages == {"start", "strategy", "round", "dedupe", "rank", "complete", "fail", "publish"}

PatchOf(stage) ==
    CASE stage = "start" ->
           [set |-> [status |-> "running", error |-> "none"], append |-> <<>>]
      [] stage = "strategy" ->
           [set |-> <<>>, append |-> <<NewStep(1, "strategy", 0, {})>>]
      [] stage = "round" ->
           [set |-> [round |-> roundNo], append |-> <<>>]
      [] stage = "dedupe" ->
           [set |-> [seen |-> SeenAfter],
            append |-> <<NewStep(1, "dedupe", roundNo, page \ snapshot.seen)>>]
      [] stage = "rank" ->
           [set |-> <<>>, append |-> <<NewStep(1, "analysis", roundNo, {}),
                                       NewStep(2, "shortlist", roundNo, {})>>]
      [] stage = "complete" ->
           [set |-> [status |-> "completed", finished |-> TRUE],
            append |-> <<NewStep(1, "finalize", snapshot.round, {})>>]
      [] stage = "fail" ->
           [set |-> [status |-> "failed", error |-> "AGENT_RUN_FAILED", finished |-> TRUE],
            append |-> <<>>]
      [] stage = "publish" ->
           [set |-> [trace |-> TRUE], append |-> <<>>]

\* Mutant: the error is recorded, the status forgotten.
DispatchErrorOnly ==
    [set |-> [error |-> "TEMPORAL_START_FAILED"], append |-> <<>>]

DispatchFailed ==
    [set |-> [status |-> "failed", error |-> "TEMPORAL_START_FAILED", finished |-> TRUE],
     append |-> <<>>]

-----------------------------------------------------------------------------
(* A write of the row: copy and change, compare, commit. *)

Idle == [phase |-> "idle"]
Scheduled(patch) == [phase |-> "scheduled", patch |-> patch]

ReadRow(w) ==
    /\ writer[w].phase = "scheduled"
    /\ writer' = [writer EXCEPT ![w] =
                    [phase |-> "read", record |-> Apply(row, writer[w].patch)]]
    /\ UNCHANGED <<row, snapshot, pc, roundNo, page, retries>>

\* What the unit of work finds dirty: the columns in which the record and the row,
\* read once more, differ.
ColumnsToWrite(record) == {c \in Columns : record[c] # row[c]}

SaveRecord(w) ==
    /\ writer[w].phase = "read"
    /\ writer' = [writer EXCEPT ![w] =
                    [phase |-> "saved", record |-> writer[w].record,
                     dirty |-> ColumnsToWrite(writer[w].record)]]
    /\ UNCHANGED <<row, snapshot, pc, roundNo, page, retries>>

\* Only the attempt Temporal still waits for has anyone to answer to.
Commit(w) ==
    /\ writer[w].phase = "saved"
    /\ row' = [c \in Columns |-> IF c \in writer[w].dirty THEN writer[w].record[c] ELSE row[c]]
    /\ writer' = [writer EXCEPT ![w] =
                    IF w = Current THEN [phase |-> "answer", record |-> writer[w].record]
                    ELSE Idle]
    /\ UNCHANGED <<snapshot, pc, roundNo, page, retries>>

Write(w) == ReadRow(w) \/ SaveRecord(w) \/ Commit(w)

-----------------------------------------------------------------------------
(* Dispatch: the row is committed as queued, then Temporal is called. *)

Init ==
    /\ row = [c \in Columns |->
                CASE c = "status" -> "queued" [] c = "round" -> 0 [] c = "steps" -> <<>>
                  [] c = "seen" -> {} [] c = "error" -> "none" [] OTHER -> FALSE]
    /\ snapshot = row
    /\ pc = "created" /\ roundNo = 0 /\ page = {} /\ retries = 0
    /\ writer = [w \in Slots \cup {Api} |->
                    IF w = Api THEN [phase |-> "starting"] ELSE Idle]

\* load_run_snapshot is the first activity: no patch has been made yet.
StartWorkflow ==
    /\ writer[Api].phase = "starting"
    /\ snapshot' = row /\ pc' = "start"
    /\ \/ writer' = [writer EXCEPT ![Api] = Idle]
       \/ /\ "dispatch" \in Faults      \* accepted, but the answer never arrives
          /\ writer' = [writer EXCEPT ![Api] = Scheduled(DispatchFailed)]
    /\ UNCHANGED <<row, roundNo, page, retries>>

StartRejected ==
    /\ writer[Api].phase = "starting" /\ "dispatch" \in Faults
    /\ writer' = [writer EXCEPT ![Api] = Scheduled(DispatchFailed)]
    /\ UNCHANGED <<row, snapshot, pc, roundNo, page, retries>>

ApiDies ==
    /\ "crash" \in Faults /\ writer[Api].phase # "idle"
    /\ writer' = [writer EXCEPT ![Api] = Idle]
    /\ UNCHANGED <<row, snapshot, pc, roundNo, page, retries>>

-----------------------------------------------------------------------------
(* The workflow. *)

Waiting == writer[Current].phase # "idle"

SchedulePatch ==
    /\ pc \in PatchStages /\ ~Waiting
    /\ writer' = [writer EXCEPT ![Current] = Scheduled(PatchOf(pc))]
    /\ UNCHANGED <<row, snapshot, pc, roundNo, page, retries>>

\* Mutant: one round too many.
LoopMayRunOver == roundNo <= MaxRounds

LoopMayContinue == roundNo < MaxRounds

\* Mutant: the reflector may stop the run in any round.
LoopMayStopEarly == TRUE

\* The rules and the reflector stop no run below the minimum.
LoopMayStop == roundNo >= MinRounds

\* Where the workflow may go on after the patch of a stage.
Following(stage) ==
    CASE stage = "start" -> {"strategy"}
      [] stage = "strategy" -> {"round"}
      [] stage = "round" -> {"search"}
      [] stage = "dedupe" -> {"rank"}
      [] stage = "rank" -> {next \in {"round", "complete"} :
                              IF next = "round" THEN LoopMayContinue ELSE LoopMayStop}
      [] stage \in {"complete", "fail"} -> {"publish"}
      [] stage = "publish" -> {"closed"}

\* Mutant: the answer of an activity is not taken over.
AnswerIgnored(record) == snapshot

\* publish_trace returns no snapshot, but nothing reads it any more.
Answered(record) == record

PatchAnswers ==
    /\ writer[Current].phase = "answer"
    /\ snapshot' = Answered(writer[Current].record)
    /\ pc' \in Following(pc)
    /\ roundNo' = IF pc' = "round" THEN roundNo + 1 ELSE roundNo
    /\ writer' = [writer EXCEPT ![Current] = Idle]
    /\ UNCHANGED <<row, page, retries>>

SearchReturns ==
    /\ pc = "search" /\ ~CtsDown
    /\ page' \in SUBSET Resumes
    /\ pc' = "dedupe"
    /\ UNCHANGED <<row, snapshot, roundNo, retries, writer>>

TryBody == {"strategy", "round", "search", "dedupe", "rank", "complete"}

\* An agent gives up, CTS reports an error or the workflow's own code raises between two
\* patches: the except clause takes over.
TryRaises ==
    /\ pc \in TryBody /\ ~Waiting
    /\ pc = "search" => ~CtsDown
    /\ pc' = "fail"
    /\ UNCHANGED <<row, snapshot, roundNo, page, retries, writer>>

-----------------------------------------------------------------------------
(* Retries. *)

\* The search activity raises: a timeout while the response is read is not among the
\* exceptions the CTS adapter turns into an error page.
SearchAttemptRaises ==
    /\ pc = "search" /\ (retries < MaxRetries \/ CtsDown)
    /\ retries' = IF CtsDown THEN retries ELSE retries + 1
    /\ UNCHANGED <<row, snapshot, pc, roundNo, page, writer>>

\* The exporter raises while the trace is replayed.
PublishAttemptRaises ==
    /\ pc = "publish" /\ writer[Current].phase \in {"scheduled", "read"}
    /\ retries < MaxRetries /\ retries' = retries + 1
    /\ writer' = [writer EXCEPT ![Current] = Idle, ![Current + 1] = Scheduled(PatchOf(pc))]
    /\ UNCHANGED <<row, snapshot, pc, roundNo, page>>

\* The worker process dies with all its threads, or just the answer is lost.
WorkerDies ==
    /\ "crash" \in Faults /\ Waiting /\ retries < MaxRetries
    /\ retries' = retries + 1
    /\ writer' = [w \in DOMAIN writer |->
                    IF w = Api THEN writer[w]
                    ELSE IF w = Current + 1 THEN Scheduled(PatchOf(pc)) ELSE Idle]
    /\ UNCHANGED <<row, snapshot, pc, roundNo, page>>

\* The attempt is out of time; its thread does not know.
AttemptTimesOut ==
    /\ writer[Current].phase \in {"scheduled", "read", "saved"} /\ retries < MaxRetries
    /\ (IF pc = "publish" THEN "slow-publish" ELSE "slow-patch") \in Faults
    /\ retries' = retries + 1
    /\ writer' = [writer EXCEPT ![Current + 1] = Scheduled(PatchOf(pc))]
    /\ UNCHANGED <<row, snapshot, pc, roundNo, page>>

Settled ==
    /\ pc \in {"created", "closed"} /\ \A w \in DOMAIN writer : writer[w] = Idle
    /\ UNCHANGED vars

Next ==
    \/ StartWorkflow \/ StartRejected \/ ApiDies
    \/ \E w \in Slots \cup {Api} : Write(w)
    \/ SchedulePatch \/ PatchAnswers \/ SearchReturns \/ TryRaises
    \/ SearchAttemptRaises \/ PublishAttemptRaises \/ WorkerDies \/ AttemptTimesOut
    \/ Settled

Spec == Init /\ [][Next]_vars

\* Threads run on, Temporal dispatches what is scheduled and delivers what is answered,
\* and CTS answers unless it is down for good.  Nothing has to go wrong.
FairSpec ==
    /\ Spec
    /\ WF_vars(StartWorkflow) /\ WF_vars(SchedulePatch) /\ WF_vars(PatchAnswers)
    /\ WF_vars(SearchReturns)
    /\ \A w \in Slots \cup {Api} : WF_vars(Write(w))

-----------------------------------------------------------------------------
(* Properties. *)

Ledger == row.steps

StepTypes == {"strategy", "dedupe", "analysis", "shortlist", "finalize"}

Step == [no : Nat, type : StepTypes, round : 0..MaxRounds, admitted : SUBSET Resumes]

Row == [status : {"queued", "running", "completed", "failed"}, round : 0..MaxRounds,
        steps : Seq(Step), seen : SUBSET Resumes,
        error : {"none", "AGENT_RUN_FAILED", "TEMPORAL_START_FAILED"},
        finished : BOOLEAN, trace : BOOLEAN]

\* Every variable has its type; the row, what the workflow remembers of it, and every
\* copy a thread is about to write are rows.
TypeOK ==
    /\ row \in Row /\ snapshot \in Row
    /\ pc \in PatchStages \cup {"created", "search", "closed"}
    /\ roundNo \in 0..MaxRounds /\ page \in SUBSET Resumes /\ retries \in 0..MaxRetries
    /\ DOMAIN writer = Slots \cup {Api}
    /\ \A w \in DOMAIN writer :
          /\ writer[w].phase \in {"idle", "starting", "scheduled", "read", "saved", "answer"}
          /\ writer[w].phase \in {"read", "saved", "answer"} => writer[w].record \in Row

\* The patch a step came in: its length, and the number of its first step.
PatchLength(step) == IF step.type \in {"analysis", "shortlist"} THEN 2 ELSE 1
PatchStart(step) == IF step.type = "shortlist" THEN step.no - 1 ELSE step.no

\* What stands behind an analysis in its patch.
ShortlistAfter(step) == [no |-> step.no + 1, type |-> "shortlist", round |-> step.round,
                         admitted |-> step.admitted]

\* At-least-once, no more: a step may stand in the ledger several times, for the patch
\* that appended it was retried, but patches are repeated whole and before anything else
\* is appended.  A step's number is the position of its first copy; from the first step
\* of its patch on the ledger repeats that patch alone, so that the two steps of a
\* ranking are never torn apart (persist_agent_run_patch_impl appends without looking,
\* _append_step numbers by the last snapshot).
PatchesRepeatWhole ==
    \A i \in DOMAIN Ledger :
        LET step == Ledger[i] IN
        /\ step.no <= i /\ Ledger[step.no] = step
        /\ \A k \in (PatchStart(step) + PatchLength(step))..i :
              Ledger[k] = Ledger[k - PatchLength(step)]
        /\ step.type = "analysis" =>
              /\ i < Len(Ledger)
              /\ Ledger[i + 1] = ShortlistAfter(step)

\* No resume is admitted to analysis in two rounds, whatever is retried.
AdmittedOnce ==
    \A i, j \in DOMAIN Ledger :
        Ledger[i].round # Ledger[j].round => Ledger[i].admitted \cap Ledger[j].admitted = {}

\* Whenever the workflow decides something, it decides on the row as it is: no patch
\* is lost, and nobody else has changed what it read.
SnapshotIsCurrent == pc \notin {"created", "closed"} /\ ~Waiting => snapshot = row

\* The row keeps the promises of RunLifecycle though every write may be repeated.
Lifecycle == INSTANCE RunLifecycle
    WITH status <- row.status, currentRound <- row.round, ledger <- row.steps,
         shortlist <- {}, finished <- row.finished, traced <- row.trace
ImplementsLifecycle == Lifecycle!Spec

\* A run whose start Temporal accepted or rejected is over one day and stays over, even
\* when fail_dispatch and the workflow write over one another.  (A request thread that
\* dies before the start leaves the run queued for good.)
RunSettles ==
    <>[](\/ row.status \in {"completed", "failed"}
         \/ pc = "created" /\ writer[Api] = Idle)

\* "Append-only steps" (mvp-agent-minimum-loop-plan.md:97,
\* pydantic-ai-temporal-migration-plan.md:52): whatever is written, the ledger keeps its steps.
LedgerAppendOnly ==
    [][/\ Len(row.steps) <= Len(row'.steps)
       /\ \A i \in DOMAIN row.steps : row'.steps[i] = row.steps[i]]_vars

\* "CTS errors must fail the run after bounded Temporal retry"
\* (pydantic-ai-temporal-migration-plan.md:64).
StartedRunEnds == pc = "start" ~> row.status \in {"completed", "failed"}
=============================================================================
