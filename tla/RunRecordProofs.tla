-------------------------- MODULE RunRecordProofs --------------------------
(***************************************************************************)
(* The row under at-least-once writes, for any number of repeated attempts,*)
(* rounds and resumes.  Types hold whatever goes wrong.  As long as no     *)
(* attempt to patch is too slow and the dispatch gets its answer, at most  *)
(* one thread writes the row while the workflow waits for a patch, and the *)
(* row is what the workflow remembers with that patch applied any number   *)
(* of times; several attempts may overlap only when the run is over, and   *)
(* all of them write the trace.  From this: the workflow decides on the    *)
(* row as it is, patches are repeated whole, no resume is admitted twice,  *)
(* and the row implements RunLifecycle.                                    *)
(***************************************************************************)
EXTENDS RunRecord, TLAPS

-----------------------------------------------------------------------------
(* Rows and patches, column by column. *)

Kind(c) ==
    CASE c = "status" -> {"queued", "running", "completed", "failed"}
      [] c = "round" -> 0..MaxRounds
      [] c = "steps" -> Seq(Step)
      [] c = "seen" -> SUBSET Resumes
      [] c = "error" -> {"none", "AGENT_RUN_FAILED", "TEMPORAL_START_FAILED"}
      [] OTHER -> BOOLEAN

IsRow(r) == r = [c \in Columns |-> r[c]] /\ \A c \in Columns : r[c] \in Kind(c)

IsPatch(p) ==
    /\ p.append \in Seq(Step)
    /\ DOMAIN p.set \subseteq Columns \ {"steps"}
    /\ \A c \in DOMAIN p.set : p.set[c] \in Kind(c)

\* A row is what has the right value in every column.
LEMMA RowByColumns == ASSUME NEW r PROVE r \in Row <=> IsRow(r)
<1>1. Columns = {"status", "round", "steps", "seen", "error", "finished", "trace"}
  BY DEF Columns
<1>2. ASSUME r \in Row PROVE IsRow(r)
  <2>1. r = [c \in Columns |-> r[c]]
    BY <1>2, <1>1 DEF Row
  <2>2. ASSUME NEW c \in Columns PROVE r[c] \in Kind(c)
    BY <1>1, <1>2, <2>2 DEF Row, Kind
  <2>. QED
    BY <2>1, <2>2 DEF IsRow
<1>3. ASSUME IsRow(r) PROVE r \in Row
  <2>1. r = [c \in Columns |-> r[c]] /\ DOMAIN r = Columns
    BY <1>3 DEF IsRow
  <2>2. /\ r.status \in Kind("status") /\ r.round \in Kind("round")
        /\ r.steps \in Kind("steps") /\ r.seen \in Kind("seen") /\ r.error \in Kind("error")
        /\ r.finished \in Kind("finished") /\ r.trace \in Kind("trace")
    BY <1>1, <1>3 DEF IsRow
  <2>3. r = [status |-> r.status, round |-> r.round, steps |-> r.steps, seen |-> r.seen,
             error |-> r.error, finished |-> r.finished, trace |-> r.trace]
    BY <2>1, <1>1
  <2>. QED
    BY <2>2, <2>3 DEF Row, Kind
<1>. QED
  BY <1>2, <1>3

\* Applying a patch sets its columns and appends its steps.
LEMMA ApplyColumns ==
    ASSUME NEW r, IsRow(r), NEW p, IsPatch(p)
    PROVE  /\ IsRow(Apply(r, p))
           /\ Apply(r, p).steps = r.steps \o p.append
           /\ \A c \in Columns \ {"steps"} :
                 Apply(r, p)[c] = IF c \in DOMAIN p.set THEN p.set[c] ELSE r[c]
<1> DEFINE a == Apply(r, p)
<1>1. "steps" \in Columns
  BY DEF Columns
<1>2. a = [c \in Columns |-> a[c]] /\ a.steps = r.steps \o p.append
  BY <1>1 DEF Apply
<1>3. \A c \in Columns \ {"steps"} : a[c] = IF c \in DOMAIN p.set THEN p.set[c] ELSE r[c]
  BY DEF Apply
<1>4. r.steps \in Seq(Step) /\ p.append \in Seq(Step)
  BY <1>1 DEF IsRow, IsPatch, Kind
<1>5. a.steps \in Seq(Step)
  <2>1. r.steps \o p.append \in Seq(Step)
    BY <1>4
  <2>. QED
    BY <1>2, <2>1
<1>6. ASSUME NEW c \in Columns PROVE a[c] \in Kind(c)
  <2>1. CASE c = "steps"
    <3>1. Kind("steps") = Seq(Step)
      BY DEF Kind
    <3>. QED
      BY <2>1, <3>1, <1>5
  <2>2. CASE c # "steps"
    BY <2>2, <1>3 DEF IsRow, IsPatch
  <2>. QED
    BY <2>1, <2>2
<1>. QED
  BY <1>2, <1>3, <1>6 DEF IsRow

-----------------------------------------------------------------------------
(* Types. *)

IsThread(t) ==
    /\ t.phase \in {"idle", "starting", "scheduled", "read", "saved", "answer"}
    /\ t.phase = "scheduled" => IsPatch(t.patch)
    /\ t.phase \in {"read", "saved", "answer"} => IsRow(t.record)

WorkflowTyped ==
    /\ IsRow(row) /\ IsRow(snapshot)
    /\ pc \in PatchStages \cup {"created", "search", "closed"}
    /\ roundNo \in 0..MaxRounds
    /\ pc \in {"created", "start", "strategy"} => roundNo = 0
    /\ page \in SUBSET Resumes
    /\ retries \in 0..MaxRetries

Threads == Slots \cup {Api}

WritersTyped ==
    /\ writer = [w \in Threads |-> writer[w]]
    /\ \A w \in Threads : IsThread(writer[w])
    /\ \A w \in Threads : writer[w].phase = "starting" => w = Api /\ pc = "created"
    /\ \A w \in Slots : w > Current => writer[w].phase = "idle"
    /\ pc \in {"created", "search", "closed"} => writer[Current].phase = "idle"

TypeInv == WorkflowTyped /\ WritersTyped

LEMMA Kinds ==
    /\ Columns = {"status", "round", "steps", "seen", "error", "finished", "trace"}
    /\ Kind("status") = {"queued", "running", "completed", "failed"}
    /\ Kind("round") = 0..MaxRounds
    /\ Kind("steps") = Seq(Step)
    /\ Kind("seen") = SUBSET Resumes
    /\ Kind("error") = {"none", "AGENT_RUN_FAILED", "TEMPORAL_START_FAILED"}
    /\ Kind("finished") = BOOLEAN
    /\ Kind("trace") = BOOLEAN
BY DEF Columns, Kind

LEMMA Constants ==
    /\ MaxRounds \in Nat /\ MinRounds \in Nat /\ MaxRetries \in Nat
    /\ 1 <= MaxRounds
BY RoundsAssumption, FaultsAssumption

LEMMA CurrentIsASlot ==
    ASSUME WorkflowTyped
    PROVE  /\ Current \in Slots /\ Current \in Threads /\ Current # Api
           /\ \A w \in Slots : w # Api
           /\ retries < MaxRetries => Current + 1 \in Slots
BY Constants DEF WorkflowTyped, Current, Slots, Threads, Api

LEMMA StepTyped ==
    ASSUME WorkflowTyped, NEW place \in {1, 2}, NEW type \in StepTypes,
           NEW round \in 0..MaxRounds, NEW admitted \in SUBSET Resumes
    PROVE  NewStep(place, type, round, admitted) \in Step
<1>1. snapshot.steps \in Seq(Step)
  <2>1. "steps" \in Columns /\ Kind("steps") = Seq(Step)
    BY DEF Columns, Kind
  <2>. QED
    BY <2>1 DEF WorkflowTyped, IsRow
<1>2. Len(snapshot.steps) + place \in Nat
  BY <1>1
<1>. QED
  BY <1>2 DEF NewStep, Step

\* The patches of the workflow write values of the right type.
LEMMA PatchTyped ==
    ASSUME WorkflowTyped, NEW stage \in PatchStages
    PROVE  IsPatch(PatchOf(stage))
<1>1. /\ snapshot.seen \in SUBSET Resumes /\ snapshot.round \in 0..MaxRounds
  <2>1. /\ "seen" \in Columns /\ Kind("seen") = SUBSET Resumes
        /\ "round" \in Columns /\ Kind("round") = 0..MaxRounds
    BY DEF Columns, Kind
  <2>. QED
    BY <2>1 DEF WorkflowTyped, IsRow
<1>2. /\ roundNo \in 0..MaxRounds /\ page \in SUBSET Resumes /\ 0 \in 0..MaxRounds
  BY Constants DEF WorkflowTyped
<1>3. /\ NewStep(1, "strategy", 0, {}) \in Step
      /\ NewStep(1, "dedupe", roundNo, page \ snapshot.seen) \in Step
      /\ NewStep(1, "analysis", roundNo, {}) \in Step
      /\ NewStep(2, "shortlist", roundNo, {}) \in Step
      /\ NewStep(1, "finalize", snapshot.round, {}) \in Step
  <2>1. {} \in SUBSET Resumes /\ page \ snapshot.seen \in SUBSET Resumes
    BY <1>2
  <2>2. {"strategy", "dedupe", "analysis", "shortlist", "finalize"} \subseteq StepTypes
    BY DEF StepTypes
  <2>. QED
    BY <1>1, <1>2, <2>1, <2>2, StepTyped
<1>4. /\ <<>> \in Seq(Step)
      /\ \A s \in Step : <<s>> \in Seq(Step)
      /\ \A s, t \in Step : <<s, t>> \in Seq(Step)
  OBVIOUS
<1>5. CASE stage = "start"
  <2>1. /\ PatchOf(stage).append = <<>>
        /\ PatchOf(stage).set = [status |-> "running", error |-> "none"]
    BY <1>5 DEF PatchOf
  <2>. QED
    BY <1>4, <2>1, Kinds DEF IsPatch
<1>6. CASE stage = "strategy"
  <2>1. /\ PatchOf(stage).append = <<NewStep(1, "strategy", 0, {})>>
        /\ PatchOf(stage).set = <<>>
    BY <1>6 DEF PatchOf
  <2>. QED
    BY <1>3, <1>4, <2>1 DEF IsPatch
<1>7. CASE stage = "round"
  <2>1. PatchOf(stage).append = <<>> /\ PatchOf(stage).set = [round |-> roundNo]
    BY <1>7 DEF PatchOf
  <2>2. DOMAIN PatchOf(stage).set = {"round"} /\ PatchOf(stage).set["round"] = roundNo
    BY <2>1
  <2>3. roundNo \in Kind("round")
    BY <1>2, Kinds
  <2>. QED
    BY <1>4, <2>1, <2>2, <2>3, Kinds DEF IsPatch
<1>8. CASE stage = "dedupe"
  <2>1. /\ PatchOf(stage).append = <<NewStep(1, "dedupe", roundNo, page \ snapshot.seen)>>
        /\ PatchOf(stage).set = [seen |-> SeenAfter]
    BY <1>8 DEF PatchOf
  <2>2. SeenAfter \in SUBSET Resumes
    BY <1>1, <1>2 DEF SeenAfter
  <2>. QED
    BY <1>3, <1>4, <2>1, <2>2, Kinds DEF IsPatch
<1>9. CASE stage = "complete"
  <2>1. /\ PatchOf(stage).append = <<NewStep(1, "finalize", snapshot.round, {})>>
        /\ PatchOf(stage).set = [status |-> "completed", finished |-> TRUE]
    BY <1>9 DEF PatchOf
  <2>2. /\ DOMAIN PatchOf(stage).set = {"status", "finished"}
        /\ PatchOf(stage).set["status"] \in Kind("status")
        /\ PatchOf(stage).set["finished"] = TRUE
    BY <2>1, Kinds
  <2>3. TRUE \in Kind("finished")
    BY Zenon, Kinds
  <2>4. PatchOf(stage).append \in Seq(Step)
    BY <1>3, <1>4, <2>1
  <2>. QED
    BY <2>2, <2>3, <2>4, Kinds DEF IsPatch
<1>10. CASE stage = "fail"
  <2>1. /\ PatchOf(stage).append = <<>>
        /\ PatchOf(stage).set =
              [status |-> "failed", error |-> "AGENT_RUN_FAILED", finished |-> TRUE]
    BY <1>10 DEF PatchOf
  <2>2. /\ DOMAIN PatchOf(stage).set = {"status", "error", "finished"}
        /\ PatchOf(stage).set["status"] \in Kind("status")
        /\ PatchOf(stage).set["error"] \in Kind("error")
        /\ PatchOf(stage).set["finished"] = TRUE
    BY <2>1, Kinds
  <2>3. TRUE \in Kind("finished")
    BY Zenon, Kinds
  <2>. QED
    BY <1>4, <2>1, <2>2, <2>3, Kinds DEF IsPatch
<1>11. CASE stage = "publish"
  <2>1. PatchOf(stage).append = <<>> /\ PatchOf(stage).set = [trace |-> TRUE]
    BY <1>11 DEF PatchOf
  <2>2. /\ DOMAIN PatchOf(stage).set = {"trace"}
        /\ PatchOf(stage).set["trace"] = TRUE
    BY <2>1
  <2>3. TRUE \in Kind("trace")
    BY Zenon, Kinds
  <2>. QED
    BY <1>4, <2>1, <2>2, <2>3, Kinds DEF IsPatch
<1>12. CASE stage = "rank"
  <2>1. /\ PatchOf(stage).append = <<NewStep(1, "analysis", roundNo, {}),
                                     NewStep(2, "shortlist", roundNo, {})>>
        /\ PatchOf(stage).set = <<>>
    BY <1>12 DEF PatchOf
  <2>2. PatchOf(stage).append \in Seq(Step) /\ DOMAIN PatchOf(stage).set = {}
    BY <1>3, <1>4, <2>1
  <2>. QED
    BY <2>2 DEF IsPatch
<1>. QED
  BY <1>5, <1>6, <1>7, <1>8, <1>9, <1>10, <1>11, <1>12 DEF PatchStages

LEMMA DispatchFailedTyped == IsPatch(DispatchFailed)
<1>1. <<>> \in Seq(Step)
  OBVIOUS
<1>2. /\ DOMAIN DispatchFailed.set = {"status", "error", "finished"}
      /\ DispatchFailed.set["status"] \in Kind("status")
      /\ DispatchFailed.set["error"] \in Kind("error")
      /\ DispatchFailed.set["finished"] = TRUE
      /\ DispatchFailed.append = <<>>
  BY Kinds DEF DispatchFailed
<1>3. TRUE \in Kind("finished")
  BY Zenon, Kinds
<1>. QED
  BY <1>1, <1>2, <1>3, Kinds DEF IsPatch

LEMMA ThreadsTyped ==
    /\ IsThread(Idle) /\ Idle.phase = "idle"
    /\ \A p : Scheduled(p).phase = "scheduled" /\ Scheduled(p).patch = p
    /\ \A p : IsPatch(p) => IsThread(Scheduled(p))
BY DEF IsThread, Idle, Scheduled

\* One thread moves while the workflow waits or rests.
LEMMA OneThreadMoves ==
    ASSUME TypeInv, NEW w \in Threads, NEW t, IsThread(t), t.phase # "starting",
           writer' = [writer EXCEPT ![w] = t], UNCHANGED <<pc, retries>>,
           \/ t.phase = "idle" \/ w = Api
           \/ w <= Current /\ pc \notin {"created", "search", "closed"}
           \/ w <= Current /\ w # Current
    PROVE  WritersTyped'
<1>1. \A v \in Threads : writer'[v] = IF v = w THEN t ELSE writer[v]
  BY DEF TypeInv, WritersTyped
<1>2. writer' = [v \in Threads |-> writer'[v]]
  BY DEF TypeInv, WritersTyped
<1>3. Current' = Current /\ Current \in Threads /\ Current # Api /\ Current \in Slots
  BY CurrentIsASlot DEF TypeInv, Current
<1>4. \A v \in Slots : v \in Threads /\ v # Api /\ v \in Int
  BY DEF Threads, Slots, Api
<1>5. \A v \in Threads : IsThread(writer'[v])
  BY <1>1 DEF TypeInv, WritersTyped
<1>6. \A v \in Threads : writer'[v].phase = "starting" => v = Api /\ pc' = "created"
  BY <1>1 DEF TypeInv, WritersTyped
<1>7. ASSUME NEW v \in Slots, v > Current' PROVE writer'[v].phase = "idle"
  <2>1. v > Current
    BY <1>3, <1>7
  <2>2. CASE v = w
    <3>1. t.phase = "idle"
      BY <1>3, <1>4, <2>1, <2>2
    <3>. QED
      BY <1>1, <1>4, <2>2, <3>1
  <2>3. CASE v # w
    BY <1>1, <1>4, <2>1, <2>3 DEF TypeInv, WritersTyped
  <2>. QED
    BY <2>2, <2>3
<1>8. pc' \in {"created", "search", "closed"} => writer'[Current'].phase = "idle"
  BY <1>1, <1>3 DEF TypeInv, WritersTyped
<1>. QED
  BY <1>2, <1>5, <1>6, <1>7, <1>8 DEF WritersTyped

\* The workflow moves on and its thread, if it had one, has nothing more to do.
LEMMA WorkflowMoves ==
    ASSUME TypeInv, UNCHANGED retries, Current' = Current,
           \/ writer' = writer /\ writer[Current].phase = "idle"
           \/ writer' = [writer EXCEPT ![Current] = Idle],
           pc # "created", pc' # "created"
    PROVE  WritersTyped'
<1>1. Current \in Threads /\ Current # Api /\ Current \in Slots
  BY CurrentIsASlot DEF TypeInv
<1>2. /\ writer' = [v \in Threads |-> writer'[v]]
      /\ \A v \in Threads : writer'[v] = writer[v] \/ (v = Current /\ writer'[v] = Idle)
      /\ writer'[Current].phase = "idle"
  BY <1>1, ThreadsTyped DEF TypeInv, WritersTyped
<1>3. \A v \in Slots : v \in Threads
  BY DEF Threads
<1>4. \A v \in Threads : IsThread(writer'[v]) /\ writer'[v].phase # "starting"
  BY <1>2, ThreadsTyped DEF TypeInv, WritersTyped
<1>5. ASSUME NEW v \in Slots, v > Current' PROVE writer'[v].phase = "idle"
  BY <1>2, <1>3, <1>5, ThreadsTyped DEF TypeInv, WritersTyped
<1>. QED
  BY <1>2, <1>4, <1>5 DEF WritersTyped

\* An attempt is given up and the next one scheduled.
LEMMA NextAttempt ==
    ASSUME TypeInv, NEW p, IsPatch(p), retries < MaxRetries, retries' = retries + 1,
           UNCHANGED pc, pc \in PatchStages,
           writer' = [w \in Threads |-> writer'[w]],
           \A w \in Threads :
              \/ w = Current + 1 /\ writer'[w] = Scheduled(p)
              \/ w # Current + 1 /\ writer'[w] = writer[w]
              \/ w # Current + 1 /\ writer'[w] = Idle
    PROVE  WritersTyped'
<1>1. Current \in Slots /\ Current' = Current + 1 /\ Current \in Nat
  BY CurrentIsASlot DEF TypeInv, Current, Slots
<1>2. \A w \in Threads : IsThread(writer'[w])
  BY ThreadsTyped DEF TypeInv, WritersTyped
<1>3. \A w \in Threads : writer'[w].phase # "starting"
  <2>1. pc # "created"
    BY DEF PatchStages
  <2>. QED
    BY <2>1, ThreadsTyped DEF TypeInv, WritersTyped
<1>4. ASSUME NEW w \in Slots, w > Current' PROVE writer'[w].phase = "idle"
  <2>1. w \in Threads /\ w \in Int /\ w > Current /\ w # Current + 1
    BY <1>1, <1>4 DEF Threads, Slots
  <2>2. writer[w].phase = "idle"
    BY <2>1 DEF TypeInv, WritersTyped
  <2>. QED
    BY <2>1, <2>2, ThreadsTyped
<1>5. pc' \notin {"created", "search", "closed"}
  BY DEF PatchStages
<1>. QED
  BY <1>2, <1>3, <1>4, <1>5 DEF WritersTyped

LEMMA InitTyped == Init => TypeInv
<1> SUFFICES ASSUME Init PROVE TypeInv
  OBVIOUS
<1>1. /\ row = [c \in Columns |-> row[c]] /\ row["status"] = "queued" /\ row["round"] = 0
      /\ row["steps"] = <<>> /\ row["seen"] = {} /\ row["error"] = "none"
      /\ row["finished"] = FALSE /\ row["trace"] = FALSE
  BY DEF Init, Columns
<1>2. /\ 0 \in 0..MaxRounds /\ <<>> \in Seq(Step) /\ {} \in SUBSET Resumes
  BY Constants
<1>3. FALSE \in Kind("finished") /\ FALSE \in Kind("trace")
  BY Zenon, Kinds
<1>4. /\ row["status"] \in Kind("status") /\ row["round"] \in Kind("round")
      /\ row["steps"] \in Kind("steps") /\ row["seen"] \in Kind("seen")
      /\ row["error"] \in Kind("error")
      /\ row["finished"] \in Kind("finished") /\ row["trace"] \in Kind("trace")
  BY <1>1, <1>2, <1>3, Kinds
<1>5. \A c \in Columns : row[c] \in Kind(c)
  BY <1>4, Kinds
<1>6. WorkflowTyped
  <2>1. IsRow(row) /\ IsRow(snapshot)
    BY <1>1, <1>5 DEF Init, IsRow
  <2>. QED
    BY <1>2, <2>1, Constants DEF Init, WorkflowTyped
<1>7. /\ writer = [w \in Threads |-> writer[w]]
      /\ \A w \in Threads : writer[w] = IF w = Api THEN [phase |-> "starting"] ELSE Idle
  BY DEF Init, Threads
<1>8. IsThread([phase |-> "starting"])
  BY DEF IsThread
<1>9. \A w \in Slots : w \in Threads /\ w # Api
  BY DEF Threads, Slots, Api
<1>10. WritersTyped
  BY <1>6, <1>7, <1>8, <1>9, ThreadsTyped, CurrentIsASlot DEF WritersTyped, Init
<1>. QED
  BY <1>6, <1>10 DEF TypeInv

LEMMA NextTyped == TypeInv /\ [Next]_vars => TypeInv'
<1> SUFFICES ASSUME TypeInv, [Next]_vars PROVE TypeInv'
  OBVIOUS
<1> USE DEF TypeInv
<1>1. /\ Current \in Slots /\ Current \in Threads /\ Current # Api
      /\ \A w \in Slots : w # Api /\ w \in Threads
      /\ retries < MaxRetries => Current + 1 \in Threads
      /\ Api \in Threads
  BY CurrentIsASlot DEF Threads
<1>2. ASSUME StartWorkflow PROVE TypeInv'
  <2>1. pc = "created"
    BY <1>1, <1>2 DEF StartWorkflow, WritersTyped
  <2>2. WorkflowTyped'
    BY <1>2, <2>1 DEF StartWorkflow, WorkflowTyped, PatchStages
  <2>3. Current' = Current /\ writer[Current].phase = "idle"
    BY <1>2, <2>1 DEF StartWorkflow, WritersTyped, Current
  <2>4. /\ writer' = [w \in Threads |-> writer'[w]]
        /\ \A w \in Threads : w # Api => writer'[w] = writer[w]
        /\ writer'[Api] \in {Idle, Scheduled(DispatchFailed)}
    BY <1>1, <1>2 DEF StartWorkflow, WritersTyped
  <2>5. \A w \in Threads : IsThread(writer'[w])
    BY <2>4, DispatchFailedTyped, ThreadsTyped DEF WritersTyped
  <2>6. \A w \in Threads : writer'[w].phase # "starting"
    BY <2>4, ThreadsTyped DEF WritersTyped
  <2>7. \A w \in Slots : w > Current' => writer'[w].phase = "idle"
    BY <1>1, <2>3, <2>4 DEF WritersTyped
  <2>. QED
    BY <1>1, <1>2, <2>2, <2>4, <2>5, <2>6, <2>7 DEF WritersTyped, StartWorkflow
<1>3. ASSUME StartRejected \/ ApiDies PROVE TypeInv'
  <2>1. WorkflowTyped' /\ UNCHANGED <<pc, retries>>
    BY <1>3 DEF StartRejected, ApiDies, WorkflowTyped
  <2>2. PICK t : /\ t \in {Idle, Scheduled(DispatchFailed)}
                 /\ writer' = [writer EXCEPT ![Api] = t]
    BY <1>3 DEF StartRejected, ApiDies
  <2>3. IsThread(t) /\ t.phase # "starting"
    BY <2>2, DispatchFailedTyped, ThreadsTyped
  <2>. QED
    BY <1>1, <2>1, <2>2, <2>3, OneThreadMoves
<1>4. ASSUME NEW w \in Threads, ReadRow(w) \/ SaveRecord(w) \/ Commit(w) PROVE TypeInv'
  <2>1. UNCHANGED <<pc, retries>> /\ writer[w].phase \notin {"idle", "starting"}
    BY <1>4 DEF ReadRow, SaveRecord, Commit
  <2>2. \/ w = Api
        \/ w <= Current /\ (w # Current \/ pc \notin {"created", "search", "closed"})
    <3>1. w # Api => w \in Slots /\ w \in Int /\ Current \in Int
      BY <1>1 DEF Threads, Slots
    <3>2. w # Api => w <= Current
      BY <2>1, <3>1 DEF WritersTyped
    <3>. QED
      BY <2>1, <3>2 DEF WritersTyped
  <2>3. CASE ReadRow(w)
    <3> DEFINE t == [phase |-> "read", record |-> Apply(row, writer[w].patch)]
    <3>1. IsRow(t.record)
      BY <2>3, ApplyColumns DEF ReadRow, WorkflowTyped, WritersTyped, IsThread
    <3>2. IsThread(t) /\ t.phase # "starting" /\ writer' = [writer EXCEPT ![w] = t]
      BY <2>3, <3>1 DEF ReadRow, IsThread
    <3>3. WorkflowTyped'
      BY <2>3 DEF ReadRow, WorkflowTyped
    <3> HIDE DEF t
    <3>. QED
      BY <2>1, <2>2, <3>2, <3>3, OneThreadMoves
  <2>4. CASE SaveRecord(w)
    <3> DEFINE t == [phase |-> "saved", record |-> writer[w].record,
                     dirty |-> ColumnsToWrite(writer[w].record)]
    <3>1. IsRow(t.record)
      BY <2>4 DEF SaveRecord, WritersTyped, IsThread
    <3>2. IsThread(t) /\ t.phase # "starting" /\ writer' = [writer EXCEPT ![w] = t]
      BY <2>4, <3>1 DEF SaveRecord, IsThread
    <3>3. WorkflowTyped'
      BY <2>4 DEF SaveRecord, WorkflowTyped
    <3> HIDE DEF t
    <3>. QED
      BY <2>1, <2>2, <3>2, <3>3, OneThreadMoves
  <2>5. CASE Commit(w)
    <3> DEFINE t == IF w = Current THEN [phase |-> "answer", record |-> writer[w].record]
                    ELSE Idle
    <3>1. IsRow(writer[w].record)
      BY <2>5 DEF Commit, WritersTyped, IsThread
    <3>2. IsThread(t) /\ t.phase # "starting" /\ writer' = [writer EXCEPT ![w] = t]
      BY <2>5, <3>1, ThreadsTyped DEF Commit, IsThread
    <3>3. IsRow(row')
      BY <2>5, <3>1 DEF Commit, WorkflowTyped, IsRow
    <3>4. WorkflowTyped'
      BY <2>5, <3>3 DEF Commit, WorkflowTyped
    <3> HIDE DEF t
    <3>. QED
      BY <2>1, <2>2, <3>2, <3>4, OneThreadMoves
  <2>. QED
    BY <1>4, <2>3, <2>4, <2>5
<1>5. ASSUME SchedulePatch PROVE TypeInv'
  <2>1. WorkflowTyped' /\ UNCHANGED <<pc, retries>>
    BY <1>5 DEF SchedulePatch, WorkflowTyped
  <2>2. /\ IsThread(Scheduled(PatchOf(pc))) /\ Scheduled(PatchOf(pc)).phase # "starting"
        /\ writer' = [writer EXCEPT ![Current] = Scheduled(PatchOf(pc))]
    BY <1>5, PatchTyped, ThreadsTyped DEF SchedulePatch
  <2>3. Current <= Current /\ pc \notin {"created", "search", "closed"}
    BY <1>1, <1>5 DEF SchedulePatch, PatchStages, Slots
  <2>. QED
    BY <1>1, <2>1, <2>2, <2>3, OneThreadMoves
<1>6. ASSUME PatchAnswers PROVE TypeInv'
  <2>1. pc \in PatchStages
    BY <1>6 DEF PatchAnswers, WritersTyped, WorkflowTyped
  <2>2. pc' \in Following(pc) /\ UNCHANGED <<row, page, retries>> /\ Current' = Current
    BY <1>6 DEF PatchAnswers, Current
  <2>3. /\ pc' \in (PatchStages \cup {"search", "closed"}) \ {"start"}
        /\ pc' = "strategy" => pc = "start"
        /\ pc' = "round" => pc = "strategy" \/ (pc = "rank" /\ roundNo < MaxRounds)
    BY <2>1, <2>2 DEF Following, PatchStages, LoopMayContinue
  <2>4. snapshot' = writer[Current].record /\ IsRow(snapshot')
    BY <1>1, <1>6 DEF PatchAnswers, Answered, WritersTyped, IsThread
  <2>5. roundNo' \in 0..MaxRounds
    BY <1>6, <2>3, Constants DEF PatchAnswers, WorkflowTyped
  <2>6. pc' = "strategy" => roundNo' = 0
    BY <1>6, <2>3 DEF PatchAnswers, WorkflowTyped
  <2>7. WorkflowTyped'
    BY <2>2, <2>3, <2>4, <2>5, <2>6 DEF WorkflowTyped, PatchStages
  <2>8. pc # "created" /\ pc' # "created"
    BY <2>1, <2>3 DEF PatchStages
  <2>9. writer' = [writer EXCEPT ![Current] = Idle]
    BY <1>6 DEF PatchAnswers
  <2>. QED
    BY <2>2, <2>7, <2>8, <2>9, WorkflowMoves
<1>7. ASSUME SearchReturns \/ TryRaises PROVE TypeInv'
  <2>1. /\ UNCHANGED <<row, snapshot, retries, writer, roundNo>> /\ Current' = Current
        /\ pc \in TryBody /\ pc' \in {"dedupe", "fail"}
        /\ page' \in SUBSET Resumes
    BY <1>7 DEF SearchReturns, TryRaises, TryBody, Current, WorkflowTyped
  <2>2. writer[Current].phase = "idle"
    BY <1>7 DEF SearchReturns, TryRaises, Waiting, WritersTyped
  <2>3. WorkflowTyped'
    BY <2>1 DEF WorkflowTyped, PatchStages
  <2>4. pc # "created" /\ pc' # "created"
    BY <2>1 DEF TryBody
  <2>. QED
    BY <2>1, <2>2, <2>3, <2>4, WorkflowMoves
<1>8. ASSUME SearchAttemptRaises PROVE TypeInv'
  <2>1. /\ pc = "search" /\ UNCHANGED <<row, snapshot, pc, roundNo, page, writer>>
        /\ retries' = retries \/ (retries' = retries + 1 /\ retries < MaxRetries)
    BY <1>8 DEF SearchAttemptRaises
  <2>2. WorkflowTyped'
    BY <2>1, Constants DEF WorkflowTyped
  <2>3. CASE retries' = retries
    BY <2>1, <2>3 DEF WritersTyped, WorkflowTyped, Current
  <2>4. CASE retries' = retries + 1 /\ retries < MaxRetries
    <3>1. Current' = Current + 1 /\ Current + 1 \in Slots /\ Current \in Int
      BY <2>4, CurrentIsASlot DEF Current, Slots
    <3>2. \A w \in Slots : w >= Current + 1 => w > Current
      BY <3>1 DEF Slots
    <3>3. \A w \in Slots : w > Current => writer'[w].phase = "idle"
      BY <2>1 DEF WritersTyped
    <3>4. writer'[Current'].phase = "idle"
      BY <3>1, <3>2, <3>3
    <3>5. \A w \in Slots : w > Current' => writer'[w].phase = "idle"
      BY <3>1, <3>3 DEF Slots
    <3>. QED
      BY <2>1, <2>2, <3>4, <3>5 DEF WritersTyped
  <2>. QED
    BY <2>1, <2>3, <2>4
<1>9. ASSUME PublishAttemptRaises \/ WorkerDies \/ AttemptTimesOut PROVE TypeInv'
  <2>1. /\ retries < MaxRetries /\ retries' = retries + 1
        /\ UNCHANGED <<row, snapshot, pc, roundNo, page>>
        /\ writer[Current].phase # "idle"
    BY <1>9 DEF PublishAttemptRaises, WorkerDies, AttemptTimesOut, Waiting
  <2>2. pc \in PatchStages
    BY <2>1 DEF WritersTyped, WorkflowTyped
  <2>3. Current + 1 \in Threads /\ Current + 1 # Current /\ Current + 1 # Api
    BY <1>1, <2>1, CurrentIsASlot DEF Threads, Slots
  <2>4. /\ writer' = [w \in Threads |-> writer'[w]]
        /\ \A w \in Threads :
              \/ w = Current + 1 /\ writer'[w] = Scheduled(PatchOf(pc))
              \/ w # Current + 1 /\ writer'[w] = writer[w]
              \/ w # Current + 1 /\ writer'[w] = Idle
    BY <1>1, <1>9, <2>3 DEF PublishAttemptRaises, WorkerDies, AttemptTimesOut, WritersTyped
  <2>5. WorkflowTyped'
    BY <2>1, Constants DEF WorkflowTyped
  <2>. QED
    BY <2>1, <2>2, <2>4, <2>5, PatchTyped, NextAttempt
<1>10. CASE UNCHANGED vars
  BY <1>10 DEF vars, WorkflowTyped, WritersTyped, Current
<1>. QED
  BY <1>2, <1>3, <1>4, <1>5, <1>6, <1>7, <1>8, <1>9, <1>10
     DEF Next, Write, Settled, Threads

\* Whatever goes wrong in a run, the row and every copy of it are rows.
THEOREM RowTypeCorrect == Spec => []TypeOK
<1>1. TypeInv => TypeOK
  <2> SUFFICES ASSUME TypeInv PROVE TypeOK
    OBVIOUS
  <2>1. row \in Row /\ snapshot \in Row
    BY RowByColumns DEF TypeInv, WorkflowTyped
  <2>2. DOMAIN writer = Slots \cup {Api}
    BY DEF TypeInv, WritersTyped, Threads
  <2>3. \A w \in DOMAIN writer :
           /\ writer[w].phase \in {"idle", "starting", "scheduled", "read", "saved", "answer"}
           /\ writer[w].phase \in {"read", "saved", "answer"} => writer[w].record \in Row
    BY <2>2, RowByColumns DEF TypeInv, WritersTyped, Threads, IsThread
  <2>. QED
    BY <2>1, <2>2, <2>3 DEF TypeInv, WorkflowTyped, TypeOK
<1>. QED
  BY <1>1, InitTyped, NextTyped, PTL DEF Spec

-----------------------------------------------------------------------------
(* What a patch that is repeated makes of a row. *)

\* q is the ledger base with any number of copies of tail, one after the other: each
\* position behind base lies in a whole copy, the j-th of it, and behind the first copy
\* the steps come again and again.
LedgerAhead(q, base, tail) ==
    /\ Len(base) <= Len(q)
    /\ \A i \in 1..Len(base) : q[i] = base[i]
    /\ \A i \in (Len(base) + 1)..Len(q) : \E j \in 1..Len(tail) :
          /\ Len(base) <= i - j /\ i - j + Len(tail) <= Len(q)
          /\ \A l \in 1..Len(tail) : q[i - j + l] = tail[l]
    /\ \A i \in (Len(base) + Len(tail) + 1)..Len(q) : q[i] = q[i - Len(tail)]

\* r is the row base with the patch applied at least once.
Patched(r, base, p) ==
    /\ LedgerAhead(r.steps, base.steps, p.append)
    /\ \A c \in Columns \ {"steps"} :
          r[c] = IF c \in DOMAIN p.set THEN p.set[c] ELSE base[c]

\* Where the elements of two concatenated sequences are.
LEMMA Concatenation ==
    ASSUME NEW S, NEW a \in Seq(S), NEW b \in Seq(S)
    PROVE  /\ Len(a) \in Nat /\ Len(b) \in Nat /\ Len(a \o b) = Len(a) + Len(b)
           /\ \A i \in 1..Len(a) : (a \o b)[i] = a[i]
           /\ \A i \in (Len(a) + 1)..Len(a \o b) : (a \o b)[i] = b[i - Len(a)]
OBVIOUS

\* One more copy leaves a ledger that is ahead ahead.
LEMMA AheadByOneMore ==
    ASSUME NEW S, NEW base \in Seq(S), NEW q \in Seq(S), NEW tail \in Seq(S),
           LedgerAhead(q, base, tail)
    PROVE  /\ LedgerAhead(q \o tail, base, tail)
           /\ Len(q) <= Len(q \o tail)
           /\ \A i \in 1..Len(q) : (q \o tail)[i] = q[i]
<1> DEFINE r == q \o tail
           n == Len(base)
           m == Len(tail)
           k == Len(q)
<1>1. Len(r) = k + m
  BY Concatenation
<1>2. \A i \in 1..k : r[i] = q[i]
  BY Concatenation
<1>3. \A i \in (k + 1)..(k + m) : r[i] = tail[i - k]
  BY <1>1, Concatenation
<1>4. n \in Nat /\ m \in Nat /\ k \in Nat /\ n <= k
  BY DEF LedgerAhead
<1>5. \A i \in 1..n : q[i] = base[i]
  BY DEF LedgerAhead
<1>6. \A i \in (n + 1)..k : \E j \in 1..m :
         n <= i - j /\ i - j + m <= k /\ \A l \in 1..m : q[i - j + l] = tail[l]
  BY DEF LedgerAhead
<1>7. \A i \in (n + m + 1)..k : q[i] = q[i - m]
  BY DEF LedgerAhead
<1> HIDE DEF r, n, m, k
<1>8. ASSUME NEW i \in 1..n PROVE r[i] = base[i]
  <2>1. i \in 1..k
    BY <1>4
  <2>. QED
    BY <1>2, <1>5, <2>1
<1>9. ASSUME NEW l \in 1..m PROVE r[k + l] = tail[l]
  <2>1. k + l \in (k + 1)..(k + m) /\ (k + l) - k = l
    BY <1>4
  <2>. QED
    BY <1>3, <2>1
<1>10. ASSUME NEW i \in (n + 1)..(k + m)
       PROVE  \E j \in 1..m : /\ n <= i - j /\ i - j + m <= k + m
                               /\ \A l \in 1..m : r[i - j + l] = tail[l]
  <2>1. CASE i <= k
    <3>1. i \in (n + 1)..k
      BY <1>4, <2>1
    <3>2. PICK j \in 1..m : /\ n <= i - j /\ i - j + m <= k
                             /\ \A l \in 1..m : q[i - j + l] = tail[l]
      BY <1>6, <3>1
    <3>3. ASSUME NEW l \in 1..m PROVE r[i - j + l] = tail[l]
      <4>1. n <= i - j /\ i - j + m <= k
        BY <3>2
      <4>2. i - j + l \in 1..k
        BY <1>4, <4>1
      <4>. QED
        BY <1>2, <3>2, <4>2
    <3>4. n <= i - j /\ i - j + m <= k + m
      <4>1. n <= i - j /\ i - j + m <= k
        BY <3>2
      <4>. QED
        BY <1>4, <4>1
    <3>. QED
      BY <3>3, <3>4
  <2>2. CASE i > k
    <3> DEFINE j == i - k
    <3>1. j \in 1..m /\ i - j = k
      BY <1>4, <2>2
    <3>2. n <= i - j /\ i - j + m <= k + m
      BY <1>4, <3>1
    <3> HIDE DEF j
    <3>3. \A l \in 1..m : r[i - j + l] = tail[l]
      BY <1>9, <3>1
    <3>. QED
      BY <3>1, <3>2, <3>3
  <2>. QED
    BY <1>4, <2>1, <2>2
<1>11. ASSUME NEW i \in (n + m + 1)..(k + m) PROVE r[i] = r[i - m]
  <2>1. CASE i <= k
    <3>1. i \in (n + m + 1)..k /\ i \in 1..k /\ i - m \in 1..k
      BY <1>4, <2>1
    <3>. QED
      BY <1>2, <1>7, <3>1
  <2>2. CASE i > k
    <3>1. /\ i \in (k + 1)..(k + m) /\ i - k \in 1..m /\ i - m \in 1..k
          /\ k \in (n + 1)..k
      BY <1>4, <2>2
    <3>2. PICK j \in 1..m : /\ n <= k - j /\ k - j + m <= k
                             /\ \A l \in 1..m : q[k - j + l] = tail[l]
      BY <1>6, <3>1
    <3>3. k - j + m <= k
      BY <3>2
    <3>4. k - j + (i - k) = i - m
      BY <1>4, <3>3
    <3>5. q[i - m] = tail[i - k]
      BY <3>1, <3>2, <3>4
    <3>6. r[i - m] = q[i - m] /\ r[i] = tail[i - k]
      BY <1>2, <1>3, <3>1
    <3>. QED
      BY <3>5, <3>6
  <2>. QED
    BY <1>4, <2>1, <2>2
<1>12. n <= k + m /\ k <= k + m
  BY <1>4
<1>13. LedgerAhead(r, base, tail)
  BY <1>1, <1>8, <1>10, <1>11, <1>12 DEF LedgerAhead, n, m
<1>. QED
  BY <1>1, <1>2, <1>12, <1>13 DEF r, k

LEMMA RowLedger == ASSUME NEW r, IsRow(r) PROVE r.steps \in Seq(Step)
BY Kinds DEF IsRow

\* To repeat a patch makes no difference but one more copy of its steps.
LEMMA PatchedAgain ==
    ASSUME NEW base, IsRow(base), NEW r, IsRow(r), NEW p, IsPatch(p),
           r = base \/ Patched(r, base, p)
    PROVE  /\ Patched(Apply(r, p), base, p)
           /\ Len(r.steps) <= Len(Apply(r, p).steps)
           /\ \A i \in 1..Len(r.steps) : Apply(r, p).steps[i] = r.steps[i]
<1>1. /\ Apply(r, p).steps = r.steps \o p.append
      /\ \A c \in Columns \ {"steps"} :
            Apply(r, p)[c] = IF c \in DOMAIN p.set THEN p.set[c] ELSE r[c]
  BY ApplyColumns
<1>2. r.steps \in Seq(Step) /\ base.steps \in Seq(Step)
  BY RowLedger
<1>3. LedgerAhead(r.steps, base.steps, p.append)
  <2>1. LedgerAhead(base.steps, base.steps, p.append)
    <3> DEFINE n == Len(base.steps)
               m == Len(p.append)
    <3>1. n \in Nat /\ m \in Nat
      BY <1>2 DEF IsPatch
    <3> HIDE DEF n, m
    <3>2. n <= n /\ (n + 1)..n = {} /\ (n + m + 1)..n = {}
      BY <3>1
    <3>. QED
      BY <3>2 DEF LedgerAhead, n, m
  <2>. QED
    BY <2>1 DEF Patched
<1>4. p.append \in Seq(Step)
  BY DEF IsPatch
<1>5. /\ LedgerAhead(r.steps \o p.append, base.steps, p.append)
      /\ Len(r.steps) <= Len(r.steps \o p.append)
      /\ \A i \in 1..Len(r.steps) : (r.steps \o p.append)[i] = r.steps[i]
  BY <1>2, <1>3, <1>4, AheadByOneMore
<1>6. ASSUME NEW c \in Columns \ {"steps"}
      PROVE  Apply(r, p)[c] = IF c \in DOMAIN p.set THEN p.set[c] ELSE base[c]
  <2>1. r[c] = base[c] \/ c \in DOMAIN p.set
    BY DEF Patched
  <2>. QED
    BY <1>1, <2>1
<1>. QED
  BY <1>1, <1>5, <1>6 DEF Patched

\* The ledger q repeats patches whole, as far as the step at i can tell.
RepeatsWhole(q, i) ==
    /\ q[i].no <= i /\ q[q[i].no] = q[i]
    /\ 1 <= PatchStart(q[i]) /\ PatchStart(q[i]) <= q[i].no
    /\ \A k \in (PatchStart(q[i]) + PatchLength(q[i]))..i : q[k] = q[k - PatchLength(q[i])]
    /\ q[i].type = "analysis" =>
          /\ i < Len(q)
          /\ q[i + 1] = ShortlistAfter(q[i])

\* A ledger that repeats patches whole, in which what two rounds admitted is apart, and
\* all of it is among the seen.
LedgerSound(q, seen) ==
    /\ \A i \in DOMAIN q : RepeatsWhole(q, i)
    /\ \A i, j \in DOMAIN q :
          q[i].round # q[j].round => q[i].admitted \cap q[j].admitted = {}
    /\ \A i \in DOMAIN q : q[i].admitted \subseteq seen

\* tail are the steps of one patch, numbered from n + 1 on, all of one round.
OnePatch(tail, n) ==
    /\ \A j \in 1..Len(tail) :
          /\ tail[j].no = n + j /\ tail[j].round = tail[1].round
          /\ PatchStart(tail[j]) = n + 1 /\ PatchLength(tail[j]) = Len(tail)
          /\ tail[j].type = "analysis" =>
                /\ j < Len(tail)
                /\ tail[j + 1] = ShortlistAfter(tail[j])

LEMMA PatchesMeasured ==
    ASSUME NEW s \in Step
    PROVE  /\ s.no \in Nat /\ PatchLength(s) \in {1, 2} /\ PatchStart(s) \in Int
           /\ PatchStart(s) \in {s.no, s.no - 1}
BY DEF Step, PatchLength, PatchStart

\* The ledger stays sound under any number of copies of a patch whose steps are numbered
\* next and admit only what no earlier step has.
LEMMA SoundAhead ==
    ASSUME NEW base \in Seq(Step), NEW q \in Seq(Step), NEW tail \in Seq(Step),
           LedgerAhead(q, base, tail),
           NEW seen, NEW later, LedgerSound(base, seen), seen \subseteq later,
           OnePatch(tail, Len(base)),
           \A j \in 1..Len(tail) : /\ tail[j].admitted \cap seen = {}
                                    /\ tail[j].admitted \subseteq later
    PROVE  LedgerSound(q, later)
<1> DEFINE n == Len(base)
           m == Len(tail)
<1>1. /\ n \in Nat /\ m \in Nat /\ Len(q) \in Nat
      /\ DOMAIN q = 1..Len(q) /\ DOMAIN base = 1..n
      /\ \A i \in DOMAIN q : q[i] \in Step
      /\ \A i \in DOMAIN base : base[i] \in Step
  OBVIOUS
<1>2. /\ n <= Len(q)
      /\ \A i \in 1..n : q[i] = base[i]
      /\ \A i \in (n + 1)..Len(q) : \E j \in 1..m :
            n <= i - j /\ i - j + m <= Len(q) /\ \A l \in 1..m : q[i - j + l] = tail[l]
      /\ \A i \in (n + m + 1)..Len(q) : q[i] = q[i - m]
  BY DEF LedgerAhead
<1>3. \A j \in 1..m :
         /\ tail[j].no = n + j /\ tail[j].round = tail[1].round
         /\ PatchStart(tail[j]) = n + 1 /\ PatchLength(tail[j]) = m
         /\ tail[j].type = "analysis" =>
               /\ j < m
               /\ tail[j + 1] = ShortlistAfter(tail[j])
         /\ tail[j].admitted \cap seen = {} /\ tail[j].admitted \subseteq later
  BY DEF OnePatch
<1> HIDE DEF n, m
<1>4. \A i \in DOMAIN q : i \in 1..n \/ i \in (n + 1)..Len(q)
  BY <1>1
<1>5. \A i \in 1..n : q[i] = base[i] /\ i \in DOMAIN base /\ q[i].admitted \subseteq seen
  BY <1>1, <1>2 DEF LedgerSound
<1>6. \A i \in (n + 1)..Len(q) : \E j \in 1..m : q[i] = tail[j]
  <2> TAKE i \in (n + 1)..Len(q)
  <2>1. PICK j \in 1..m : \A l \in 1..m : q[i - j + l] = tail[l]
    BY <1>2
  <2>2. i - j + j = i
    BY <1>1
  <2>. QED
    BY <2>1, <2>2
<1>7. ASSUME NEW i \in DOMAIN q PROVE RepeatsWhole(q, i)
  <2>1. CASE i \in 1..n
    <3> DEFINE s == base[i]
               f == PatchStart(s)
               d == PatchLength(s)
    <3>1. q[i] = s /\ i \in DOMAIN base /\ RepeatsWhole(base, i) /\ s \in Step
      BY <1>1, <1>5, <2>1 DEF LedgerSound
    <3>2. /\ s.no <= i /\ base[s.no] = s /\ 1 <= f /\ f <= s.no
          /\ \A k \in (f + d)..i : base[k] = base[k - d]
          /\ s.type = "analysis" =>
                /\ i < n
                /\ base[i + 1] = ShortlistAfter(s)
      BY <3>1 DEF RepeatsWhole, n
    <3>3. s.no \in Nat /\ d \in {1, 2} /\ f \in Int
      BY <3>1, PatchesMeasured
    <3> HIDE DEF s, f, d
    <3>4. s.no \in 1..n /\ q[s.no] = s
      BY <1>1, <1>5, <2>1, <3>2, <3>3
    <3>5. ASSUME NEW k \in (f + d)..i PROVE q[k] = q[k - d]
      <4>1. k \in 1..n /\ k - d \in 1..n
        BY <1>1, <2>1, <3>2, <3>3
      <4>. QED
        BY <1>5, <3>2, <4>1
    <3>6. s.type = "analysis" =>
            /\ i < Len(q)
            /\ q[i + 1] = ShortlistAfter(s)
      <4>1. i < n => i + 1 \in 1..n /\ i < Len(q)
        BY <1>1, <1>2, <2>1
      <4>. QED
        BY <1>5, <3>2, <4>1
    <3>. QED
      BY <3>1, <3>2, <3>4, <3>5, <3>6 DEF RepeatsWhole, f, d
  <2>2. CASE i \in (n + 1)..Len(q)
    <3>1. PICK j \in 1..m : /\ n <= i - j /\ i - j + m <= Len(q)
                             /\ \A l \in 1..m : q[i - j + l] = tail[l]
      BY <1>2, <2>2
    <3> DEFINE s == tail[j]
    <3>2. q[i] = s
      <4>1. i - j + j = i
        BY <1>1
      <4>. QED
        BY <3>1, <4>1
    <3>3. /\ s.no = n + j /\ PatchStart(s) = n + 1 /\ PatchLength(s) = m
          /\ s.type = "analysis" =>
                j < m /\ tail[j + 1] = ShortlistAfter(s)
      BY <1>3
    <3> HIDE DEF s
    <3>4. q[n + j] = s
      <4>1. n + 1 \in (n + 1)..Len(q)
        BY <1>1, <2>2
      <4>2. PICK h \in 1..m : /\ n <= (n + 1) - h
                               /\ (n + 1) - h + m <= Len(q)
                               /\ \A l \in 1..m : q[(n + 1) - h + l] = tail[l]
        BY <1>2, <4>1
      <4>3. n <= (n + 1) - h
        BY <4>2
      <4>4. (n + 1) - h + j = n + j
        BY <1>1, <4>3
      <4>. QED
        BY <4>2, <4>4 DEF s
    <3>5. s.no <= i /\ 1 <= PatchStart(s) /\ PatchStart(s) <= s.no
      BY <1>1, <3>1, <3>3
    <3>6. ASSUME NEW k \in (n + 1 + m)..i PROVE q[k] = q[k - m]
      <4>1. k \in (n + m + 1)..Len(q)
        BY <1>1, <2>2
      <4>. QED
        BY <1>2, <4>1
    <3>7. s.type = "analysis" =>
            /\ i < Len(q)
            /\ q[i + 1] = ShortlistAfter(s)
      <4>1. j < m => j + 1 \in 1..m /\ i - j + (j + 1) = i + 1 /\ i < Len(q)
        BY <1>1, <3>1
      <4>. QED
        BY <3>1, <3>3, <4>1
    <3>. QED
      BY <3>2, <3>3, <3>4, <3>5, <3>6, <3>7 DEF RepeatsWhole
  <2>. QED
    BY <1>4, <2>1, <2>2
<1>8. ASSUME NEW i \in DOMAIN q, NEW j \in DOMAIN q, q[i].round # q[j].round
      PROVE  q[i].admitted \cap q[j].admitted = {}
  <2>1. CASE i \in 1..n /\ j \in 1..n
    <3>1. /\ q[i] = base[i] /\ i \in DOMAIN base
          /\ q[j] = base[j] /\ j \in DOMAIN base
      BY <1>5, <2>1
    <3>. QED
      BY <1>8, <3>1 DEF LedgerSound
  <2>2. CASE i \in 1..n /\ j \in (n + 1)..Len(q)
    <3>1. q[i].admitted \subseteq seen /\ q[j].admitted \cap seen = {}
      BY <1>3, <1>5, <1>6, <2>2
    <3>. QED
      BY <3>1
  <2>3. CASE j \in 1..n /\ i \in (n + 1)..Len(q)
    <3>1. q[j].admitted \subseteq seen /\ q[i].admitted \cap seen = {}
      BY <1>3, <1>5, <1>6, <2>3
    <3>. QED
      BY <3>1
  <2>4. CASE i \in (n + 1)..Len(q) /\ j \in (n + 1)..Len(q)
    <3>1. PICK l \in 1..m : q[i] = tail[l]
      BY <1>6, <2>4
    <3>2. PICK h \in 1..m : q[j] = tail[h]
      BY <1>6, <2>4
    <3>3. tail[l].round = tail[1].round /\ tail[h].round = tail[1].round
      BY <1>3
    <3>. QED
      BY <1>8, <3>1, <3>2, <3>3
  <2>. QED
    BY <1>4, <2>1, <2>2, <2>3, <2>4
<1>9. \A i \in DOMAIN q : q[i].admitted \subseteq later
  BY <1>3, <1>4, <1>5, <1>6
<1>. QED
  BY <1>7, <1>8, <1>9 DEF LedgerSound

\* The steps a patch appends are numbered next, admit none of the seen and the patch
\* marks what they admit as seen.
PatchFits(p, base) ==
    /\ "seen" \in DOMAIN p.set => base.seen \subseteq p.set["seen"]
    /\ OnePatch(p.append, Len(base.steps))
    /\ \A j \in 1..Len(p.append) :
          /\ p.append[j].admitted \cap base.seen = {}
          /\ p.append[j].admitted \subseteq
                IF "seen" \in DOMAIN p.set THEN p.set["seen"] ELSE base.seen

\* So a row with a fitting patch applied any number of times has a sound ledger.
LEMMA PatchedSound ==
    ASSUME NEW base, IsRow(base), NEW r, IsRow(r), NEW p, IsPatch(p), PatchFits(p, base),
           LedgerSound(base.steps, base.seen), r = base \/ Patched(r, base, p)
    PROVE  LedgerSound(r.steps, r.seen)
<1>1. CASE Patched(r, base, p)
  <2>1. r.steps \in Seq(Step) /\ base.steps \in Seq(Step)
    BY RowLedger
  <2>2. r.seen = IF "seen" \in DOMAIN p.set THEN p.set["seen"] ELSE base.seen
    <3>1. "seen" \in Columns \ {"steps"}
      BY Kinds
    <3>. QED
      BY <1>1, <3>1 DEF Patched
  <2>3. /\ base.seen \subseteq r.seen
        /\ OnePatch(p.append, Len(base.steps))
        /\ \A j \in 1..Len(p.append) : /\ p.append[j].admitted \cap base.seen = {}
                                       /\ p.append[j].admitted \subseteq r.seen
    BY <2>2 DEF PatchFits
  <2>4. LedgerAhead(r.steps, base.steps, p.append) /\ p.append \in Seq(Step)
    BY <1>1 DEF Patched, IsPatch
  <2>. QED
    BY <2>1, <2>3, <2>4, SoundAhead
<1>. QED
  BY <1>1

LEMMA NoSteps == ASSUME NEW n PROVE OnePatch(<<>>, n)
BY DEF OnePatch

LEMMA OneStep ==
    ASSUME NEW n \in Nat, NEW s \in Step, s.no = n + 1, s.type \notin {"analysis", "shortlist"}
    PROVE  OnePatch(<<s>>, n)
<1>1. PatchStart(s) = n + 1 /\ PatchLength(s) = 1
  BY DEF PatchStart, PatchLength
<1> DEFINE tail == <<s>>
<1>2. Len(tail) = 1 /\ tail[1] = s
  OBVIOUS
<1> HIDE DEF tail
<1>3. ASSUME NEW j \in 1..1 PROVE tail[j] = s /\ s.no = n + j /\ s.type # "analysis"
  BY <1>2
<1>4. OnePatch(tail, n)
  BY <1>1, <1>2, <1>3 DEF OnePatch
<1>. QED
  BY <1>4 DEF tail

LEMMA TwoSteps ==
    ASSUME NEW n \in Nat, NEW s \in Step, NEW t \in Step, s.no = n + 1, s.type = "analysis",
           t = ShortlistAfter(s)
    PROVE  OnePatch(<<s, t>>, n)
<1>1. t.no = n + 2 /\ t.type = "shortlist" /\ t.round = s.round
  BY DEF Step, ShortlistAfter
<1>2. /\ PatchStart(s) = n + 1 /\ PatchLength(s) = 2
      /\ PatchStart(t) = n + 1 /\ PatchLength(t) = 2
  BY <1>1 DEF PatchStart, PatchLength
<1> DEFINE tail == <<s, t>>
           Fits(j) == /\ tail[j].no = n + j /\ tail[j].round = tail[1].round
                      /\ PatchStart(tail[j]) = n + 1 /\ PatchLength(tail[j]) = 2
                      /\ tail[j].type = "analysis" =>
                            /\ j < 2
                            /\ tail[j + 1] = ShortlistAfter(tail[j])
<1>3. Len(tail) = 2 /\ tail[1] = s /\ tail[2] = t
  OBVIOUS
<1> HIDE DEF tail
<1>4. Fits(1)
  <2>1. 1 + 1 = 2 /\ 1 < 2
    OBVIOUS
  <2>. QED
    BY <1>2, <1>3, <2>1
<1>5. Fits(2)
  BY <1>1, <1>2, <1>3
<1>6. \A j \in 1..2 : Fits(j)
  <2>1. \A j \in 1..2 : j = 1 \/ j = 2
    OBVIOUS
  <2> HIDE DEF Fits
  <2>. QED
    BY <1>4, <1>5, <2>1
<1>7. OnePatch(tail, n)
  BY <1>3, <1>6 DEF OnePatch
<1>. QED
  BY <1>7 DEF tail

\* And every patch of the workflow fits the row it remembers.
LEMMA PatchesFit ==
    ASSUME WorkflowTyped, NEW stage \in PatchStages
    PROVE  PatchFits(PatchOf(stage), snapshot)
<1> DEFINE p == PatchOf(stage)
           n == Len(snapshot.steps)
<1>1. n \in Nat
  BY RowLedger DEF WorkflowTyped
<1>2. p.append \in Seq(Step)
  BY PatchTyped DEF IsPatch
<1>3. CASE stage \in {"start", "round", "fail", "publish"}
  <2>1. p.append = <<>> /\ Len(p.append) = 0 /\ "seen" \notin DOMAIN p.set
    BY <1>3 DEF PatchOf
  <2>. QED
    BY <2>1, NoSteps DEF PatchFits
<1>4. CASE stage \in {"strategy", "complete"}
  <2>1. PICK type \in {"strategy", "finalize"}, round \in {0, snapshot.round} :
            p.append = <<NewStep(1, type, round, {})>>
    BY <1>4 DEF PatchOf
  <2>2. "seen" \notin DOMAIN p.set
    BY <1>4 DEF PatchOf
  <2> DEFINE s == NewStep(1, type, round, {})
  <2>3. s.no = n + 1 /\ s.admitted = {} /\ s.type = type
    BY DEF NewStep
  <2>4. s \in Step /\ Len(p.append) = 1 /\ p.append[1] = s
    BY <1>2, <2>1
  <2> HIDE DEF s
  <2>5. OnePatch(p.append, n)
    BY <1>1, <2>1, <2>3, <2>4, OneStep DEF s
  <2>. QED
    BY <2>2, <2>3, <2>4, <2>5 DEF PatchFits
<1>5. CASE stage = "dedupe"
  <2> DEFINE s == NewStep(1, "dedupe", roundNo, page \ snapshot.seen)
  <2>1. /\ p.append = <<s>>
        /\ DOMAIN p.set = {"seen"} /\ p.set["seen"] = snapshot.seen \cup page
    BY <1>5 DEF PatchOf, SeenAfter
  <2>2. s.no = n + 1 /\ s.admitted = page \ snapshot.seen /\ s.type = "dedupe"
    BY DEF NewStep
  <2>3. s \in Step /\ Len(p.append) = 1 /\ p.append[1] = s
    BY <1>2, <2>1
  <2> HIDE DEF s
  <2>4. OnePatch(p.append, n)
    BY <1>1, <2>1, <2>2, <2>3, OneStep
  <2>. QED
    BY <2>1, <2>2, <2>3, <2>4 DEF PatchFits
<1>6. CASE stage = "rank"
  <2> DEFINE s == NewStep(1, "analysis", roundNo, {})
             t == NewStep(2, "shortlist", roundNo, {})
  <2>1. p.append = <<s, t>> /\ "seen" \notin DOMAIN p.set
    BY <1>6 DEF PatchOf
  <2>2. /\ s.no = n + 1 /\ s.admitted = {} /\ s.type = "analysis"
        /\ t.admitted = {} /\ t = ShortlistAfter(s)
    <3>1. (n + 1) + 1 = n + 2
      BY <1>1
    <3> HIDE DEF n
    <3>2. /\ s = [no |-> n + 1, type |-> "analysis", round |-> roundNo, admitted |-> {}]
          /\ t = [no |-> n + 2, type |-> "shortlist", round |-> roundNo, admitted |-> {}]
      BY DEF NewStep, n
    <3> HIDE DEF s, t
    <3>. QED
      BY <3>1, <3>2 DEF ShortlistAfter
  <2>3. /\ s \in Step /\ t \in Step
        /\ Len(p.append) = 2 /\ p.append[1] = s /\ p.append[2] = t
    BY <1>2, <2>1
  <2> HIDE DEF s, t, n
  <2>4. OnePatch(<<s, t>>, n)
    BY <1>1, <2>2, <2>3, TwoSteps
  <2>5. \A j \in 1..2 : j = 1 \/ j = 2
    OBVIOUS
  <2>6. \A j \in 1..Len(p.append) : p.append[j].admitted = {}
    BY <2>2, <2>3, <2>5
  <2> HIDE DEF p
  <2>7. OnePatch(p.append, Len(snapshot.steps))
    BY <2>1, <2>4 DEF n
  <2>. QED
    BY <2>1, <2>6, <2>7 DEF PatchFits, p
<1>. QED
  BY <1>3, <1>4, <1>5, <1>6 DEF PatchStages

-----------------------------------------------------------------------------
(* Who may be writing while the workflow waits, and what. *)

\* No attempt to patch is too slow, and the dispatch gets its answer.
Calm == "slow-patch" \notin Faults /\ "dispatch" \notin Faults

\* The one thread t that writes the patch p into the row r, which was base before.
InFlight(t, r, base, p) ==
    /\ r = base \/ Patched(r, base, p)
    /\ t.phase = "idle" => r = base
    /\ t.phase = "scheduled" => t.patch = p
    /\ t.phase \in {"read", "saved"} => t.record = Apply(r, p)
    /\ t.phase = "saved" => t.dirty = {c \in Columns : t.record[c] # r[c]}
    /\ t.phase = "answer" => t.record = r /\ Patched(r, base, p)

PublishPatch == [set |-> [trace |-> TRUE], append |-> <<>>]

SameButTrace(r, base) == \A c \in Columns \ {"trace"} : r[c] = base[c]

\* A thread that publishes the trace of a run whose row is base but for the trace.
Publisher(t, base) ==
    /\ t.phase = "scheduled" => t.patch = PublishPatch
    /\ t.phase \in {"read", "saved", "answer"} =>
          SameButTrace(t.record, base) /\ t.record["trace"] = TRUE

\* No attempt that was given up is still writing.
Alone == \A w \in Slots : w # Current => writer[w].phase = "idle"

Published == {"publish", "closed"}
Patching == PatchStages \ {"publish"}

\* The inductive invariant.
CalmInv ==
    /\ Calm
    /\ writer[Api].phase \in {"idle", "starting"}
    /\ pc \notin Published => Alone
    /\ pc = "publish" /\ writer[Current].phase = "idle" => Alone /\ row = snapshot
    /\ pc \in {"created", "search"} => row = snapshot
    /\ pc \in Patching => InFlight(writer[Current], row, snapshot, PatchOf(pc))
    /\ pc \in Published =>
          SameButTrace(row, snapshot) /\ \A w \in Slots : Publisher(writer[w], snapshot)
    /\ LedgerSound(snapshot.steps, snapshot.seen)

LEMMA Publishes == PatchOf("publish") = PublishPatch
BY DEF PatchOf, PublishPatch

LEMMA PatchStays ==
    ASSUME UNCHANGED <<snapshot, roundNo, page, pc>>
    PROVE  PatchOf(pc)' = PatchOf(pc)
BY DEF PatchOf, NewStep, SeenAfter

\* Only the attempt Temporal waits for writes, until the trace is published.
LEMMA SomeThreadWrites ==
    ASSUME TypeInv, CalmInv, NEW w \in Threads, Write(w)
    PROVE  /\ w \in Slots
           /\ pc \in Patching => w = Current
           /\ pc \in Patching \cup Published
           /\ pc = "publish" => writer[Current].phase # "idle"
<1>1. writer[w].phase \in {"scheduled", "read", "saved"}
  BY DEF Write, ReadRow, SaveRecord, Commit
<1>2. w # Api
  BY <1>1 DEF CalmInv
<1>3. w \in Slots
  BY <1>2 DEF Threads
<1>4. pc \notin Published => w = Current
  BY <1>1, <1>3 DEF CalmInv, Alone
<1>5. pc = "publish" => writer[Current].phase # "idle"
  BY <1>1, <1>3 DEF CalmInv, Alone
<1>6. pc \notin {"created", "search"}
  BY <1>1, <1>4 DEF TypeInv, WritersTyped, Published
<1>7. pc \in PatchStages \cup {"created", "search", "closed"}
  BY DEF TypeInv, WorkflowTyped
<1>8. pc \in Patching \cup Published /\ (pc \in Patching => pc \notin Published)
  BY <1>6, <1>7 DEF Patching, Published, PatchStages
<1>. QED
  BY <1>3, <1>4, <1>5, <1>8

\* The write of a patch: copy, compare and commit.
LEMMA InFlightWrites ==
    ASSUME TypeInv, CalmInv, pc \in Patching, Write(Current)
    PROVE  InFlight(writer'[Current], row', snapshot, PatchOf(pc))
<1> DEFINE t == writer[Current]
           p == PatchOf(pc)
<1>1. Current \in Threads /\ writer = [w \in Threads |-> writer[w]]
  BY CurrentIsASlot DEF TypeInv, WritersTyped
<1>2. InFlight(t, row, snapshot, p)
  BY DEF CalmInv
<1>3. IsRow(row) /\ IsRow(snapshot) /\ IsPatch(p)
  BY PatchTyped DEF TypeInv, WorkflowTyped, Patching
<1>4. CASE ReadRow(Current)
  <2>1. /\ t.patch = p /\ row' = row
        /\ writer'[Current] = [phase |-> "read", record |-> Apply(row, t.patch)]
    BY <1>1, <1>2, <1>4 DEF ReadRow, InFlight
  <2>. QED
    BY <1>2, <2>1 DEF InFlight
<1>5. CASE SaveRecord(Current)
  <2>1. /\ t.record = Apply(row, p) /\ row' = row
        /\ writer'[Current] = [phase |-> "saved", record |-> t.record,
                               dirty |-> ColumnsToWrite(t.record)]
    BY <1>1, <1>2, <1>5 DEF SaveRecord, InFlight
  <2>. QED
    BY <1>2, <2>1 DEF InFlight, ColumnsToWrite
<1>6. CASE Commit(Current)
  <2>1. /\ t.record = Apply(row, p)
        /\ t.dirty = {c \in Columns : t.record[c] # row[c]}
        /\ row' = [c \in Columns |-> IF c \in t.dirty THEN t.record[c] ELSE row[c]]
        /\ writer'[Current] = [phase |-> "answer", record |-> t.record]
    BY <1>1, <1>2, <1>6 DEF Commit, InFlight
  <2>2. IsRow(t.record) /\ Patched(t.record, snapshot, p)
    <3>1. row = snapshot \/ Patched(row, snapshot, p)
      BY <1>2 DEF InFlight
    <3>2. IsRow(Apply(row, p))
      BY <1>3, ApplyColumns
    <3>3. Patched(Apply(row, p), snapshot, p)
      BY <1>3, <3>1, PatchedAgain
    <3>. QED
      BY <2>1, <3>2, <3>3
  <2>3. \A c \in Columns : row'[c] = t.record[c]
    BY <2>1
  <2>4. row' = t.record
    BY <2>1, <2>2, <2>3 DEF IsRow
  <2>. QED
    BY <2>1, <2>2, <2>4 DEF InFlight
<1>. QED
  BY <1>4, <1>5, <1>6 DEF Write

\* The write of the trace, by any of the attempts to publish.
LEMMA PublisherWrites ==
    ASSUME TypeInv, CalmInv, pc \in Published, NEW w \in Slots, Write(w)
    PROVE  /\ SameButTrace(row', snapshot)
           /\ row'["trace"] \in {row["trace"], TRUE}
           /\ Publisher(writer'[w], snapshot)
           /\ w = Current => writer'[w].phase # "idle"
<1>1. w \in Threads /\ writer = [v \in Threads |-> writer[v]]
  BY DEF TypeInv, WritersTyped, Threads
<1>2. Publisher(writer[w], snapshot) /\ SameButTrace(row, snapshot)
  BY DEF CalmInv
<1>3. CASE ReadRow(w)
  <2> DEFINE a == Apply(row, PublishPatch)
  <2>1. /\ row' = row
        /\ writer'[w] = [phase |-> "read", record |-> a]
    BY <1>1, <1>2, <1>3 DEF ReadRow, Publisher
  <2>2. IsRow(row) /\ IsPatch(PublishPatch)
    BY PatchTyped, Publishes DEF TypeInv, WorkflowTyped, PatchStages
  <2>3. /\ DOMAIN PublishPatch.set = {"trace"} /\ PublishPatch.set["trace"] = TRUE
        /\ PublishPatch.append = <<>>
    BY DEF PublishPatch
  <2>4. a.steps = row.steps \o <<>>
    <3>1. a.steps = row.steps \o PublishPatch.append
      BY <2>2, ApplyColumns
    <3>. QED
      BY <2>3, <3>1
  <2>5. a.steps = row.steps
    <3>1. row.steps \in Seq(Step)
      BY <2>2, RowLedger
    <3>. QED
      BY <2>4, <3>1
  <2>6. \A c \in Columns \ {"steps"} : a[c] = IF c = "trace" THEN TRUE ELSE row[c]
    BY <2>2, <2>3, ApplyColumns
  <2>7. "trace" \in Columns /\ "trace" # "steps"
    BY Kinds
  <2>8. SameButTrace(a, snapshot) /\ a["trace"] = TRUE
    BY <1>2, <2>5, <2>6, <2>7 DEF SameButTrace
  <2> HIDE DEF a
  <2>. QED
    BY <1>2, <2>1, <2>8 DEF Publisher
<1>4. CASE SaveRecord(w)
  <2>1. /\ row' = row
        /\ writer'[w].phase = "saved" /\ writer'[w].record = writer[w].record
    BY <1>1, <1>4 DEF SaveRecord
  <2>2. writer[w].phase = "read"
    BY <1>4 DEF SaveRecord
  <2>. QED
    BY <1>2, <2>1, <2>2 DEF Publisher
<1>5. CASE Commit(w)
  <2> DEFINE t == writer[w]
  <2>1. /\ t.phase = "saved"
        /\ row' = [c \in Columns |-> IF c \in t.dirty THEN t.record[c] ELSE row[c]]
        /\ \/ w = Current /\ writer'[w] = [phase |-> "answer", record |-> t.record]
           \/ w # Current /\ writer'[w] = Idle
    BY <1>1, <1>5 DEF Commit
  <2>2. SameButTrace(t.record, snapshot) /\ t.record["trace"] = TRUE
    BY <1>2, <2>1 DEF Publisher
  <2>3. SameButTrace(row', snapshot)
    BY <1>2, <2>1, <2>2 DEF SameButTrace
  <2>4. "trace" \in Columns
    BY Kinds
  <2>5. row'["trace"] \in {row["trace"], TRUE}
    BY <2>1, <2>2, <2>4
  <2>6. Publisher(writer'[w], snapshot) /\ (w = Current => writer'[w].phase # "idle")
    <3>1. CASE w = Current /\ writer'[w] = [phase |-> "answer", record |-> t.record]
      BY <2>2, <3>1 DEF Publisher
    <3>2. CASE w # Current /\ writer'[w] = Idle
      BY <3>2, ThreadsTyped DEF Publisher
    <3>. QED
      BY <2>1, <3>1, <3>2
  <2>. QED
    BY <2>3, <2>5, <2>6
<1>. QED
  BY <1>3, <1>4, <1>5 DEF Write

LEMMA WriteKeepsCalm ==
    ASSUME TypeInv, CalmInv, NEW w \in Threads, Write(w)
    PROVE  CalmInv'
<1>1. /\ w \in Slots /\ w # Api
      /\ pc \in Patching => w = Current
      /\ pc \in Patching \cup Published
      /\ pc = "publish" => writer[Current].phase # "idle"
  BY SomeThreadWrites, CurrentIsASlot DEF TypeInv
<1>2. /\ UNCHANGED <<snapshot, pc, roundNo, page, retries>>
      /\ \A v \in Threads : v # w => writer'[v] = writer[v]
  BY DEF Write, ReadRow, SaveRecord, Commit, TypeInv, WritersTyped
<1>3. Current' = Current /\ PatchOf(pc)' = PatchOf(pc) /\ Current \in Slots
  BY <1>2, PatchStays, CurrentIsASlot DEF Current, TypeInv
<1>4. \A v \in Slots : v \in Threads
  BY DEF Threads
<1>5. writer'[Api].phase \in {"idle", "starting"}
  BY <1>1, <1>2 DEF CalmInv, Threads
<1>6. CASE pc \in Patching
  <2>1. InFlight(writer'[Current], row', snapshot, PatchOf(pc))
    BY <1>1, <1>6, InFlightWrites
  <2>2. Alone'
    BY <1>1, <1>2, <1>3, <1>4, <1>6 DEF CalmInv, Alone, Patching, Published, PatchStages
  <2>3. pc' \notin {"publish", "created", "search"} /\ pc' \notin Published
    BY <1>2, <1>6 DEF Patching, Published, PatchStages
  <2>. QED
    BY <1>2, <1>3, <1>5, <2>1, <2>2, <2>3 DEF CalmInv, Calm
<1>7. CASE pc \in Published
  <2>1. /\ SameButTrace(row', snapshot)
        /\ Publisher(writer'[w], snapshot)
        /\ w = Current => writer'[w].phase # "idle"
    BY <1>1, <1>7, PublisherWrites
  <2>2. \A v \in Slots : Publisher(writer'[v], snapshot)
    BY <1>2, <1>4, <1>7, <2>1 DEF CalmInv
  <2>3. pc' = "publish" => writer'[Current'].phase # "idle"
    <3>1. CASE w = Current
      BY <1>3, <2>1, <3>1
    <3>2. CASE w # Current
      BY <1>1, <1>2, <1>3, <1>4, <3>2
    <3>. QED
      BY <3>1, <3>2
  <2>4. pc' \in Published /\ pc' \notin Patching /\ pc' \notin {"created", "search"}
    BY <1>2, <1>7 DEF Patching, Published, PatchStages
  <2>. QED
    BY <1>2, <1>5, <2>1, <2>2, <2>3, <2>4 DEF CalmInv, Calm
<1>. QED
  BY <1>1, <1>6, <1>7

LEMMA Resting == ASSUME NEW t, t.phase = "idle", NEW r, NEW p PROVE InFlight(t, r, r, p)
BY DEF InFlight

LEMMA IdlePublishes ==
    ASSUME NEW t, t.phase = "idle", NEW base PROVE Publisher(t, base)
BY DEF Publisher

LEMMA ScheduleKeepsCalm == ASSUME TypeInv, CalmInv, SchedulePatch PROVE CalmInv'
<1>1. /\ pc \in PatchStages /\ writer[Current].phase = "idle"
      /\ UNCHANGED <<row, snapshot, pc, roundNo, page, retries>>
      /\ Current \in Slots /\ Current # Api /\ Api \in Threads /\ Slots \subseteq Threads
  BY CurrentIsASlot DEF SchedulePatch, Waiting, TypeInv, Threads
<1>2. /\ writer'[Current] = Scheduled(PatchOf(pc))
      /\ \A v \in Threads : v # Current => writer'[v] = writer[v]
  BY <1>1 DEF SchedulePatch, TypeInv, WritersTyped
<1>3. Current' = Current /\ PatchOf(pc)' = PatchOf(pc)
  BY <1>1, PatchStays DEF Current
<1>4. writer'[Api].phase \in {"idle", "starting"}
  BY <1>1, <1>2 DEF CalmInv
<1>5. CASE pc \in Patching
  <2>1. row = snapshot
    BY <1>1, <1>5 DEF CalmInv, InFlight
  <2>2. InFlight(writer'[Current], row', snapshot, PatchOf(pc))
    BY <1>1, <1>2, <2>1, ThreadsTyped DEF InFlight
  <2>3. pc' \notin Published /\ pc' \notin {"created", "search"} /\ pc \notin Published
    BY <1>1, <1>5 DEF Patching, Published, PatchStages
  <2>4. Alone'
    BY <1>1, <1>2, <1>3, <2>3 DEF CalmInv, Alone
  <2>5. pc' # "publish"
    BY <2>3 DEF Published
  <2>. QED
    BY <1>1, <1>3, <1>4, <2>2, <2>3, <2>4, <2>5 DEF CalmInv, Calm
<1>6. CASE pc = "publish"
  <2>1. pc \in Published /\ pc \notin Patching /\ pc \notin {"created", "search"}
    BY <1>6 DEF Published, Patching
  <2>2. Publisher(writer'[Current], snapshot)
    BY <1>2, <1>6, Publishes, ThreadsTyped DEF Publisher
  <2>3. \A w \in Slots : Publisher(writer'[w], snapshot)
    BY <1>1, <1>2, <2>1, <2>2 DEF CalmInv
  <2>4. writer'[Current'].phase # "idle"
    BY <1>2, <1>3, ThreadsTyped
  <2>. QED
    BY <1>1, <1>4, <2>1, <2>3, <2>4 DEF CalmInv, Calm
<1>. QED
  BY <1>1, <1>5, <1>6 DEF Patching

LEMMA AnswerKeepsCalm ==
    ASSUME TypeInv, TypeInv', CalmInv, PatchAnswers PROVE CalmInv'
<1>1. /\ writer[Current].phase = "answer" /\ snapshot' = writer[Current].record
      /\ UNCHANGED <<row, page, retries>>
      /\ Current \in Slots /\ Current # Api /\ Api \in Threads /\ Slots \subseteq Threads
      /\ Current' = Current
  BY CurrentIsASlot DEF PatchAnswers, Answered, TypeInv, Threads, Current
<1>2. /\ writer'[Current] = Idle
      /\ \A v \in Threads : v # Current => writer'[v] = writer[v]
  BY <1>1 DEF PatchAnswers, TypeInv, WritersTyped
<1>3. writer'[Api].phase \in {"idle", "starting"}
  BY <1>1, <1>2 DEF CalmInv
<1>4. pc \in PatchStages /\ pc' \in Following(pc)
  BY <1>1 DEF PatchAnswers, TypeInv, WorkflowTyped, WritersTyped
<1>5. CASE pc \in Patching
  <2>1. row' = snapshot' /\ Patched(row, snapshot, PatchOf(pc))
    BY <1>1, <1>5 DEF CalmInv, InFlight
  <2>2. LedgerSound(snapshot'.steps, snapshot'.seen)
    <3>1. /\ IsRow(row) /\ IsRow(snapshot)
          /\ IsPatch(PatchOf(pc)) /\ PatchFits(PatchOf(pc), snapshot)
      BY <1>4, PatchesFit, PatchTyped DEF TypeInv, WorkflowTyped
    <3>2. LedgerSound(row.steps, row.seen)
      BY <2>1, <3>1, PatchedSound DEF CalmInv
    <3>. QED
      BY <1>1, <2>1, <3>2
  <2>3. pc \notin Published
    BY <1>5 DEF Patching, Published, PatchStages
  <2>4. \A w \in Slots : writer'[w].phase = "idle"
    BY <1>1, <1>2, <2>3, ThreadsTyped DEF CalmInv, Alone
  <2>5. pc' # "closed"
    BY <1>4, <1>5 DEF Following, Patching, PatchStages
  <2>6. Alone'
    BY <2>4 DEF Alone
  <2>7. InFlight(writer'[Current'], row', snapshot', PatchOf(pc)')
    BY <1>1, <2>1, <2>4, Resting
  <2>8. SameButTrace(row', snapshot') /\ \A w \in Slots : Publisher(writer'[w], snapshot')
    BY <2>1, <2>4, IdlePublishes DEF SameButTrace
  <2>. QED
    BY <1>3, <2>1, <2>2, <2>6, <2>7, <2>8 DEF CalmInv, Calm
<1>6. CASE pc = "publish"
  <2>1. pc' = "closed"
    BY <1>4, <1>6 DEF Following
  <2>2. /\ SameButTrace(row, snapshot)
        /\ \A w \in Slots : Publisher(writer[w], snapshot)
    BY <1>6 DEF CalmInv, Published
  <2>3. SameButTrace(snapshot', snapshot)
    BY <1>1, <2>2 DEF Publisher
  <2>4. SameButTrace(row', snapshot')
    BY <1>1, <2>2, <2>3 DEF SameButTrace
  <2>5. \A w \in Slots : Publisher(writer'[w], snapshot')
    <3>1. \A w \in Slots : Publisher(writer[w], snapshot')
      BY <2>2, <2>3 DEF Publisher, SameButTrace
    <3>. QED
      BY <1>1, <1>2, <3>1, IdlePublishes, ThreadsTyped
  <2>6. snapshot'["steps"] = snapshot["steps"] /\ snapshot'["seen"] = snapshot["seen"]
    BY <2>3, Kinds DEF SameButTrace
  <2>7. LedgerSound(snapshot'.steps, snapshot'.seen)
    BY <2>6 DEF CalmInv
  <2>8. pc' \in Published /\ pc' \notin Patching /\ pc' \notin {"created", "search", "publish"}
    BY <2>1 DEF Published, Patching, PatchStages
  <2>. QED
    BY <1>3, <2>4, <2>5, <2>7, <2>8 DEF CalmInv, Calm
<1>. QED
  BY <1>4, <1>5, <1>6 DEF Patching

LEMMA AttemptKeepsCalm ==
    ASSUME TypeInv, CalmInv, PublishAttemptRaises \/ WorkerDies \/ AttemptTimesOut
    PROVE  CalmInv'
<1>1. /\ retries < MaxRetries /\ retries' = retries + 1
      /\ UNCHANGED <<row, snapshot, pc, roundNo, page>>
      /\ writer[Current].phase # "idle"
  BY DEF PublishAttemptRaises, WorkerDies, AttemptTimesOut, Waiting
<1>2. pc \in PatchStages
  BY <1>1 DEF TypeInv, WritersTyped, WorkflowTyped
<1>3. /\ Current' = Current + 1 /\ Current + 1 # Current /\ Current + 1 # Api
      /\ Current # Api /\ Current \in Threads
      /\ Current + 1 \in Threads /\ Api \in Threads /\ Slots \subseteq Threads
      /\ \A w \in Slots : w # Api
  BY <1>1, CurrentIsASlot DEF TypeInv, Threads, Slots, Current, WorkflowTyped
<1>4. PatchOf(pc)' = PatchOf(pc)
  BY <1>1, PatchStays
<1>5. /\ writer'[Current + 1] = Scheduled(PatchOf(pc))
      /\ writer'[Api] = writer[Api]
      /\ \A w \in Threads : w # Current + 1 => writer'[w] = writer[w] \/ writer'[w] = Idle
  BY <1>3 DEF PublishAttemptRaises, WorkerDies, AttemptTimesOut, TypeInv, WritersTyped
<1>6. writer'[Api].phase \in {"idle", "starting"}
  BY <1>5 DEF CalmInv
<1>7. CASE pc \in Patching
  <2>1. pc' \notin Published /\ pc' \notin {"created", "search"} /\ pc' # "publish"
    BY <1>1, <1>7 DEF Patching, Published, PatchStages
  <2>2. WorkerDies
    BY <1>1, <2>1 DEF PublishAttemptRaises, AttemptTimesOut, CalmInv, Calm
  <2>3. \A w \in Slots : w # Current + 1 => writer'[w].phase = "idle"
    BY <1>3, <2>2, ThreadsTyped DEF WorkerDies, TypeInv, WritersTyped
  <2>4. Alone'
    BY <1>3, <2>3 DEF Alone
  <2>5. row = snapshot \/ Patched(row, snapshot, PatchOf(pc))
    BY <1>7 DEF CalmInv, InFlight
  <2>6. InFlight(writer'[Current'], row', snapshot', PatchOf(pc)')
    BY <1>1, <1>3, <1>4, <1>5, <2>5, ThreadsTyped DEF InFlight
  <2>. QED
    BY <1>1, <1>6, <2>1, <2>4, <2>6 DEF CalmInv, Calm
<1>8. CASE pc = "publish"
  <2>1. pc' \in Published /\ pc' \notin Patching /\ pc' \notin {"created", "search"}
    BY <1>1, <1>8 DEF Patching, Published, PatchStages
  <2>2. /\ SameButTrace(row, snapshot)
        /\ \A w \in Slots : Publisher(writer[w], snapshot)
    BY <1>8 DEF CalmInv, Published
  <2>3. Publisher(Scheduled(PublishPatch), snapshot) /\ Publisher(Idle, snapshot)
    BY ThreadsTyped DEF Publisher
  <2>4. \A w \in Slots : Publisher(writer'[w], snapshot)
    BY <1>3, <1>5, <1>8, <2>2, <2>3, Publishes
  <2>5. writer'[Current'].phase # "idle"
    BY <1>3, <1>5, ThreadsTyped
  <2>. QED
    BY <1>1, <1>6, <2>1, <2>2, <2>4, <2>5 DEF CalmInv, Calm
<1>. QED
  BY <1>2, <1>7, <1>8 DEF Patching

LEMMA InitCalm == Calm /\ Init => CalmInv
<1> SUFFICES ASSUME Calm, Init PROVE CalmInv
  OBVIOUS
<1>1. /\ pc = "created" /\ row = snapshot
      /\ pc \notin Published /\ pc \notin Patching
  BY DEF Init, Published, Patching, PatchStages
<1>2. /\ \A w \in Slots : writer[w].phase = "idle"
      /\ writer[Api].phase = "starting"
  BY ThreadsTyped DEF Init, Slots, Api
<1>3. snapshot.steps = <<>>
  BY Kinds DEF Init
<1>4. LedgerSound(snapshot.steps, snapshot.seen)
  BY <1>3 DEF LedgerSound
<1>. QED
  BY <1>1, <1>2, <1>4 DEF CalmInv, Alone

LEMMA NextCalm == TypeInv /\ TypeInv' /\ CalmInv /\ [Next]_vars => CalmInv'
<1> SUFFICES ASSUME TypeInv, TypeInv', CalmInv, [Next]_vars PROVE CalmInv'
  OBVIOUS
<1>1. /\ Current \in Slots /\ Current # Api /\ Api \in Threads /\ Slots \subseteq Threads
      /\ \A w \in Slots : w # Api
  BY CurrentIsASlot DEF TypeInv, Threads
<1>2. ASSUME StartWorkflow PROVE CalmInv'
  <2>1. pc = "created" /\ pc \notin Published
    BY <1>1, <1>2 DEF StartWorkflow, TypeInv, WritersTyped, Published
  <2>2. row = snapshot /\ row' = row /\ snapshot' = row /\ pc' = "start" /\ Current' = Current
    BY <1>2, <2>1 DEF StartWorkflow, CalmInv, Current
  <2>3. /\ writer'[Api] = Idle
        /\ \A w \in Slots : writer'[w] = writer[w]
    BY <1>1, <1>2 DEF StartWorkflow, TypeInv, WritersTyped, CalmInv, Calm
  <2>4. \A w \in Slots : writer'[w].phase = "idle"
    BY <2>1, <2>3 DEF CalmInv, Alone, TypeInv, WritersTyped
  <2>5. InFlight(writer'[Current'], row', snapshot', PatchOf(pc)')
    BY <1>1, <2>2, <2>4, Resting
  <2>6. pc' \notin Published /\ pc' \notin {"created", "search", "publish"}
    BY <2>2 DEF Published
  <2>7. Alone'
    BY <2>4 DEF Alone
  <2>. QED
    BY <2>2, <2>3, <2>5, <2>6, <2>7, ThreadsTyped DEF CalmInv, Calm
<1>3. ASSUME StartRejected \/ ApiDies PROVE CalmInv'
  <2>1. ApiDies
    BY <1>3 DEF StartRejected, CalmInv, Calm
  <2>2. /\ UNCHANGED <<row, snapshot, pc, roundNo, page, retries>>
        /\ writer'[Api] = Idle
        /\ \A w \in Slots : writer'[w] = writer[w]
    BY <1>1, <2>1 DEF ApiDies, TypeInv, WritersTyped
  <2>3. Current' = Current /\ PatchOf(pc)' = PatchOf(pc)
    BY <2>2, PatchStays DEF Current
  <2>4. writer'[Current'] = writer[Current] /\ (Alone => Alone')
    BY <1>1, <2>2, <2>3 DEF Alone
  <2>. QED
    BY <2>2, <2>3, <2>4, ThreadsTyped DEF CalmInv, Calm
<1>4. ASSUME SearchReturns \/ TryRaises PROVE CalmInv'
  <2>1. /\ pc \in TryBody /\ pc' \in {"dedupe", "fail"}
        /\ writer[Current].phase = "idle"
        /\ UNCHANGED <<row, snapshot, retries, writer>> /\ Current' = Current
    BY <1>4 DEF SearchReturns, TryRaises, TryBody, Waiting, Current, TypeInv, WritersTyped
  <2>2. row = snapshot
    BY <2>1 DEF TryBody, CalmInv, Patching, PatchStages, InFlight
  <2>3. InFlight(writer'[Current'], row', snapshot', PatchOf(pc)')
    BY <2>1, <2>2, Resting
  <2>4. /\ pc' \notin Published /\ pc' \notin {"created", "search", "publish"}
        /\ pc \notin Published
    BY <2>1 DEF Published, TryBody
  <2>5. Alone'
    BY <2>1, <2>4 DEF CalmInv, Alone
  <2>. QED
    BY <2>1, <2>3, <2>4, <2>5 DEF CalmInv, Calm
<1>5. ASSUME SearchAttemptRaises PROVE CalmInv'
  <2>1. pc = "search" /\ UNCHANGED <<row, snapshot, pc, roundNo, page, writer>>
    BY <1>5 DEF SearchAttemptRaises
  <2>2. pc \notin Published /\ pc \notin Patching /\ pc # "publish"
    BY <2>1 DEF Published, Patching, PatchStages
  <2>3. \A w \in Slots : writer[w].phase = "idle"
    BY <2>1, <2>2 DEF CalmInv, Alone, TypeInv, WritersTyped
  <2>4. Alone'
    BY <2>1, <2>3 DEF Alone
  <2>. QED
    BY <2>1, <2>2, <2>4 DEF CalmInv, Calm
<1>6. CASE UNCHANGED vars
  <2>1. UNCHANGED <<row, snapshot, pc, roundNo, page, retries, writer>>
    BY <1>6 DEF vars
  <2>2. Current' = Current /\ PatchOf(pc)' = PatchOf(pc) /\ (Alone => Alone')
    BY <2>1, PatchStays DEF Current, Alone
  <2>. QED
    BY <2>1, <2>2 DEF CalmInv, Calm
<1>. QED
  BY <1>2, <1>3, <1>4, <1>5, <1>6, WriteKeepsCalm, ScheduleKeepsCalm, AnswerKeepsCalm,
     AttemptKeepsCalm DEF Next, Settled, Threads

LEMMA CalmInvariant == Calm /\ Spec => [](TypeInv /\ CalmInv)
<1>1. Spec => []TypeInv
  BY InitTyped, NextTyped, PTL DEF Spec
<1>. QED
  BY <1>1, InitCalm, NextCalm, PTL DEF Spec

\* The ledger of the row is sound at every moment, not only when the workflow looks.
LEMMA RowIsSound == TypeInv /\ CalmInv => LedgerSound(row.steps, snapshot.seen \cup row.seen)
<1> SUFFICES ASSUME TypeInv, CalmInv
             PROVE  LedgerSound(row.steps, snapshot.seen \cup row.seen)
  OBVIOUS
<1>1. CASE pc \in Patching
  <2>1. row = snapshot \/ Patched(row, snapshot, PatchOf(pc))
    BY <1>1 DEF CalmInv, InFlight
  <2>2. /\ IsRow(row) /\ IsRow(snapshot)
        /\ IsPatch(PatchOf(pc)) /\ PatchFits(PatchOf(pc), snapshot)
    BY <1>1, PatchesFit, PatchTyped DEF Patching, TypeInv, WorkflowTyped
  <2>3. LedgerSound(row.steps, row.seen)
    BY <2>1, <2>2, PatchedSound DEF CalmInv
  <2>. QED
    BY <2>3 DEF LedgerSound
<1>2. CASE pc \in Published
  <2>1. row["steps"] = snapshot["steps"]
    BY <1>2, Kinds DEF CalmInv, SameButTrace
  <2>. QED
    BY <2>1 DEF CalmInv, LedgerSound
<1>3. CASE pc \in {"created", "search"}
  BY <1>3 DEF CalmInv, LedgerSound
<1>. QED
  BY <1>1, <1>2, <1>3 DEF TypeInv, WorkflowTyped, Patching, Published

\* Whenever the workflow decides something, it decides on the row as it is: attempts may
\* die, lose their answer or be repeated any number of times.
THEOREM SnapshotAlwaysCurrent == Calm /\ Spec => []SnapshotIsCurrent
<1>1. TypeInv /\ CalmInv => SnapshotIsCurrent
  <2> SUFFICES ASSUME TypeInv, CalmInv, pc \notin {"created", "closed"}, ~Waiting
               PROVE  row = snapshot
    BY DEF SnapshotIsCurrent
  <2>1. pc = "search" \/ pc = "publish" \/ pc \in Patching
    BY DEF TypeInv, WorkflowTyped, Patching
  <2>. QED
    BY <2>1 DEF CalmInv, InFlight, Waiting
<1>. QED
  BY <1>1, CalmInvariant, PTL

\* However often a patch is retried, it is repeated whole and before anything else is
\* appended: the steps of a ranking stay together, and a step's number is the position
\* of its first copy.
THEOREM PatchesAlwaysRepeatWhole == Calm /\ Spec => []PatchesRepeatWhole
<1>1. TypeInv /\ CalmInv => PatchesRepeatWhole
  <2> SUFFICES ASSUME TypeInv, CalmInv, NEW i \in DOMAIN Ledger
               PROVE  LET step == Ledger[i] IN
                      /\ step.no <= i /\ Ledger[step.no] = step
                      /\ \A k \in (PatchStart(step) + PatchLength(step))..i :
                            Ledger[k] = Ledger[k - PatchLength(step)]
                      /\ step.type = "analysis" =>
                            /\ i < Len(Ledger)
                            /\ Ledger[i + 1] = ShortlistAfter(step)
    BY DEF PatchesRepeatWhole
  <2>1. RepeatsWhole(row.steps, i)
    BY RowIsSound DEF Ledger, LedgerSound
  <2>. QED
    BY <2>1 DEF RepeatsWhole, Ledger
<1>. QED
  BY <1>1, CalmInvariant, PTL

\* No resume is admitted to analysis in two rounds, however often a patch is retried.
THEOREM AdmittedAlwaysOnce == Calm /\ Spec => []AdmittedOnce
<1>1. TypeInv /\ CalmInv => AdmittedOnce
  BY RowIsSound DEF AdmittedOnce, Ledger, LedgerSound
<1>. QED
  BY <1>1, CalmInvariant, PTL

-----------------------------------------------------------------------------
(* The lifecycle. *)

\* What the workflow knows of the row at each of its activities.
StageInv ==
    /\ pc \in {"created", "start"} => snapshot.status = "queued"
    /\ pc \in {"strategy", "round", "search", "dedupe", "rank", "complete", "fail"} =>
          snapshot.status = "running"
    /\ pc \in Published => snapshot.status \in {"completed", "failed"}
    /\ pc \in {"created", "start", "strategy"} => snapshot.round = 0
    /\ pc = "round" => roundNo = snapshot.round + 1
    /\ pc \in {"search", "dedupe", "rank", "complete"} => snapshot.round = roundNo
    /\ pc = "complete" => roundNo >= MinRounds

\* The columns RunLifecycle speaks of, in a row with the patch of a stage applied.
LEMMA PatchedColumns ==
    ASSUME NEW r, NEW base, NEW stage \in Patching, Patched(r, base, PatchOf(stage))
    PROVE  /\ r["status"] = CASE stage = "start" -> "running"
                              [] stage = "complete" -> "completed"
                              [] stage = "fail" -> "failed"
                              [] OTHER -> base["status"]
           /\ r["round"] = IF stage = "round" THEN roundNo ELSE base["round"]
           /\ stage \in {"complete", "fail"} => r["finished"] = TRUE
           /\ stage \notin {"complete", "fail"} => r["finished"] = base["finished"]
           /\ r["trace"] = base["trace"]
           /\ stage \in {"start", "round", "fail"} => PatchOf(stage).append = <<>>
<1> DEFINE p == PatchOf(stage)
<1>1. \A c \in {"status", "round", "finished", "trace"} :
         r[c] = IF c \in DOMAIN p.set THEN p.set[c] ELSE base[c]
  BY Kinds DEF Patched
<1>2. CASE stage = "start"
  <2>1. p = [set |-> [status |-> "running", error |-> "none"], append |-> <<>>]
    BY <1>2 DEF PatchOf
  <2>2. DOMAIN p.set = {"status", "error"} /\ p.set["status"] = "running" /\ p.append = <<>>
    BY <2>1
  <2> HIDE DEF p
  <2>. QED
    BY <1>1, <1>2, <2>2 DEF p
<1>3. CASE stage = "strategy"
  <2>1. DOMAIN p.set = {}
    BY <1>3 DEF PatchOf
  <2>. QED
    BY <1>1, <1>3, <2>1
<1>4. CASE stage = "round"
  <2>1. p = [set |-> [round |-> roundNo], append |-> <<>>]
    BY <1>4 DEF PatchOf
  <2>2. DOMAIN p.set = {"round"} /\ p.set["round"] = roundNo /\ p.append = <<>>
    BY <2>1
  <2>. QED
    BY <1>1, <1>4, <2>2
<1>5. CASE stage = "dedupe"
  <2>1. DOMAIN p.set = {"seen"}
    BY <1>5 DEF PatchOf
  <2>. QED
    BY <1>1, <1>5, <2>1
<1>6. CASE stage = "complete"
  <2>1. /\ DOMAIN p.set = {"status", "finished"} /\ p.set["status"] = "completed"
        /\ p.set["finished"] = TRUE
    BY <1>6 DEF PatchOf
  <2>. QED
    BY <1>1, <1>6, <2>1
<1>7. CASE stage = "fail"
  <2>1. /\ DOMAIN p.set = {"status", "error", "finished"} /\ p.set["status"] = "failed"
        /\ p.set["finished"] = TRUE /\ p.append = <<>>
    BY <1>7 DEF PatchOf
  <2>. QED
    BY <1>1, <1>7, <2>1
<1>8. CASE stage = "rank"
  <2>1. DOMAIN p.set = {}
    BY <1>8 DEF PatchOf
  <2>. QED
    BY <1>1, <1>8, <2>1
<1>. QED
  BY <1>2, <1>3, <1>4, <1>5, <1>6, <1>7, <1>8 DEF Patching, PatchStages

LEMMA InitStage == Init => StageInv
<1> SUFFICES ASSUME Init PROVE StageInv
  OBVIOUS
<1>1. snapshot["status"] = "queued" /\ snapshot["round"] = 0 /\ pc = "created"
  BY Kinds DEF Init
<1>. QED
  BY <1>1 DEF StageInv, Published

LEMMA NextStage == TypeInv /\ CalmInv /\ StageInv /\ [Next]_vars => StageInv'
<1> SUFFICES ASSUME TypeInv, CalmInv, StageInv, [Next]_vars PROVE StageInv'
  OBVIOUS
<1>1. CASE UNCHANGED <<snapshot, pc, roundNo>>
  BY <1>1 DEF StageInv
<1>2. ASSUME StartWorkflow PROVE StageInv'
  <2>1. pc = "created"
    BY <1>2, CurrentIsASlot DEF StartWorkflow, TypeInv, WritersTyped, Threads
  <2>2. pc' = "start" /\ snapshot' = snapshot
    BY <1>2, <2>1 DEF StartWorkflow, CalmInv
  <2>. QED
    BY <2>1, <2>2 DEF StageInv, Published
<1>3. ASSUME SearchReturns \/ TryRaises PROVE StageInv'
  <2>1. /\ UNCHANGED <<snapshot, roundNo>>
        /\ pc \in {"strategy", "round", "search", "dedupe", "rank", "complete"}
        /\ pc' = "fail" \/ (pc = "search" /\ pc' = "dedupe")
    BY <1>3 DEF SearchReturns, TryRaises, TryBody
  <2>. QED
    BY <2>1 DEF StageInv, Published
<1>4. ASSUME PatchAnswers PROVE StageInv'
  <2>1. /\ writer[Current].phase = "answer" /\ snapshot' = writer[Current].record
        /\ pc' \in Following(pc)
        /\ roundNo' = IF pc' = "round" THEN roundNo + 1 ELSE roundNo
    BY <1>4 DEF PatchAnswers, Answered
  <2>2. pc \in PatchStages
    BY <2>1 DEF TypeInv, WorkflowTyped, WritersTyped
  <2>3. CASE pc = "publish"
    <3>1. pc' = "closed"
      BY <2>1, <2>3 DEF Following
    <3>2. Publisher(writer[Current], snapshot)
      BY <2>3, CurrentIsASlot DEF CalmInv, Published, TypeInv
    <3>3. snapshot'["status"] = snapshot["status"]
      BY <2>1, <3>2, Kinds DEF Publisher, SameButTrace
    <3>. QED
      BY <2>3, <3>1, <3>3 DEF StageInv, Published
  <2>4. CASE pc \in Patching
    <3>1. Patched(snapshot', snapshot, PatchOf(pc))
      BY <2>1, <2>4 DEF CalmInv, InFlight
    <3>2. /\ snapshot'["status"] = CASE pc = "start" -> "running"
                                     [] pc = "complete" -> "completed"
                                     [] pc = "fail" -> "failed"
                                     [] OTHER -> snapshot["status"]
          /\ snapshot'["round"] = IF pc = "round" THEN roundNo ELSE snapshot["round"]
      BY <2>4, <3>1, PatchedColumns
    <3>3. CASE pc = "start"
      <4>1. pc' = "strategy"
        BY <2>1, <3>3 DEF Following
      <4>. QED
        BY <3>2, <3>3, <4>1 DEF StageInv, Published
    <3>4. CASE pc = "strategy"
      <4>1. pc' = "round" /\ roundNo = 0 /\ roundNo' = 1
        BY <2>1, <3>4 DEF Following, TypeInv, WorkflowTyped
      <4>. QED
        BY <3>2, <3>4, <4>1 DEF StageInv, Published
    <3>5. CASE pc = "round"
      <4>1. pc' = "search" /\ roundNo' = roundNo
        BY <2>1, <3>5 DEF Following
      <4>. QED
        BY <3>2, <3>5, <4>1 DEF StageInv, Published
    <3>8. CASE pc = "dedupe"
      <4>1. pc' = "rank" /\ roundNo' = roundNo
        BY <2>1, <3>8 DEF Following
      <4>. QED
        BY <3>2, <3>8, <4>1 DEF StageInv, Published
    <3>6. CASE pc = "rank"
      <4>1. \/ pc' = "round" /\ roundNo' = roundNo + 1
            \/ pc' = "complete" /\ roundNo' = roundNo /\ roundNo >= MinRounds
        BY <2>1, <3>6 DEF Following, LoopMayStop
      <4>. QED
        BY <3>2, <3>6, <4>1 DEF StageInv, Published
    <3>7. CASE pc \in {"complete", "fail"}
      <4>1. pc' = "publish"
        BY <2>1, <3>7 DEF Following
      <4>. QED
        BY <3>2, <3>7, <4>1 DEF StageInv, Published
    <3>. QED
      BY <2>4, <3>3, <3>4, <3>5, <3>6, <3>7, <3>8 DEF Patching, PatchStages
  <2>. QED
    BY <2>2, <2>3, <2>4 DEF Patching
<1>5. CASE \/ StartRejected \/ ApiDies \/ SchedulePatch \/ SearchAttemptRaises
           \/ PublishAttemptRaises \/ WorkerDies \/ AttemptTimesOut \/ Settled
           \/ (\E w \in Slots \cup {Api} : Write(w)) \/ UNCHANGED vars
  <2>1. UNCHANGED <<snapshot, pc, roundNo>>
    BY <1>5 DEF StartRejected, ApiDies, SchedulePatch, SearchAttemptRaises,
                PublishAttemptRaises, WorkerDies, AttemptTimesOut, Settled, Write, ReadRow,
                SaveRecord, Commit, vars
  <2>. QED
    BY <1>1, <2>1
<1>. QED
  BY <1>2, <1>3, <1>4, <1>5 DEF Next

\* Every write of the row is a step of the lifecycle or changes nothing it speaks of.
LEMMA NextImplements ==
    TypeInv /\ TypeInv' /\ CalmInv /\ StageInv /\ [Next]_vars
    => [Lifecycle!Next]_(Lifecycle!vars)
<1> SUFFICES ASSUME TypeInv, TypeInv', CalmInv, StageInv, [Next]_vars
             PROVE  Lifecycle!Next \/ UNCHANGED Lifecycle!vars
  OBVIOUS
<1>1. CASE UNCHANGED row
  BY <1>1 DEF Lifecycle!vars
<1>2. ASSUME NEW w \in Threads, Write(w), row' # row
      PROVE  Lifecycle!Next \/ UNCHANGED Lifecycle!vars
  <2>1. /\ w \in Slots /\ pc \in Patching \cup Published
        /\ pc \in Patching => w = Current
    BY <1>2, SomeThreadWrites
  <2>2. Commit(w)
    BY <1>2 DEF Write, ReadRow, SaveRecord
  <2>3. IsRow(row) /\ IsRow(row') /\ IsRow(snapshot)
    BY DEF TypeInv, WorkflowTyped
  <2>4. CASE pc \in Published
    <3>1. /\ SameButTrace(row, snapshot) /\ SameButTrace(row', snapshot)
          /\ row'["trace"] \in {row["trace"], TRUE}
      BY <1>2, <2>1, <2>4, PublisherWrites DEF CalmInv
    <3>2. /\ row'["status"] = row["status"] /\ row'["round"] = row["round"]
          /\ row'["steps"] = row["steps"] /\ row'["finished"] = row["finished"]
          /\ row["status"] \in {"completed", "failed"}
      BY <2>4, <3>1, Kinds DEF SameButTrace, StageInv
    <3>3. Len(row.steps) <= Len(row'.steps)
      <4>1. row.steps \in Seq(Step)
        BY <2>3, RowLedger
      <4>. QED
        BY <3>2, <4>1
    <3>. QED
      BY <3>1, <3>2, <3>3 DEF Lifecycle!Next, Lifecycle!Annotate, Lifecycle!Terminal,
                              Lifecycle!Extends
  <2>5. CASE pc \in Patching
    <3> DEFINE p == PatchOf(pc)
    <3>1. InFlight(writer'[Current], row', snapshot, p) /\ IsPatch(p)
      BY <1>2, <2>1, <2>5, InFlightWrites, PatchTyped DEF TypeInv, Patching
    <3>2. Patched(row', snapshot, p)
      <4>1. writer'[Current].phase = "answer"
        BY <2>1, <2>2, <2>5, CurrentIsASlot DEF Commit, TypeInv, WritersTyped
      <4>. QED
        BY <3>1, <4>1 DEF InFlight
    <3>3. row' = Apply(row, p)
      <4>1. /\ writer[Current].record = Apply(row, p)
            /\ writer[Current].dirty = {c \in Columns : writer[Current].record[c] # row[c]}
            /\ row' = [c \in Columns |-> IF c \in writer[Current].dirty
                                         THEN writer[Current].record[c] ELSE row[c]]
        BY <2>1, <2>2, <2>5 DEF Commit, CalmInv, InFlight
      <4>2. IsRow(Apply(row, p))
        BY <2>3, <3>1, ApplyColumns
      <4>3. \A c \in Columns : row'[c] = Apply(row, p)[c]
        BY <4>1
      <4>. QED
        BY <4>1, <4>2, <4>3 DEF IsRow
    <3>4. Lifecycle!Extends(row'.steps)
      <4>1. row = snapshot \/ Patched(row, snapshot, p)
        BY <2>5 DEF CalmInv, InFlight
      <4>2. /\ Len(row.steps) <= Len(Apply(row, p).steps)
            /\ \A i \in 1..Len(row.steps) : Apply(row, p).steps[i] = row.steps[i]
        BY <2>3, <3>1, <4>1, PatchedAgain
      <4>. QED
        BY <3>3, <4>2 DEF Lifecycle!Extends
    <3>5. /\ row'["status"] = CASE pc = "start" -> "running"
                                [] pc = "complete" -> "completed"
                                [] pc = "fail" -> "failed"
                                [] OTHER -> snapshot["status"]
          /\ row'["round"] = IF pc = "round" THEN roundNo ELSE snapshot["round"]
          /\ pc \in {"complete", "fail"} => row'["finished"] = TRUE
          /\ pc \notin {"complete", "fail"} => row'["finished"] = snapshot["finished"]
          /\ row'["trace"] = snapshot["trace"]
          /\ pc \in {"start", "fail"} => p.append = <<>>
      BY <2>5, <3>2, PatchedColumns
    <3>6. /\ row["round"] \in 0..MaxRounds /\ row'["round"] \in 0..MaxRounds
          /\ roundNo \in 0..MaxRounds /\ MaxRounds \in Nat
      BY <2>3, Kinds, Constants DEF IsRow, TypeInv, WorkflowTyped
    <3>7. CASE row = snapshot
      <4>1. CASE pc \in {"start", "fail"}
        <5>1. row'.steps = row.steps
          <6>1. row'.steps = row.steps \o p.append /\ p.append = <<>>
            BY <2>3, <3>1, <3>5, <3>3, <4>1, ApplyColumns
          <6>2. row.steps \in Seq(Step)
            BY <2>3, RowLedger
          <6>. QED
            BY <6>1, <6>2
        <5>. QED
          BY <3>5, <3>7, <4>1, <5>1
             DEF StageInv, Lifecycle!Next, Lifecycle!Start, Lifecycle!Fail
      <4>2. CASE pc \in {"strategy", "round", "dedupe", "rank"}
        <5>1. row["status"] = "running" /\ row'["status"] = "running"
          BY <3>5, <3>7, <4>2 DEF StageInv
        <5>2. row'["round"] \in {row["round"], row["round"] + 1}
          BY <3>5, <3>7, <4>2 DEF StageInv
        <5>. QED
          BY <3>4, <3>5, <3>6, <3>7, <4>2, <5>1, <5>2
             DEF Lifecycle!Next, Lifecycle!Progress
      <4>3. CASE pc = "complete"
        BY <3>4, <3>5, <3>7, <4>3 DEF StageInv, Lifecycle!Next, Lifecycle!Complete
      <4>. QED
        BY <2>5, <4>1, <4>2, <4>3 DEF Patching, PatchStages
    <3>8. CASE Patched(row, snapshot, p)
      <4>1. /\ row'["status"] = row["status"] /\ row'["round"] = row["round"]
            /\ row'["finished"] = row["finished"] /\ row'["trace"] = row["trace"]
        BY <2>5, <3>5, <3>8, PatchedColumns
      <4>2. row["status"] \in {"running", "completed", "failed"}
        BY <2>5, <3>5, <4>1 DEF StageInv, Patching, PatchStages
      <4>3. CASE row["status"] = "running"
        BY <3>4, <3>6, <4>1, <4>3 DEF Lifecycle!Next, Lifecycle!Progress
      <4>4. CASE row["status"] \in {"completed", "failed"}
        BY <3>4, <4>1, <4>4 DEF Lifecycle!Next, Lifecycle!Annotate, Lifecycle!Terminal
      <4>. QED
        BY <4>2, <4>3, <4>4
    <3>. QED
      BY <2>5, <3>7, <3>8 DEF CalmInv, InFlight
  <2>. QED
    BY <2>1, <2>4, <2>5
<1>3. CASE \/ StartWorkflow \/ StartRejected \/ ApiDies \/ SchedulePatch \/ PatchAnswers
           \/ SearchReturns \/ TryRaises \/ SearchAttemptRaises \/ PublishAttemptRaises
           \/ WorkerDies \/ AttemptTimesOut \/ Settled \/ UNCHANGED vars
  <2>1. UNCHANGED row
    BY <1>3 DEF StartWorkflow, StartRejected, ApiDies, SchedulePatch, PatchAnswers,
                SearchReturns, TryRaises, SearchAttemptRaises, PublishAttemptRaises,
                WorkerDies, AttemptTimesOut, Settled, vars
  <2>. QED
    BY <1>1, <2>1
<1>. QED
  BY <1>1, <1>2, <1>3 DEF Next, Threads

\* The row of a run keeps the promises of RunLifecycle though any write may be repeated
\* and a process may die between any two steps.
THEOREM RowImplementsLifecycle == Calm /\ Spec => ImplementsLifecycle
<1>1. Init => Lifecycle!Init
  <2> SUFFICES ASSUME Init PROVE Lifecycle!Init
    OBVIOUS
  <2>1. /\ row["status"] = "queued" /\ row["round"] = 0 /\ row["steps"] = <<>>
        /\ row["finished"] = FALSE /\ row["trace"] = FALSE
    BY Kinds DEF Init
  <2>. QED
    BY <2>1 DEF Lifecycle!Init
<1>2. Spec => []TypeInv
  BY InitTyped, NextTyped, PTL DEF Spec
<1>3. Calm /\ Spec => []StageInv
  BY CalmInvariant, InitStage, NextStage, PTL DEF Spec
<1>. QED
  BY <1>1, <1>2, <1>3, CalmInvariant, NextImplements, PTL
     DEF Spec, ImplementsLifecycle, Lifecycle!Spec
=============================================================================
