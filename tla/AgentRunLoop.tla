---------------------------- MODULE AgentRunLoop ----------------------------
(***************************************************************************)
(* The agent run: one workflow per run drives the loop                     *)
(*     strategy, (search, dedupe, analyse, rank, judge, reflect)*, finalize *)
(* of cvm_worker/execution.py and writes what it learns to the run's row   *)
(* through persist_run_patch.  One action is one activity call with the    *)
(* local code around it, up to the next call.                              *)
(*                                                                         *)
(* The host is run_agent_run_locally: a patch is applied exactly once and  *)
(* nobody else writes the row, but nothing is retried either, so that what *)
(* raises outside the try block ends the function.  RunRecord has Temporal *)
(* for its host and gives up all three.  The offsets that turn a strategy  *)
(* into a page number belong to the search paging component: a page is any *)
(* set of resumes here.                                                    *)
(***************************************************************************)
EXTENDS Integers, Sequences, FiniteSets

CONSTANTS
    Resumes,        \* externalIdentityIds, ordered as the ranking's tie-break orders them
    Strategies,     \* strategy signatures: two queries are one strategy when these are equal
    RawScores,      \* scores the resume matcher may answer
    ScoreCap,       \* 0.99 in the code
    MaxRounds,      \* config.maxRounds, the length of roundFetchSchedule
    AgentMinRounds, \* settings.agent_min_rounds of the worker
    FinalTopK,      \* config.finalTopK
    NoStrategy

ASSUME ResumesAssumption == Resumes \subseteq Int /\ IsFiniteSet(Resumes)
ASSUME StrategiesAssumption == NoStrategy \notin Strategies
ASSUME ScoresAssumption == RawScores \subseteq Int /\ ScoreCap \in Nat
ASSUME RoundsAssumption == MaxRounds \in 3..5 /\ AgentMinRounds \in 3..5
ASSUME TopKAssumption == FinalTopK \in Nat \ {0}

VARIABLES
    status, currentRound, steps, seen, finalShortlist, errorCode, finished, traced,
                    \* the run's row
    pc, strategy, page, admitted, retained, noProgress, previousSignature,
    stopReason, raised
                    \* the workflow: where it is and _ExecutionState

record == <<status, currentRound, steps, seen, finalShortlist, errorCode, finished, traced>>
memory == <<strategy, page, admitted, retained, noProgress, previousSignature, stopReason, raised>>
vars == <<record, memory, pc>>

-----------------------------------------------------------------------------
(* Configuration and ranking. *)

AtMost(a, b) == IF a <= b THEN a ELSE b
AtLeast(a, b) == IF a >= b THEN a ELSE b

EffectiveMinRounds == AtMost(MaxRounds, AtLeast(3, AtMost(AgentMinRounds, 5)))

Clamp(score) == AtLeast(0, AtMost(score, ScoreCap))

\* A shortlisted candidate: the resume, its score and the round that found it.
Entry == [id : Resumes, score : Nat, round : Nat]

\* The sort key (-score, source_round, externalIdentityId).
Precedes(d, e) ==
    \/ d.score > e.score
    \/ d.score = e.score /\ d.round < e.round
    \/ d.score = e.score /\ d.round = e.round /\ d.id < e.id

IdsOf(entries) == {e.id : e \in entries}

\* After the sort, the first entry of a resume is kept and the others dropped.
BestPerResume(entries) ==
    {e \in entries : \A d \in entries : d.id = e.id /\ d # e => Precedes(e, d)}

\* top is what a sort of entries cut off after k of them leaves.
IsTop(top, entries, k) ==
    /\ top \subseteq entries
    /\ \A e \in top, d \in entries \ top : Precedes(e, d)
    /\ \/ Cardinality(top) = k
       \/ top = entries /\ Cardinality(top) <= k

\* Mutant: a round that analysed something forgets the candidates kept so far.
RankRoundOnly(kept, new, top) ==
    IsTop(top, BestPerResume(IF new = {} THEN kept ELSE new), FinalTopK)

\* _rank_candidates: top is what it returns for these two lists.
RankCandidates(kept, new, top) == IsTop(top, BestPerResume(kept \cup new), FinalTopK)

-----------------------------------------------------------------------------
(* The ledger. *)

StepTypes == {"strategy", "search", "dedupe", "analysis", "shortlist", "reflection",
              "stop", "finalize", "observability-warning"}
StopReasons == {"max-rounds", "no-progress", "reflection", "duplicate-strategy"}

\* query is filled in search steps and, with the next one, in reflection steps, entries in
\* analysis and shortlist steps, source in stop steps.
Step == [no : Nat, round : 0..MaxRounds, type : StepTypes,
         query : Strategies \cup {NoStrategy}, entries : SUBSET Entry,
         source : StopReasons \cup {"none"}]

BlankStep(no, round, type) ==
    [no |-> no, round |-> round, type |-> type, query |-> NoStrategy,
     entries |-> {}, source |-> "none"]

NextStep(type) == BlankStep(Len(steps) + 1, currentRound, type)

\* Mutant: both steps of a patch are numbered from the persisted ledger.
SecondStepUnnumbered(type) == NextStep(type)

\* The second step of one patch: _append_step has put the first into the in-memory ledger.
SecondStep(type) == BlankStep(Len(steps) + 2, currentRound, type)

-----------------------------------------------------------------------------
(* The workflow. *)

TryBody == {"extract", "begin", "search", "dedupe", "analyse", "judge", "stop", "finalize"}

Init ==
    /\ status = "queued" /\ currentRound = 0 /\ steps = <<>> /\ seen = {}
    /\ finalShortlist = {} /\ errorCode = "none" /\ finished = FALSE /\ traced = FALSE
    /\ pc = "start" /\ strategy = NoStrategy /\ page = {} /\ admitted = {}
    /\ retained = {} /\ noProgress = 0 /\ previousSignature = {}
    /\ stopReason = "none" /\ raised = "none"

MarkRunning ==
    /\ pc = "start"
    /\ status' = "running" /\ errorCode' = "none"
    /\ pc' = "extract"
    /\ UNCHANGED <<currentRound, steps, seen, finalShortlist, finished, traced, memory>>

\* The snapshot cannot be loaded, or the run not marked: the exception leaves the function,
\* which has not entered its try block yet.
StartRaises ==
    /\ pc = "start"
    /\ pc' = "escaped"
    /\ UNCHANGED <<record, memory>>

ExtractStrategy ==
    /\ pc = "extract"
    /\ strategy' \in Strategies
    /\ steps' = Append(steps, NextStep("strategy"))
    /\ pc' = "begin"
    /\ UNCHANGED <<status, currentRound, seen, finalShortlist, errorCode, finished, traced,
                   page, admitted, retained, noProgress, previousSignature, stopReason, raised>>

BeginRound ==
    /\ pc = "begin"
    /\ currentRound < MaxRounds
    /\ currentRound' = currentRound + 1
    /\ pc' = "search"
    /\ UNCHANGED <<status, steps, seen, finalShortlist, errorCode, finished, traced, memory>>

SearchStep == [NextStep("search") EXCEPT !.query = strategy]

SearchReturns ==
    /\ pc = "search"
    /\ page' \in SUBSET Resumes
    /\ steps' = Append(steps, SearchStep)
    /\ pc' = "dedupe"
    /\ UNCHANGED <<status, currentRound, seen, finalShortlist, errorCode, finished, traced,
                   strategy, admitted, retained, noProgress, previousSignature, stopReason, raised>>

\* The CTS adapter reports its errors in the page: the step is recorded, then
\* the workflow raises ExternalDependencyError.
SearchReportsError ==
    /\ pc = "search"
    /\ steps' = Append(steps, SearchStep)
    /\ raised' = "CTS_ERROR"
    /\ pc' = "failing"
    /\ UNCHANGED <<status, currentRound, seen, finalShortlist, errorCode, finished, traced,
                   strategy, page, admitted, retained, noProgress, previousSignature, stopReason>>

\* Mutant: only the last page is remembered.
SeenAfterLastPage(returned) == returned

SeenAfter(returned) == seen \cup returned

\* The page is not read again: it is cleared, which the code leaves to the next search.
Dedupe ==
    /\ pc = "dedupe"
    /\ admitted' = page \ seen
    /\ seen' = SeenAfter(page)
    /\ page' = {}
    /\ steps' = Append(steps, NextStep("dedupe"))
    /\ pc' = "analyse"
    /\ UNCHANGED <<status, currentRound, finalShortlist, errorCode, finished, traced,
                   strategy, retained, noProgress, previousSignature, stopReason, raised>>

Analyses(scores) ==
    {[id |-> r, score |-> Clamp(scores[r]), round |-> currentRound] : r \in admitted}

\* Mutant: a round with progress does not reset the counter.
NoProgressNeverReset(top) ==
    IF admitted = {} \/ IdsOf(top) = previousSignature THEN noProgress + 1 ELSE noProgress

NoProgressAfter(top) ==
    IF admitted = {} \/ IdsOf(top) = previousSignature THEN noProgress + 1 ELSE 0

\* Persist the snapshots, ask the matcher about every admitted resume, persist the
\* analyses, rank, and persist both steps with the shortlist in one patch.  The
\* shortlist's order is a function of its entries, so it is kept as a set, and
\* its signature, the tuple of ids, as the set of ids.
AnalyseWith(scores) ==
    /\ pc = "analyse"
    /\ \E top \in SUBSET (retained \cup Analyses(scores)) :
          /\ RankCandidates(retained, Analyses(scores), top)
          /\ retained' = top /\ finalShortlist' = top
          /\ steps' = Append(Append(steps,
                          [NextStep("analysis") EXCEPT !.entries = Analyses(scores)]),
                          [SecondStep("shortlist") EXCEPT !.entries = top])
          /\ noProgress' = NoProgressAfter(top)
          /\ previousSignature' = IdsOf(top)
    /\ pc' = "judge"
    /\ UNCHANGED <<status, currentRound, seen, errorCode, finished, traced,
                   strategy, page, admitted, stopReason, raised>>

AnalyseAndRank == \E scores \in [admitted -> RawScores] : AnalyseWith(scores)

\* Mutant: the third fruitless round stops the run, not the second.
ShouldStopTooLate ==
    \/ currentRound >= MaxRounds
    \/ currentRound >= EffectiveMinRounds /\ noProgress > 2

ShouldStopAfterRound ==
    \/ currentRound >= MaxRounds
    \/ currentRound >= EffectiveMinRounds /\ noProgress >= 2

RuleStopReason == IF currentRound >= MaxRounds THEN "max-rounds" ELSE "no-progress"

StopByRule ==
    /\ pc = "judge"
    /\ ShouldStopAfterRound
    /\ stopReason' = RuleStopReason
    /\ steps' = Append(steps, [NextStep("stop") EXCEPT !.source = RuleStopReason])
    /\ pc' = "finalize"
    /\ UNCHANGED <<status, currentRound, seen, finalShortlist, errorCode, finished, traced,
                   strategy, page, admitted, retained, noProgress, previousSignature, raised>>

\* Mutant: the reflector is always obeyed.
ObeyReflector(wish) == wish

\* The reflector's wish to stop is overruled before the minimum round.
ContinueSearch(wish) == wish \/ currentRound < EffectiveMinRounds

BlockedAsDuplicate(next) ==
    /\ currentRound >= EffectiveMinRounds
    /\ next = strategy
    /\ noProgress >= 1

ReflectionStep(next) == [NextStep("reflection") EXCEPT !.query = next]

ReflectWith(wish, next) ==
    /\ pc = "judge"
    /\ ~ShouldStopAfterRound
    /\ steps' = Append(steps, ReflectionStep(next))
    /\ \/ /\ ~ContinueSearch(wish)
          /\ stopReason' = "reflection" /\ pc' = "stop" /\ UNCHANGED strategy
       \/ /\ ContinueSearch(wish) /\ BlockedAsDuplicate(next)
          /\ stopReason' = "duplicate-strategy" /\ pc' = "stop" /\ UNCHANGED strategy
       \/ /\ ContinueSearch(wish) /\ ~BlockedAsDuplicate(next)
          /\ strategy' = next /\ pc' = "begin" /\ UNCHANGED stopReason
    /\ UNCHANGED <<status, currentRound, seen, finalShortlist, errorCode, finished, traced,
                   page, admitted, retained, noProgress, previousSignature, raised>>

Reflect == \E wish \in BOOLEAN, next \in Strategies : ReflectWith(wish, next)

RecordStop ==
    /\ pc = "stop"
    /\ steps' = Append(steps, [NextStep("stop") EXCEPT !.source = stopReason])
    /\ pc' = "finalize"
    /\ UNCHANGED <<status, currentRound, seen, finalShortlist, errorCode, finished, traced, memory>>

\* Mutant: the status is committed before the step that ends the ledger.
FinalizeUnrecorded ==
    /\ pc = "finalize"
    /\ status' = "completed" /\ finalShortlist' = retained /\ finished' = TRUE
    /\ pc' = "publish"
    /\ UNCHANGED <<currentRound, steps, seen, errorCode, traced, memory>>

Finalize ==
    /\ pc = "finalize"
    /\ steps' = Append(steps, NextStep("finalize"))
    /\ status' = "completed" /\ finalShortlist' = retained /\ finished' = TRUE
    /\ pc' = "publish"
    /\ UNCHANGED <<currentRound, seen, errorCode, traced, memory>>

\* Anything the try block calls may raise before its patch is persisted.
ActivityRaises ==
    /\ pc \in TryBody
    /\ raised' = "AGENT_RUN_FAILED"
    /\ pc' = "failing"
    /\ UNCHANGED <<record, strategy, page, admitted, retained, noProgress,
                   previousSignature, stopReason>>

\* Mutant: markFinished is missing from the failure patch.
RecordFailureUnfinished ==
    /\ pc = "failing"
    /\ status' = "failed" /\ errorCode' = raised
    /\ pc' = "publish"
    /\ UNCHANGED <<currentRound, steps, seen, finalShortlist, finished, traced, memory>>

\* Mutant: the workflow ends without a failure patch.
FailSilently ==
    /\ pc = "failing"
    /\ pc' = "publish"
    /\ UNCHANGED <<record, memory>>

RecordFailure ==
    /\ pc = "failing"
    /\ status' = "failed" /\ errorCode' = raised /\ finished' = TRUE
    /\ pc' = "publish"
    /\ UNCHANGED <<currentRound, steps, seen, finalShortlist, traced, memory>>

\* The failure patch raises in its turn, and no handler is left.
FailureUnrecorded ==
    /\ pc = "failing"
    /\ pc' = "escaped"
    /\ UNCHANGED <<record, memory>>

PublishTrace ==
    /\ pc = "publish"
    /\ traced' = TRUE
    /\ pc' = "closed"
    /\ UNCHANGED <<status, currentRound, steps, seen, finalShortlist, errorCode, finished, memory>>

\* Mutant: the exporter's exception reaches the handler of the try block.
PublishRaises ==
    /\ pc = "publish"
    /\ raised' = "AGENT_RUN_FAILED"
    /\ pc' = "failing"
    /\ UNCHANGED <<record, strategy, page, admitted, retained, noProgress,
                   previousSignature, stopReason>>

\* Publishing failed: a warning step is appended, or that fails too and is logged.
PublishFails ==
    /\ pc = "publish"
    /\ steps' \in {steps, Append(steps, NextStep("observability-warning"))}
    /\ pc' = "closed"
    /\ UNCHANGED <<status, currentRound, seen, finalShortlist, errorCode, finished, traced, memory>>

Closed == pc \in {"closed", "escaped"} /\ UNCHANGED vars

Next ==
    \/ MarkRunning \/ ExtractStrategy \/ BeginRound \/ SearchReturns \/ SearchReportsError
    \/ Dedupe \/ AnalyseAndRank \/ StopByRule \/ Reflect \/ RecordStop \/ Finalize
    \/ ActivityRaises \/ RecordFailure \/ PublishTrace \/ PublishFails
    \/ StartRaises \/ FailureUnrecorded \/ Closed

Spec == Init /\ [][Next]_vars

\* The local host calls one thing after the other and retries none, and every call answers
\* or raises: CTS and the agents have a timeout, the database is taken to answer or fail.
FairSpec == Spec /\ WF_vars(Next)

-----------------------------------------------------------------------------
(* Properties. *)

\* Every variable has its type.  The one fact of substance: a finished run is a
\* run whose status is terminal, so the two columns never disagree.
TypeOK ==
    /\ status \in {"queued", "running", "completed", "failed"}
    /\ currentRound \in 0..MaxRounds
    /\ steps \in Seq(Step)
    /\ seen \in SUBSET Resumes
    /\ finalShortlist \in SUBSET Entry
    /\ errorCode \in {"none", "CTS_ERROR", "AGENT_RUN_FAILED"}
    /\ finished \in BOOLEAN /\ (finished <=> status \in {"completed", "failed"})
    /\ traced \in BOOLEAN
    /\ pc \in TryBody \cup {"start", "failing", "publish", "closed", "escaped"}
    /\ strategy \in Strategies \cup {NoStrategy}
    /\ page \in SUBSET Resumes
    /\ admitted \in SUBSET Resumes
    /\ retained \in SUBSET Entry
    /\ noProgress \in Nat
    /\ previousSignature \in SUBSET Resumes
    /\ stopReason \in StopReasons \cup {"none"}
    /\ raised \in {"none", "CTS_ERROR", "AGENT_RUN_FAILED"}

StepsOf(type) == {i \in DOMAIN steps : steps[i].type = type}

\* Every entry the matcher ever produced, read back from the ledger.
Analysed == UNION {steps[i].entries : i \in StepsOf("analysis")}

\* A resume that any query returned in an earlier round never enters analysis again:
\* the analysis steps of the ledger are about disjoint sets of resumes (dedupe,
\* execution.py:1138, and MVP plan's "duplicate CTS resumes can re-enter analysis").
AnalysedOnce ==
    \A i, j \in StepsOf("analysis") :
        i # j => IdsOf(steps[i].entries) \cap IdsOf(steps[j].entries) = {}

\* The shortlist the row shows is at every moment the finalTopK best of everything
\* analysed so far, though each round ranks only what it kept and what is new
\* (_rank_candidates drops the rest for good).
ShortlistIsTopOfAll == IsTop(finalShortlist, Analysed, FinalTopK)

\* Which step may follow which, and in what round (0 is "no round").
Follows(s, t) ==
    \/ s.type = "strategy" /\ t.type = "search" /\ t.round = 1
    \/ s.type = "reflection" /\ t.type = "search" /\ t.round = s.round + 1
    \/ t.type = "observability-warning" /\ t.round \in {s.round, s.round + 1}
    \/ /\ s.round = t.round
       /\ <<s.type, t.type>> \in
            {<<"search", "dedupe">>, <<"dedupe", "analysis">>, <<"analysis", "shortlist">>,
             <<"shortlist", "reflection">>, <<"shortlist", "stop">>, <<"reflection", "stop">>,
             <<"stop", "finalize">>}

\* The ledger reads as a protocol: stepNo counts 1, 2, 3..., rounds succeed one
\* another without a gap, and inside a round the steps come in the order of the loop,
\* whatever failed and wherever publishing the trace put its warning.
LedgerIsAProtocol ==
    /\ \A i \in DOMAIN steps : steps[i].no = i
    /\ \A i \in 1..(Len(steps) - 1) : Follows(steps[i], steps[i + 1])

\* The round's step of a type that is recorded once per round.
RoundStep(type, round) == CHOOSE i \in StepsOf(type) : steps[i].round = round

\* Round r brought nothing new: no resume was analysed, or the shortlist holds the
\* same resumes as the round before.
Fruitless(r) ==
    \/ steps[RoundStep("analysis", r)].entries = {}
    \/ IdsOf(steps[RoundStep("shortlist", r)].entries) =
         (IF r = 1 THEN {} ELSE IdsOf(steps[RoundStep("shortlist", r - 1)].entries))

\* A stop step's reason is true of the ledger it stands in, not only of the workflow's
\* counters: the round limit was reached, or the last two rounds were fruitless, or
\* the last round was; and no run stops before the minimum round.
StopIsJustified ==
    \A i \in StepsOf("stop") :
        LET r == steps[i].round IN
        /\ r >= EffectiveMinRounds
        /\ steps[i].source = "max-rounds" => r = MaxRounds
        /\ steps[i].source = "no-progress" => Fruitless(r) /\ Fruitless(r - 1)
        /\ steps[i].source = "duplicate-strategy" => Fruitless(r) /\ r < MaxRounds

\* The converse: once the minimum is reached, no round follows two fruitless ones, or a
\* fruitless one whose query it would only repeat.
NoRoundAfterStopCondition ==
    \A i \in StepsOf("search") :
        LET r == steps[i].round - 1 IN
        r >= EffectiveMinRounds =>
            /\ ~(Fruitless(r) /\ Fruitless(r - 1))
            /\ ~(Fruitless(r) /\ steps[i].query = steps[RoundStep("search", r)].query)

\* A run that is over stays as it ended: status and shortlist never change again,
\* even when publishing its trace fails (_publish_trace_quietly).
TerminalIsFinal ==
    [][finished => status' = status /\ finalShortlist' = finalShortlist]_vars

\* The row keeps every promise of RunLifecycle.
Lifecycle == INSTANCE RunLifecycle
    WITH MinRounds <- EffectiveMinRounds, ledger <- steps, shortlist <- finalShortlist
ImplementsLifecycle == Lifecycle!Spec

\* The local host never hangs, and it takes two exceptions to leave a started run
\* unfinished: whatever the try block calls may raise, and so may the publication, and
\* the row still says completed or failed in the end.  Only a start that raises leaves
\* the run queued, and only a failure patch that raises after it leaves it running.
RunEnds ==
    <>(\/ pc = "closed" /\ finished
       \/ pc = "escaped" /\ status = "queued"
       \/ pc = "escaped" /\ status = "running" /\ raised # "none")

\* What the MVP plan (mvp-agent-minimum-loop-plan.md:122) rules out: past the minimum
\* round the loop repeats the strategy of the round before.
NoRepeatedStrategy ==
    \A i \in StepsOf("search") :
        LET r == steps[i].round - 1 IN
        r >= EffectiveMinRounds => steps[i].query # steps[RoundStep("search", r)].query
=============================================================================
