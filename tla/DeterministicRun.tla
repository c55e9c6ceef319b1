-------------------------- MODULE DeterministicRun --------------------------
(***************************************************************************)
(* A whole run of the local stack, from its queued row to the trace in its *)
(* row: the loop of AgentRunLoop with its offsets and pages from           *)
(* SearchPaging, its agents and its resume source from DeterministicAgents *)
(* and its publication from TraceReplay, while the blocking suite of the   *)
(* eval runner waits for the row to say that the run is over.              *)
(*                                                                         *)
(* Nothing is left to choose but the scenario, the order of what runs      *)
(* concurrently and the faults: a raising activity, a patch applied twice, *)
(* Langfuse failing or slow, prompts of other runs.                        *)
(***************************************************************************)
EXTENDS TraceReplay, DeterministicAgents, RoundLedger

CONSTANTS
    Texts,          \* what a run may be asked for: JD and sourcing preference
    Scenarios,      \* [text, catalogue, schedule, langfuse, faults]
    MaxResumes,     \* bound: resumes of a catalogue
    MaxRounds, AgentMinRounds, FinalTopK,
    NoStrategy

ASSUME TextsAssumption == \A text \in Texts : text.words \in Seq(ToSet(text.words))
ASSUME ScenariosAssumption ==
    \A s \in Scenarios :
        /\ s.text \in Texts
        /\ s.schedule \in Seq(Nat \ {0}) \ {<<>>}
        /\ s.catalogue \in Seq(ToSet(s.catalogue)) /\ Len(s.catalogue) <= MaxResumes
        /\ \A resume \in ToSet(s.catalogue) : resume.workYear \in Nat
ASSUME ConfigAssumption ==
    /\ MaxRounds \in 3..5 /\ AgentMinRounds \in 3..5
    /\ FinalTopK \in Nat \ {0} /\ MaxResumes \in Nat

VARIABLES
    seen, finished, traced,     \* the rest of the row
    pc, strategy, page, admitted, retained, noProgress, previousSignature,
    stopReason, raised,         \* the workflow
    offsets,                    \* its strategy_offsets
    scenario,                   \* what the run is given
    faultsLeft,                 \* bound: the kinds of fault still to come, each once
    suite                       \* what the blocking suite has read

\* The queries the reflector can make of the first one.
Rewrites(query) ==
    {[query EXCEPT !.should = SubSeq(@, 1, n),
                   !.filters = IF n = Len(query.should) THEN query.filters
                               ELSE DropWeakest(query).filters] : n \in 0..Len(query.should)}

Queries == UNION {Rewrites(FirstQuery(text)) : text \in Texts}

ASSUME StrategiesAssumption == NoStrategy \notin Queries

Loop == INSTANCE AgentRunLoop
    WITH Resumes <- 1..MaxResumes, Strategies <- Queries, RawScores <- 0..10000,
         ScoreCap <- 9900

Paging == INSTANCE SearchPaging
    WITH Strategies <- Queries, RawSchedules <- {s.schedule : s \in Scenarios},
         MaxTotal <- MaxResumes,
         schedule <- scenario.plan,
         total <- [q \in Queries |-> Len(Results(scenario.catalogue, q))],
         roundNo <- currentRound - 1,
         fetched <- [q \in Queries |-> {}], failed <- FALSE

\* What a reader of the row is promised, of this row as of any.
Lifecycle == INSTANCE RunLifecycle
    WITH MinRounds <- Loop!EffectiveMinRounds, ledger <- steps, shortlist <- finalShortlist

loopVars == <<status, currentRound, steps, seen, finalShortlist, errorCode, finished, traced,
              pc, strategy, page, admitted, retained, noProgress, previousSignature,
              stopReason, raised>>
aside == <<offsets, scenario, faultsLeft, suite>>
vars == <<loopVars, aside, publicationVars>>

-----------------------------------------------------------------------------
(* The loop. *)

Init ==
    /\ Loop!Init
    /\ PublicationInit
    /\ \E s \in Scenarios :
          /\ scenario = [text |-> s.text, catalogue |-> s.catalogue, langfuse |-> s.langfuse,
                         plan |-> Paging!Normalized(s.schedule)]
          /\ faultsLeft = s.faults
    /\ offsets = [q \in Queries |-> 0]
    /\ suite = {}

ExtractStrategy == strategy' = FirstQuery(scenario.text) /\ Loop!ExtractStrategy

\* The page of the mock source, and the offset behind it.
SearchReturns ==
    /\ pc = "search"
    /\ LET results == Results(scenario.catalogue, strategy)
       IN  page' = {results[position + 1] : position \in Paging!Returned(strategy)}
    /\ offsets' = Paging!Advance(strategy)
    /\ Loop!SearchReturns

Scores == [r \in admitted |-> MatchScore(scenario.catalogue[r], strategy)]

Reflect ==
    LET answer == Reflection(strategy, currentRound, MaxRounds, Cardinality(admitted))
    IN  Loop!ReflectWith(answer.continueSearch, answer.nextQuery)

LoopStep ==
    \/ SearchReturns /\ UNCHANGED <<scenario, faultsLeft, suite>>
    \/ /\ \/ Loop!MarkRunning \/ ExtractStrategy \/ Loop!BeginRound \/ Loop!Dedupe
          \/ Loop!AnalyseWith(Scores) \/ Loop!StopByRule \/ Reflect \/ Loop!RecordStop
          \/ Loop!Finalize \/ Loop!RecordFailure
       /\ UNCHANGED aside

Fault(kind) == kind \in faultsLeft /\ faultsLeft' = faultsLeft \ {kind}

ActivityRaises ==
    /\ Loop!ActivityRaises
    /\ Fault("activity raises")
    /\ UNCHANGED <<offsets, scenario, suite>>

\* The steps of the last patch, where it had any and the workflow has gone no further.
LastPatch ==
    CASE pc = "judge" -> SubSeq(steps, Len(steps) - 1, Len(steps))
      [] pc \in {"begin", "dedupe", "analyse", "stop", "finalize"}
         \/ (pc = "publish" /\ status = "completed") -> <<Last(steps)>>
      [] OTHER -> <<>>

\* Mutant: a patch counts the round up, so that a second time it counts once more.
PatchCountsRound ==
    /\ LastPatch # <<>>
    /\ \A a \in Attempts : publication[a].phase = "idle"
    /\ steps' = steps \o LastPatch
    /\ currentRound' = currentRound + 1
    /\ Fault("patch repeated")
    /\ UNCHANGED <<status, seen, finalShortlist, errorCode, finished, traced,
                   pc, strategy, page, admitted, retained, noProgress, previousSignature,
                   stopReason, raised, offsets, scenario, suite>>

\* The answer of persist_run_patch was lost after its commit: it is applied once more.
PatchRepeated ==
    /\ LastPatch # <<>>
    /\ \A a \in Attempts : publication[a].phase = "idle"
    /\ steps' = steps \o LastPatch
    /\ Fault("patch repeated")
    /\ UNCHANGED <<status, currentRound, seen, finalShortlist, errorCode, finished, traced,
                   pc, strategy, page, admitted, retained, noProgress, previousSignature,
                   stopReason, raised, offsets, scenario, suite>>

-----------------------------------------------------------------------------
(* The publication. *)

Started(a) == publication[a].phase # "idle"
Latest(a) == Started(a) /\ \A b \in Attempts : Started(b) => b <= a

\* The activity is executed when the run is over and again when an attempt has raised.
Due(a) ==
    /\ pc = "publish"
    /\ \/ \A b \in Attempts : ~Started(b) /\ a <= b
       \/ a - 1 \in Attempts /\ Latest(a - 1) /\ publication[a - 1].phase = "raised"

BeginAttempt(a) ==
    \/ ~scenario.langfuse /\ Due(a) /\ PublishWithoutClient(a) /\ UNCHANGED faultsLeft
    \/ scenario.langfuse /\ Due(a) /\ Begin(a, TRUE) /\ UNCHANGED faultsLeft
    \/ scenario.langfuse /\ Due(a) /\ Begin(a, FALSE) /\ Fault("no address")

\* The last attempt is in its 46th second: Temporal starts another, and it goes on.
AttemptTimesOut(a) ==
    /\ a - 1 \in Attempts /\ Latest(a - 1)
    /\ publication[a - 1].phase \in {"replaying", "creating"}
    /\ pc = "publish" /\ Begin(a, TRUE)
    /\ Fault("slow")

PublicationStep ==
    \E a \in Attempts :
        \/ BeginAttempt(a) \/ AttemptTimesOut(a)
        \/ (HandOver(a) \/ GetPrompt(a, TRUE) \/ CreatePrompt(a) \/ SaveTrace(a))
           /\ UNCHANGED faultsLeft
        \/ GetPrompt(a, FALSE) /\ Fault("get raises")
        \/ (CreateRaises(a) \/ CreateEscapes(a)) /\ Fault("create raises")
        \/ ReplayRaises(a) /\ Fault("replay raises")

\* Only while an attempt is under way: an earlier version could only be looked up then.
OtherRuns ==
    /\ \E a \in Attempts : publication[a].phase \in {"replaying", "creating"}
    /\ \E name \in PromptNames : OtherRunCreates(name)
    /\ Fault("other run")

\* The workflow hears of the last attempt only.
PublishTrace ==
    /\ \E a \in Attempts : Latest(a) /\ publication[a].phase = "done"
    /\ Loop!PublishTrace

\* wait_for_agent_run: one answer of the API with a terminal status is all the suite looks
\* at, whenever it comes.
SuiteReads ==
    /\ suite = {}
    /\ status \in {"completed", "failed"}
    /\ suite' = {[status |-> status,
                  shortlistCount |-> Cardinality(finalShortlist),
                  strategyRecorded |-> \E i \in DOMAIN steps : steps[i].type = "strategy",
                  finalizeRecorded |-> \E i \in DOMAIN steps : steps[i].type = "finalize",
                  traceAvailable |-> trace.url]}

Over == pc = "closed" /\ UNCHANGED vars

Next ==
    \/ (LoopStep \/ ActivityRaises \/ PatchRepeated) /\ UNCHANGED publicationVars
    \/ (PublicationStep \/ OtherRuns)
       /\ UNCHANGED <<loopVars, offsets, scenario, suite>>
    \/ PublishTrace /\ UNCHANGED <<aside, publicationVars>>
    \/ SuiteReads
       /\ UNCHANGED <<loopVars, publicationVars, offsets, scenario, faultsLeft>>
    \/ Over

Spec == Init /\ [][Next]_vars

-----------------------------------------------------------------------------
(* Properties. *)

\* Every variable has its type.  Of substance: whatever the reflector makes of the
\* extracted query is that query with a shorter list of should terms.
TypeOK ==
    /\ Loop!TypeOK
    /\ offsets \in [Queries -> 0..(MaxRounds * MaxResumes)]
    /\ registry \in [PromptNames -> Seq(Text)]
    /\ \A a \in Attempts :
          /\ publication[a].phase \in {"idle", "replaying", "creating", "raised", "done"}
          /\ publication[a].sent \in 0..Len(publication[a].plan)
    /\ trace \in [id : BOOLEAN, url : BOOLEAN]

\* Stopping early loses nothing: when sizes are aligned, a round that admitted no resume
\* is followed only by such rounds, for with the mock's any-term search the query the
\* reflector "widens" finds a part of what the last one found (_deterministic_reflection_
\* output, MockResumeSourceAdapter.search_candidates).
FruitlessIsFinal ==
    Paging!Aligned =>
        \A i, j \in DOMAIN steps :
            i < j /\ steps[i].type = "analysis" /\ steps[j].type = "analysis" =>
                (steps[i].entries = {} => steps[j].entries = {})

\* A published tree is the ledger: every step of a round is shown once, under its round
\* and in the ledger's order, the strategy and the end of the run once at the root though
\* a patch may have been applied twice, and every analysed resume once under its analysis
\* (_replay_trace).
TreeMirrorsLedger ==
    \A a \in Attempts :
        scenario.langfuse /\ publication[a].phase = "done" =>
            LET plan == publication[a].plan
                Under(path) == {k \in 1..publication[a].sent : plan[k].under = path}
                OfRounds == {k \in 1..publication[a].sent : Len(plan[k].under) = 1}
                AtRoot(type) == {k \in Under(<<>>) : /\ plan[k].name # "round"
                                                     /\ steps[plan[k].of].type = type}
            IN  /\ \A i \in DOMAIN steps : steps[i].round > 0 =>
                      Cardinality({k \in Under(<<steps[i].round>>) : plan[k].of = i}) = 1
                /\ \A k, l \in OfRounds : k < l => plan[k].of < plan[l].of
                /\ \A type \in {"strategy", "finalize"} :
                      Cardinality(AtRoot(type)) =
                          IF \E i \in DOMAIN steps : steps[i].type = type THEN 1 ELSE 0
                /\ \A i \in DOMAIN steps :
                      LET children == Under(<<steps[i].round, i>>)
                      IN  /\ {plan[k].of : k \in children} = Loop!IdsOf(
                                  IF steps[i].type = "analysis" THEN steps[i].entries ELSE {})
                          /\ Cardinality(children) = Cardinality({plan[k].of : k \in children})

\* A trace that the row names is whole: the attempt that named it had handed over every
\* observation, and says of the run what the row says, which no later patch changes
\* (publish_langfuse_trace_impl saves the row only after the replay).  And the workflow
\* closes on such a trace only: an attempt that raises is followed by another, so that
\* the warning step of _publish_trace_quietly is never written under Temporal.
RowTraceIsComplete ==
    /\ trace.id => \E a \in Attempts :
                      /\ publication[a].phase = "done" /\ AllSent(a)
                      /\ publication[a].root = RootFacts
    /\ pc = "closed" /\ scenario.langfuse => trace.id

\* Whenever the suite's one look at the row comes, it sees the outcome the run has in the
\* end, and of a completed run its first and its last step: they are committed in the
\* patch that makes the status terminal.  The trace is not part of that patch.
SuiteReadsOutcome ==
    \A read \in suite :
        /\ read.status = status /\ read.shortlistCount = Cardinality(finalShortlist)
        /\ status = "completed" => read.strategyRecorded /\ read.finalizeRecorded

\* The terms and filters of a query, and what a query and a delta say of the next one.
Content(query) ==
    [must |-> ToSet(query.must), should |-> ToSet(query.should), filters |-> query.filters]
Changed(query, delta) ==
    [must |-> (ToSet(query.must) \ delta.removedMustTerms) \cup delta.addedMustTerms,
     should |-> (ToSet(query.should) \ delta.removedShouldTerms) \cup delta.addedShouldTerms,
     filters |-> (query.filters \ delta.removedStructuredFilterKeys)
                 \cup (delta.changedStructuredFilters \ query.filters)]

\* The reflector is told the run as it was, whatever compaction dropped and repeated
\* patches have doubled: every round so far with one entry of each kind, this round's
\* query and shortlist as they are, each query as what the delta told before it makes of
\* the last one, and each resume seen with one analysis, in one round
\* (build_search_reflection_prompt, build_compact_round_ledger).
ReflectorSeesRun ==
    pc = "judge" /\ ~Loop!ShouldStopAfterRound =>
        LET told == BuildCompactRoundLedger(CompactForWorkflow(steps))
            Kinds(round) == {"search", "dedupe", "analysis", "shortlist"}
                            \cup (IF round < currentRound THEN {"reflection"} ELSE {})
            Analysed(round) == Loop!IdsOf(told[round]["analysis"].analyses)
        IN  /\ DOMAIN told = 1..currentRound
            /\ \A r \in 1..currentRound : DOMAIN told[r] = Kinds(r)
            /\ told[currentRound]["search"].roundQuery = strategy
            /\ told[currentRound]["shortlist"].retainedCandidates = finalShortlist
            /\ \A r \in 1..(currentRound - 1) :
                  Content(told[r + 1]["search"].roundQuery)
                  = Changed(told[r]["search"].roundQuery, told[r]["reflection"].queryDelta)
            /\ seen = UNION {Analysed(r) : r \in 1..currentRound}
            /\ \A r, s \in 1..currentRound : r # s => Analysed(r) \cap Analysed(s) = {}

\* The row keeps every promise of RunLifecycle also when the source, the agents and the
\* publication are the local stack's and a patch may be applied twice: the copies
\* extend the ledger, the round is counted once, and a completed run has its minimum.
ImplementsLifecycle == Lifecycle!Spec
=============================================================================
