# A TLA+ model of cvm-demo

cvm-demo searches candidates for a job description. A recruiter types a JD and
a preference into one page and starts an *agent run*; a Temporal workflow
extracts a search strategy, searches the CTS resume source round after round,
lets agents score what is new and decide how to go on, and leaves a shortlist
in a PostgreSQL row that the page polls. Around the runs stand cases, JD
versions, candidates with verdicts, and exports.

The modules in this directory model the parts in which something can go wrong
that a test would hardly reach. TLC checks them on small instances; TLAPS proves
every safety property of the passing runs, of the agent run, its paging and its trace, of the
page, of the services around them and of the whole local stack, for every instance.
All paths below are relative to the repository.

- [1. The system](#1-the-system)
- [2. Modules and code](#2-modules-and-code)
- [3. Runs](#3-runs)
- [4. Proofs](#4-proofs)
- [5. Where code and documents disagree](#5-where-code-and-documents-disagree)
- [6. What is not modelled](#6-what-is-not-modelled)
- [7. Plan](#7-plan)

## 1. The system

`WK` is `services/temporal-worker/src/cvm_worker`, `PA` is
`services/platform-api/src/cvm_platform`, `WU` is `apps/web-user/src/app`.

| Component | Code | State | Operations | Talks to |
|---|---|---|---|---|
| Agent run loop | `WK/execution.py` | `_ExecutionState`: last snapshot of the row, retained candidates, offsets, no-progress counter, shortlist signature, stop reason | one activity call after another: patch, search, persist, match, rank, reflect, finalize, publish | activities, agents |
| Run row persistence | `WK/activities.py`, `PA/infrastructure/sqlalchemy_uow.py`, `models.py` | table `agent_run` | read, change a copy, compare, commit | everybody who writes the row |
| Candidate upserts | `WK/activities.py:165-338` | tables `case_candidate`, `resume_snapshot`, `resume_analysis_job` | find by identity or hash, insert or overwrite, answer with the ids | the services, the run's ledger |
| Creation and dispatch | `PA/application/agent_runs.py`, `PA/api/routes.py` | the `queued` row, its case and first version | `create_run`, `start_workflow`, `fail_dispatch` | Temporal, the row |
| Search paging, resume sources | `WK/execution.py:1118`, `PA/infrastructure/adapters.py` | `strategy_offsets` | page number from offset and size; a slice of the source's list | CTS or the mock |
| Trace replay and export | `WK/activities.py:132`, `WK/activities.py:474`, `PA/infrastructure/agent_tracing.py` | Langfuse observations, prompt registry and cache, `langfuse_trace_*` columns | replay the ledger, resolve prompts, write id and URL | Langfuse, the row |
| Temporal agents | `WK/agents.py`, `WK/models.py` | none | extract, match, reflect: an LLM with three attempts, or fixed functions | LLM |
| Workflow and worker | `WK/workflows.py`, `WK/main.py` | Temporal's history, 8 threads | at-least-once activities | Temporal |
| Cases, versions, verdicts, exports | `PA/application/service.py` | `jd_case`, `jd_version`, `case_candidate`, `verdict_history`, `export_job`, files | `create_case`, `create_jd_version`, `save_verdict`, `create_export` | the database, the disk |
| Ops summary, eval runs, diagnostics | `PA/application/service.py:231`, `temporal_diagnostics.py` | none | reads, one insert | the database, Temporal |
| Shortlist page | `WU/features/shortlist/shortlist.page.ts` | run id and status, timer, flags, shortlist, resume cache | start, poll, expand, retry, leave | the API |
| Eval runner | `services/eval-runner/src/cvm_eval_runner/cli.py` | the result of a suite | start a run, poll, judge | the API |
| Ops page, testkit, settings, generated clients, tools | see `PROJECT.json` | | | |

What is hard about it, and what makes each part correct:

- **Agent run loop.** Every call may raise, every agent may answer anything its
  schema admits. The ledger of steps must read as a protocol on every path; a
  resume must be analysed once; a shortlist that is ranked round by round must be
  the best of all rounds; the stop rules, counted in memory, must be true of what
  the ledger says; no exception but that of a patch may leave the row without an
  outcome; a run that is over must stay as it is, also when publishing its
  trace fails.
- **Run row.** A write is a copy of the row that is changed, compared with a second
  read and committed, without version or lock. Temporal repeats an attempt that
  died or was too slow, and the slow one goes on in its thread. A failed dispatch
  may in truth have succeeded. Repeated writes must not lose steps or let a
  resume in twice, and the row must settle in a terminal status.
- **Paging.** Offsets count what was returned, pages have the size of the round. Where
  the sizes divide one another, a fruitless round must mean that there is nothing more.
- **Local profile.** Without a live model the agents are functions and the source a
  mock. A reflector that "widens" a query by dropping terms, before a source that
  finds any one term, had better not stop a run too early.
- **Trace.** The ledger may hold copies of steps; attempts raise, are slow, overlap,
  and share a registry of prompts with the publications of other runs. A link must
  name the text the agent was given, and the row must name only a whole trace.
- **Services.** Request threads share nothing but the database (READ COMMITTED).
  Versions, verdicts and exports are each several statements; the worker upserts
  the candidates verdicts are given on, attempt over attempt; a run brings its own case.
- **Page.** Answers and timers arrive in any order and starting again cancels
  nothing. The page must not stop listening to a pending run, wait for an answer
  that will not come, or poll for ever.

`PROJECT.json` lists these hazards one by one, at the line where each bites, with
the properties that cover it.

## 2. Modules and code

```
RunLifecycle  <-- implemented by --  AgentRunLoop      (one run, exact writes)
      ^---------- implemented by --  RunRecord         (its row, at-least-once writes)
      ^---------- implemented by --  DeterministicRun  (the local stack, patches repeated)

DeterministicRun --+-- AgentRunLoop         the loop
   (composition)   +-- SearchPaging         its offsets and pages
                   +-- DeterministicAgents  its agents and its source, as functions
                   +-- TraceReplay          its publication
                   +-- RoundLedger          what its reflector is told
Enumeration -- extended by -- DeterministicAgents, TraceReplay: sorted(...) and filters

CaseIntake -- extends -- CaseRecords        where case and candidate come from;
                                            versions, verdicts, exports
ShortlistPage                               the page, seeing a run's status through polls

XProofs                                     the theorems about X; those about CaseIntake are in
                                            CaseRecordsProofs, those about TraceReplay in
                                            DeterministicRunProofs, those about the data of the
                                            stack in DeterministicRunDataProofs
EnumerationProofs                           lemmas about sequences, enumerations and pages that
                                            the proofs about paging and about the stack share
```

**`RunLifecycle`** is the abstract specification: what a reader of the row is
promised whoever drives the run. Status goes queued, running, completed or failed;
the round counter goes up by one to at most `maxRounds`; a completed run has reached
the minimum round; the ledger only grows; the shortlist is final when the run is;
afterwards only the trace, or a warning that there is none, is added.

**`AgentRunLoop`** is `_execute_agent_run`. One action is one activity call
(`execution.py:539-1091`) with the local code up to the next call, so an exception
between two calls is `ActivityRaises`, which is enabled at every call of the `try`
block. The function has two hosts: the Temporal workflow, and `run_agent_run_locally`,
which calls the same things directly. The module is the second, where nothing is retried:
the start patch, outside the `try` block, and the failure patch, in its handler, may raise
and end the function (`StartRaises`, `FailureUnrecorded`). Under Temporal a patch that
raises is tried again, which is `RunRecord`'s and `DeterministicRun`'s matter. Row columns and `_ExecutionState` fields keep their names. Data are
abstracted so: a resume is a number (the tie-break compares ids), a strategy is its
signature, a score is what `_analyze_round_candidates` makes of the agent's
number, a page is any set of resumes. The shortlist is a set of (id, score, round),
because its order is a function of those (`_rank_candidates`). A step keeps its
number, round and type, and the parts of its payload the properties read.

**`RunRecord`** is the row with everyone who writes it: `persist_agent_run_patch`,
`publish_langfuse_trace` and `fail_dispatch`. Each writer goes through
`ReadRow` (`to_record` and the changes), `SaveRecord` (`_save_record` reads again
and SQLAlchemy marks the columns that differ) and `Commit` (only those columns). The
workflow is `AgentRunLoop`'s, with three patches to a round: the round counter and the
dedupe step, which later decisions read, and the ranking's, which appends two steps at
once (`execution.py:844-850`). The search and reflection steps, single ones with nothing to
decide on, are left out. An exception of the `try` block, wherever in the round, leads to the
failure patch (`TryRaises`). `Faults` says what
may go wrong: crashes and lost answers, slow attempts to publish, slow attempts to
patch, a failing dispatch.

**`SearchPaging`** has the schedule as `normalize_agent_run_config` makes it,
`strategy_offsets`, `_build_search_request` and the slice the source returns. A
resume is its position in the source's list for a strategy. CTS is outside the
repository; it is taken to page a fixed list as `MockResumeSourceAdapter` does.

**`Enumeration`** says what `sorted(...)` and `[x for x in xs if ...]` yield, each place
by what comes before it: the k-th number of a set has k - 1 below it. Nothing is computed
element by element, so that the proofs can speak of any set and any sequence.

**`DeterministicAgents`** has no state: the extractor, the matcher and the reflector
`agents.py` uses without a live model, and the search of `MockResumeSourceAdapter`, as
functions of what they look for in a text: its high-signal terms, its words, the
filters its wording gives ground for. A query keeps its must and should terms and the
keys of its filters.

**`TraceReplay`** is `publish_langfuse_trace` and the tracer behind it. `Replay` is the
tree `_replay_trace` makes of any ledger, as a sequence of observations with the
path of their parent. An attempt hands them over one by one; `GetPrompt`,
`CreatePrompt` and `CreateRaises` are `_resolve_prompt` with its cache. An exception
outside the classes it catches, such as one of the transport, ends the attempt
(`CreateEscapes`, or `ReplayRaises` at a look-up). Langfuse is
external: a registry of versions, the label on the last, and a sink.

**`RoundLedger`** has no state either: what becomes of the row's ledger on its way into the
reflector's prompt. `CompactForWorkflow` keeps the keys of a payload that
`compact_for_workflow` lists for the step's type, `BuildQueryDelta` is the difference of
two queries, and `BuildCompactRoundLedger` makes of the remembered steps one entry of each
kind per round, a later copy of a step taking the place of an earlier. The entry of the
extraction, which has no round, is left out.

**`DeterministicRun`** composes these into a whole run of the local stack and lets
the blocking suite of the eval runner look on. `AgentRunLoop`'s `AnalyseWith` and
`ReflectWith` are what its `Analyse` and `Reflect` choose freely; here the functions
choose. `RoundLedger` says what the reflector could know; the fixed reflector reads of it
only the current query and how many resumes were new. The columns `TraceReplay` only reads are those the loop writes. `PatchRepeated`
applies the last patch once more, so the row is a row of `RunLifecycle` only because a
patch sets its columns and does not count them up. Its host is Temporal, which does not
give up a patch: `StartRaises` and `FailureUnrecorded` of the loop are no steps of it.

**`ShortlistPage`** is the Angular component; each method is an operator on the page
record and each callback (click, timer, answer, failure) an action. Requests are in
flight until answered or failed, and an answer carries the status at the time it
was served. The API and the worker appear only as the status of each run.

**`CaseRecords`** is `create_jd_version`, `save_verdict` (of one candidate) and
`create_export`. A thread is one transaction per request, `create_export` two.
A statement sees what was committed when it began; an UPDATE waits for a
transaction that has updated one of its rows, as PostgreSQL does. `Abort` ends
a request anywhere. The case's `status` and `updated_at`, which `create_jd_version` sets in
the same transaction (`service.py:86-88`), are left out: every version writes the same
status, and no request reads them. `overlapped` records which kinds of request have ever run two
at a time: some promises hold only while they do not.

**`CaseIntake`** adds what `CaseRecords` starts from: `create_case`, `create_run` with its
idempotency key and the implicit case it makes in the same transaction, the worker's
`persist_candidate_snapshots` (find, find, compare, commit against the unique
constraints) and `persist_resume_analyses`. An attempt writes back the candidate row
it read, the latest verdict included.

The `map` of `PROJECT.json` gives the lines of every definition. Operators marked
*Mutant* in the modules are plausible bugs: each property is shown to be violated
when one of them takes the place of the definition it follows.

## 3. Runs

| Run | What it checks | Distinct states |
|---|---|---|
| `agentrun_safety` | one run: types, `AnalysedOnce`, `ShortlistIsTopOfAll`, `LedgerIsAProtocol`, `StopIsJustified`, `NoRoundAfterStopCondition`, `ImplementsLifecycle`, `RunEnds` | 663,447 |
| `agentrun_strategies` | violates `NoRepeatedStrategy` | |
| `record_retries` | the row under crashes, lost answers and slow publishing: types, `PatchesRepeatWhole`, `AdmittedOnce`, `SnapshotIsCurrent`, `ImplementsLifecycle` | 496,136 |
| `record_dispatch` | `RunSettles` when the start of the workflow fails, or only seems to | 529,433 |
| `record_ledger` | violates `LedgerAppendOnly`: a patch attempt that outlives its timeout | |
| `record_cts` | violates `StartedRunEnds`: searches that raise for ever | |
| `paging_schedules` | types, `PagesAreContiguous`, `SearchesAdvance` | 221,162 |
| `page_polling` | the page: types, `NeverDeaf`, `LoadingHasRequest`, `StartingEnds`, `PollingStops`, `OutcomeIsShown` | 8,973 |
| `page_runs` | violates `ShortlistOfCurrentRun` | |
| `deterministic_run` | the local stack: types, `FruitlessIsFinal`, `LinkedPromptIsOwn`, `TreeMirrorsLedger`, `RowTraceIsComplete`, `SuiteReadsOutcome`, `ReflectorSeesRun`, `ImplementsLifecycle` | 212,769 |
| `case_requests` | types, `NewestVersionIsActive`, `VersionsInOrder`, `LatestVerdictInHistory`, `LatestVerdictIsNewest`, `ExportedOnce`, `CompletedExportIsTrue`, `OneRunPerKey`, `ShownCandidateHasDetail` | 1,298,117 |
| `case_versions` | violates `OneActiveVersion` | |

What the passing runs show, beyond their names:

- The ranking throws resumes away each round and still ends with the best of all:
  what the shortlist needs is that a resume is analysed at most once, which dedupe
  sees to. The stop reasons are checked against the ledger, not against the counters
  they were computed from.
- At-least-once patches do leave copies of a step in the ledger, and those of the
  ranking's two steps take turns: analysis, shortlist, analysis, shortlist. What holds
  is that patches are repeated whole and right behind the first time
  (`PatchesRepeatWhole`), that copies carry the number of the first, that no resume is admitted
  in two rounds, and that the workflow always decides on the row as it is. This rests
  on one thing: that nobody but the attempt Temporal waits for writes the row's ledger.
  `record_ledger` shows what happens otherwise.
- Overlapping requests for a version keep the version committed last active, so a
  case never loses its active version, but two may be active (`case_versions`).
  Overlapping verdicts keep the latest verdict inside the history, but it may not be
  the newest entry; `LatestVerdictIsNewest` therefore speaks of requests that come
  one at a time.
- The worker's upsert of a candidate writes back the verdict it read. While attempts
  come one at a time this is harmless: the column is written only if it differs from
  a second read, and whoever wrote in between stands in the history. An attempt that
  outlives its timeout may undo a verdict; both properties of verdicts say so in
  their premise. What the run shows stays in any case: the ids it was answered are
  those of the attempt that met the unique constraints first.
- A case and its first version exist exactly when their run does, however requests with
  one key race: they share its transaction.
- Under sizes that divide one another a search that brings nothing new has read the list
  to its end. Under others it has not always: with sizes 2, 3, 4, 4 and five results the
  fourth page is the third one again and position 3 is never read. What is then true is only that the
  offset, which counts what was returned, is at or behind the end (`SearchesAdvance`).
- Executed locally, a run ends whatever raises, and with an outcome in the row unless
  the start patch raises (it stays queued) or the failure patch does (it stays
  running): `RunEnds`. Nothing finds such a row again.
- Dropping terms narrows the mock's search, so under aligned sizes nothing new can
  come after a fruitless round: stopping there loses nothing (`FruitlessIsFinal`).
- A trace is made from the ledger alone, so copies of a step show under their round as
  often as the ledger has them, and once at the root. As an attempt saves the row only
  after the last observation, the row never names half a trace; and as the activity is
  retried without limit, the warning step of `_publish_trace_quietly` is never written.
- Two attempts that overlap share the trace, whose id is a function of the run's, so it
  then holds two trees, and the slower may overwrite the row's address with none.
- The suite looks at a terminal run once. Status, shortlist, first and last step come
  with the patch that made it terminal (`SuiteReadsOutcome`); the trace's address does
  not, so with Langfuse configured `cli.py:75` may fail a good run, as the model does
  in either order.
- The reflector is told the run as it was (`ReflectorSeesRun`), though the workflow
  remembers the ledger compacted and possibly with copies: each round with one entry of
  each kind, the queries by their deltas, and every resume seen in one round's analysis.
  A delta that left out what goes would tell of a query that was never searched.
- The unique key of `export_job`, met at commit, is what keeps a retried export from
  writing a second file. A request that dies after its first commit leaves a job
  running for ever; nothing in the code picks it up and no document promises it.

### Bounds, and why they are enough

- `AgentRunLoop`: three resumes against a shortlist of two make a resume drop out
  for good; two raw scores, one above the cap, make ties, order and clamping; two
  strategies are "the same" and "another"; four rounds leave one round after the
  minimum of three, where every stop rule may apply. Constants are as the platform
  accepts them: `MaxRounds` and the worker's minimum in 3..5.
- `RunRecord`: two retried attempts in one run let a retry be retried; a third round
  is the minimum a run can have and a fourth lets it choose. Only two resumes matter:
  one returned again and one new. `MaxRetries` bounds faults, not writes.
- `SearchPaging`: all schedules of one to three sizes from 1 to 4, extended to four
  rounds, over two lists of zero to nine: sizes that divide one another and that
  do not, lists that end before, at and behind a page.
- `ShortlistPage`: two starts put a poll of the first run anywhere into the life of
  the second. With three starts the same properties hold too (760,875 states), so
  the shipped bound is two. Two resume requests per candidate let one answer
  what another asked. `CHECK_DEADLOCK FALSE`: a user may do nothing more.
- `DeterministicRun`: every catalogue of three resumes over three terms under one
  aligned and two unaligned schedules and two texts, without faults; two catalogues
  with up to three kinds of fault, each once, and three attempts, so that a retry may
  overlap two others. A third term is what the reflector can drop twice; a text of
  words has a query with nothing to drop. A resume's years and education make the
  scores differ.
- `CaseRecords` and `CaseIntake`: `Mixes` says which threads come together: three
  requests for a version, as the number of the third shows what two left behind; two
  to create a run and two for a version of its case; a run, three attempts to
  persist its candidate, two verdicts and an export; three verdicts and two exports.
  Kinds in different mixes touch no common row. No symmetry is used.
  `CHECK_DEADLOCK FALSE`: all requests may be done.

### Fairness

- `AgentRunLoop` assumes `WF_vars(Next)` of the local host: it calls one thing after the
  other, and every call answers or raises, as those that leave the process have a
  timeout (20 seconds for CTS, `config.py:60`; 30 for an agent, `config.py:47`). Which
  outcome happens is not assumed; the database is taken to answer or fail. Under Temporal the assumption would be false: patches,
  searches and the publication have no retry limit (`execution.py:410-446`), so a
  call that always raises never ends. There a run need not end, as `record_cts` shows.
- `RunRecord` assumes that threads run on, that Temporal dispatches what is
  scheduled and delivers what is answered, and that CTS answers unless it is down
  for good. No fault has to happen. `RunSettles` leaves out a request thread that
  dies before `start_workflow`: the run then stays queued, and the code has
  nothing that would find it.
- `DeterministicRun` and `CaseIntake` assume none and state no liveness: that a run ends
  is `AgentRunLoop`'s, and a request may die anywhere.
- `ShortlistPage` assumes that the API answers and the browser delivers answers and
  fires timers. Neither the user nor the worker has to do anything. A request may
  fail, but need not.

## 4. Proofs

TLAPS proves the following for every value of the constants that satisfies the
named assumptions.

| Theorem | Says | Module |
|---|---|---|
| `TypeCorrect` | `Spec => []TypeOK` | `AgentRunLoopProofs` |
| `AnalysedOnceAlways` | `Spec => []AnalysedOnce` | `AgentRunLoopProofs` |
| `ShortlistAlwaysTop` | `Spec => []ShortlistIsTopOfAll` | `AgentRunLoopProofs` |
| `LedgerAlwaysAProtocol` | `Spec => []LedgerIsAProtocol` | `AgentRunLoopProofs` |
| `StopAlwaysJustified` | `Spec => []StopIsJustified` | `AgentRunLoopProofs` |
| `NeverPastStop` | `Spec => []NoRoundAfterStopCondition` | `AgentRunLoopProofs` |
| `FinishedIsFinal` | `Spec => TerminalIsFinal` | `AgentRunLoopProofs` |
| `LoopImplementsLifecycle` | `Spec => ImplementsLifecycle` | `AgentRunLoopProofs` |
| `RowTypeCorrect` | `Spec => []TypeOK` | `RunRecordProofs` |
| `SnapshotAlwaysCurrent` | `Calm /\ Spec => []SnapshotIsCurrent` | `RunRecordProofs` |
| `PatchesAlwaysRepeatWhole` | `Calm /\ Spec => []PatchesRepeatWhole` | `RunRecordProofs` |
| `AdmittedAlwaysOnce` | `Calm /\ Spec => []AdmittedOnce` | `RunRecordProofs` |
| `RowImplementsLifecycle` | `Calm /\ Spec => ImplementsLifecycle` | `RunRecordProofs` |
| `PagingTypeCorrect` | `Spec => []TypeOK` | `SearchPagingProofs` |
| `PagesAlwaysContiguous` | `Spec => []PagesAreContiguous` | `SearchPagingProofs` |
| `SearchesAlwaysAdvance` | `Spec => SearchesAdvance` | `SearchPagingProofs` |
| `PageTypeCorrect` | `Spec => []TypeOK` | `ShortlistPageProofs` |
| `PageNeverDeaf` | `Spec => []NeverDeaf` | `ShortlistPageProofs` |
| `LoadingAlwaysHasRequest` | `Spec => []LoadingHasRequest` | `ShortlistPageProofs` |
| `PollsNeverPileUp` | `Spec => []OnePerStart` | `ShortlistPageProofs` |
| `LinkedAlwaysOwn` | `PublicationSpec => []LinkedPromptIsOwn` | `DeterministicRunProofs` |
| `LinkedOwnInTheStack` | `Spec => []LinkedPromptIsOwn` | `DeterministicRunProofs` |
| `SuiteAlwaysReadsOutcome` | `Spec => []SuiteReadsOutcome` | `DeterministicRunProofs` |
| `RowTraceAlwaysComplete` | `Spec => []RowTraceIsComplete` | `DeterministicRunProofs` |
| `StackImplementsLifecycle` | `Spec => ImplementsLifecycle` | `DeterministicRunProofs` |
| `ReflectorAlwaysSeesRun` | `Spec => []ReflectorSeesRun` | `DeterministicRunProofs` |
| `StackAlwaysTyped` | `Spec => []TypeOK` | `DeterministicRunDataProofs` |
| `TreeAlwaysMirrorsLedger` | `Spec => []TreeMirrorsLedger` | `DeterministicRunDataProofs` |
| `FruitlessAlwaysFinal` | `Spec => []FruitlessIsFinal` | `DeterministicRunDataProofs` |
| `OneRunAlways` | `Spec => []OneRunPerKey` | `CaseRecordsProofs` |
| `NewestAlwaysActive` | `Spec => []NewestVersionIsActive` | `CaseRecordsProofs` |
| `DetailAlwaysThere` | `Spec => []ShownCandidateHasDetail` | `CaseRecordsProofs` |
| `RecordsTypeCorrect` | `Spec => []TypeOK` | `CaseRecordsProofs` |
| `VersionsAlwaysInOrder` | `Spec => []VersionsInOrder` | `CaseRecordsProofs` |
| `VerdictAlwaysInHistory` | `Spec => []LatestVerdictInHistory` | `CaseRecordsProofs` |
| `VerdictAlwaysNewest` | `Spec => []LatestVerdictIsNewest` | `CaseRecordsProofs` |
| `ExportAlwaysOnce` | `Spec => []ExportedOnce` | `CaseRecordsProofs` |
| `ExportAlwaysTrue` | `Spec => []CompletedExportIsTrue` | `CaseRecordsProofs` |

The theorems of `CaseRecordsProofs` are about the specification of `CaseIntake`, which
has every request there is. `StackImplementsLifecycle` needs no reason the source, the
agents or the schedule give: it holds for all scenarios. So do `StackAlwaysTyped` and
`TreeAlwaysMirrorsLedger`; `FruitlessIsFinal` has its condition on the schedule within it.

All invariants and action properties that the passing runs check are theorems. What the
runs have of their own is liveness, and that the properties can be violated.

**Assumptions.** `Resumes` is a finite set of integers, `NoStrategy` is no strategy,
raw scores are integers and the cap is a natural number, `MaxRounds` and
`AgentMinRounds` lie in 3..5, `FinalTopK` is positive. For paging: `RawSchedules` is
a set of nonempty sequences of positive numbers, as `normalize_agent_run_config` and
`_parse_round_fetch_schedule` enforce. For traces, attempts are numbered
(`AttemptsAssumption`); the local stack has its configuration in the same range
(`ConfigAssumption`), its texts and catalogues are sequences, its catalogues no longer than
`MaxResumes`, the years in a resume natural numbers and its schedules those of paging
(`TextsAssumption`, `ScenariosAssumption`), `HIGH_SIGNAL_TERMS` is a list
(`TermsAssumption`), and the absence of a strategy is no query (`StrategiesAssumption`);
for the page, the bounds are positive (`BoundsAssumption`); for the services,
`RequestsAssumption` and `IntakeAssumption` keep finitely many threads of different
requests apart. `Calm` is a formula over the constant `Faults`, not an assumption of the
module: no attempt to patch the row exceeds its 30 seconds, and the
dispatch gets its answer. Crashes, lost answers and slow attempts to publish remain,
in any number. Neither half of `Calm` can be spared: with slow patches alone, and with
crashes and a lost dispatch answer alone, TLC violates each of the four properties
already in a run of three rounds with one retry (`record_ledger` is the simplest case).

**Types.** `TypeOK` is not inductive: that `finished` agrees with `status` needs to
know that only a running run is completed or failed. `Phase` relates the control
point to the status, and says that a run whose host gave up is queued or running;
`TypeOK /\ Phase` is inductive. In `RunRecord` the patch an attempt
has been given must be one that keeps a row a row, slots not yet used must be idle,
and the round counter is 0 until the strategy is there (`TypeInv`).

**Ranking.** `RankInv` strengthens both `AnalysedOnce` and `ShortlistIsTopOfAll`:
the retained candidates are the row's shortlist; the ids in the ledger's analyses
are seen; what dedupe admitted is not among them, and the analyses have one entry
per resume. The heart is the lemma `TopOfMerge`: the top `k` of (the top `k` of a
set, united with new entries) is the top `k` of the set united with the new
entries, if `Precedes` is transitive and no resume occurs in both. This is why it
is sound that `_rank_candidates` forgets.

**Ledger.** `LastStepInv` says for each control point which step came last and in
what round; with it each appended step follows its predecessor.

**Stop rules.** The rules read a counter and a signature in the workflow's memory, the
properties read the ledger. `StopInv` says what the one tells of the other: `Tells`
relates `noProgress` and `previousSignature` to the steps of the last two rounds, and
`Once` that a round has one search and one dedupe step, so that "the dedupe step of
this round" is a definite one. A step of a new round is new in this sense, so
appending it leaves what is known of earlier rounds alone.

**The row.** `CalmInv` says who may be writing. Until the run is over only the attempt
Temporal waits for is; the row is the workflow's snapshot, or that with the patch
applied at least once, which differs from applying it once only in how many copies of
the whole patch there are (`Patched`, `PatchedAgain`); and what the thread has copied is what
it would copy now (`InFlight`). Attempts to publish may overlap, but all of them hold
rows that differ from the snapshot in the trace alone (`Publisher`). `LedgerSound`
carries the two properties of the ledger from one snapshot to the next: `SoundAhead` is that
any number of copies of a patch of one or two steps keep every position a repeat of its
patch, because the ledger behind the snapshot has the patch's length as its period.

**Refinement.** For the loop the mapping renames: `ledger <- steps`, `shortlist <-
finalShortlist`, `MinRounds <- EffectiveMinRounds`. The invariant needed besides is
that a run which has decided to stop has reached the minimum round (`MinRoundInv`).
`TerminalIsFinal` is part of what the lifecycle promises; no run lists it, and
`FinishedIsFinal` proves it of the loop directly. For
the row the mapping takes columns, and `StageInv` says which status and round the
workflow's snapshot has at each activity. Only `Commit` is a step of the abstract
specification, and a repeated commit a stutter or one more copy of a step.

**Paging.** `SlicesFit` states what one slice of a list contains, by integer division.
The invariant of every schedule is that nothing was read beyond the offset; under an
aligned schedule, that the sizes still to come divide the offset of a list that is
not at its end (`OffsetsFit`), so that a page begins exactly at the offset. A search of a
list that is not at its end returns the resume at the offset, which nobody has read; hence
`SearchesAdvance`, read backwards.

**Traces.** `LinkInv`: versions are only ever appended to the registry, so a version that
had a text keeps it, and an entry of an attempt's cache names a version with the text
of its key, or none.

**The page.** Nothing cancels a request, so what keeps the polls of several runs apart is
that `startRun` awaits its request and its first poll, and clears the timer
(`StartAwaits`). From this follows `OnePerStart`: what a start leaves behind is one of a
request, a timer and a poll, each of which is followed by at most one other. It makes
`TypeOK` inductive, as a poll always finds a free slot, and `NeverDeaf` with it: a page
that shows a run as pending has a timer or a poll that has not been answered. The
invariant was checked on three starts (754,563 states) before it was proved.

**The whole stack.** `LedgerGrows`: whatever a step does, the ledger it leaves begins with
the one it found, so what is recorded stays recorded. `OutcomeInv` has then only to know
at which control points the strategy and the end of the run are in the ledger, and that
the status is terminal exactly where the workflow has nothing left but to publish: the
suite can look at any time. `RowInv`: an attempt to publish starts only when the run has
ended, so the facts of the run it copied are final; the address is written by an attempt
that has handed over everything. The refinement needs `StageInv`, which says of each
control point what status and round the row has there, and of a repeated patch that it
appends steps and leaves the round alone.

**What the reflector is told.** A repeated patch makes the positions of steps useless to an
invariant, but it appends only steps that are recorded already. `ToldInv` is therefore
about the *set* of recorded steps (`Recordings`), which `RepeatedAddsNothing` shows it
leaves alone: of each round the types recorded so far, and no two unlike steps of one round
and type (`OneOfEach`); each reflection with the query of the next search
(`QueriesLinked`); analyses of different rounds about different resumes, which together are
those seen (`SeenInv`, `AnalysedApart`). `LedgerTold` and `EntryTold` say what compaction and
the round ledger make of *any* ledger: an entry exactly where there is a step, and in it
what one of these steps says. `DeltaTells` is that applying a delta gives the next query.
The invariant was checked on the run's states before it was proved.

**The data of the stack.** `DataInv` has the types and what they rest on. A query is one of
the run because `Queries` are the first terms of a text with ever fewer last should terms
(`QueriesAre`), which is what dropping the weakest term gives (`QueriesClosed`). An offset
is bounded because each search moves it by what it returns, at most the catalogue, and
`Searches` counts the searches. What is admitted is in the catalogue, so its scores exist
and are shares of one (`ScoreTyped`). And the ledger is in the order of its rounds
(`Orderly`), where a repeated patch is the case to think about: it appends copies of the
last step or, at the judgement, of the last two, which by `JudgeInv` are of one round.
`PlanInv` says of each attempt that its plan is the replay of the ledger it read, of which it
has sent a part, and by `RowInv` nobody writes the ledger any more.

**The tree.** `Tree` is the set of observations that a ledger calls for. `ReplayLists` is that
the replay lists this set: every observation of it, none twice, and the children of rounds in
the order of the steps they show (`Lists`). It is put together as the code does it, by
concatenating the lists of steps to rounds and of rounds to the whole (`ListsBoth`,
`ListsMany`); that is possible because rounds and steps are visited in order. `TreeShows` then
counts: whatever lists the tree shows each step and each analysed resume once. It is about
any ledger that is well formed; that the run's is follows from `DataInv`.

**Stopping early.** `FruitInv` has two halves, as the run has. As long as every round admitted
somebody, what was seen is exactly what the query has been read to, from its first result
without a gap, and the sizes still to come divide the offset of a list that is not at its
end (`ReadOnInv`, by the lemma `SlicesFit` of the paging proofs). A page that has nobody new
is then empty or behind the end, so the query finds nobody who was not seen. From there on
(`DryInv`) it stays so: `WeakerFindsLess` is that a query without one of its terms finds
less, and the reflector keeps the query or drops a term. The order matters: the first half
does not survive a change of the query, and the reflector changes it only after an empty
round. Repeated patches do not disturb this, as a copy of an empty analysis is empty
(`EmptyCopies`). The invariant was checked on the run's states before it was proved.

**Services.** `CaseInv` says that there is at most one run, that a case and its first
version are there exactly with it, and that what was committed last is active.
`UpsertInv`: the ids the workflow was answered are those of the one candidate and the
one snapshot there are. `VersionInv` counts: while requests for a version have come one at a
time, the number a request has in hand is one more than the versions there are, and the
rows it deactivates are all of them; without the case there is no version and no request
for one. `VerdictInv`: while attempts to persist
the candidate have not overlapped, the attempt writes back no other verdict than the
row has. `ExportInv`: the request in hand owns the running job, and there is at most one
file.

**Induction over data.** The library's induction theorems take an operator as a parameter,
which the provers cannot instantiate. `SetInduction` says the same of a set of natural
numbers, by the well-founded order that the library has for sets, and is enough for
what a fold computes: `FlattenUnfold` makes of `FlattenSeq` the last value of a function
with a known step. It is used for the tree only. Sorting and filtering are defined in
`Enumeration` by what they yield, and `AscendingLists` proves that there is such an
enumeration, from the cardinalities of the sets below each element. `DropWeakest` repeated is
a prefix of the terms (`Shortened`), slices are stated by their positions.

**Model-checked only.** Liveness (`RunEnds`, `RunSettles`, `StartingEnds`, `PollingStops`,
`OutcomeIsShown`): fairness and ENABLED are beyond the prover. The runs that end in a
violation have nothing to prove.

## 5. Where code and documents disagree

Five runs end with a counterexample on purpose. Each checks a sentence of the
repository's documents against what the code does; `PROJECT.json` quotes both.

| Run | The document | The code |
|---|---|---|
| `agentrun_strategies` | `mvp-agent-minimum-loop-plan.md:122`: no semantically identical strategy without a stop or a forced change | `execution.py:994` blocks it only after a fruitless round |
| `record_ledger` | the same plan, line 97, and `pydantic-ai-temporal-migration-plan.md:52`: the ledger is append-only | `activities.py:93`, `sqlalchemy_uow.py:55`: an attempt that outlives its timeout writes back the steps it read |
| `record_cts` | `pydantic-ai-temporal-migration-plan.md:64`: CTS errors fail the run after bounded retry | `execution.py:417` gives the search activity no retry policy, which means unlimited attempts |
| `page_runs` | `requirement-traceability.md:85` (LI-01): never a mix of runs | `shortlist.page.ts:193` shows whatever poll is answered |
| `case_versions` | `requirement-traceability.md:59` (JD-03): one active JD version | `service.py:76` deactivates only what is committed; nothing locks the case |

## 6. What is not modelled

- Texts: prompts (but for the round ledger in the reflector's), summaries, trace payloads, labels, masking, CSV columns and the CTS
  request. No property is about them.
- The repair of a found run without `workflow_id` (`agent_runs.py:392`): no code in the
  repository leaves such a row behind.
- The extraction, analysis and reflection adapters of `adapters.py:109-872`: nothing
  calls them; the worker uses `agents.py`.
- The audit rows, written in the same transactions as what they record.
- The limit of eight activity threads, Temporal's own persistence, the cache of prompts
  inside Langfuse's SDK, and LLMs, whose answers are any their schema admits.
- Ops summaries, diagnostics, the ops page, settings, generated clients, tools and CI:
  reads, drivers, configuration.

## 7. Plan

Done, in this order: `AgentRunLoop` with `RunLifecycle` and its proofs, `RunRecord`,
`ShortlistPage`, `CaseRecords`, `SearchPaging` with its proofs; then `TraceReplay`,
`DeterministicAgents` and `DeterministicRun`, `CaseIntake`, and the proofs about
traces, the services, the stop rules and the row; those about the page, the
versions and the whole stack, with `RoundLedger`; last, with `Enumeration`, those about the
data of the stack, its tree and its early stop. What is left:

1. **`RunRecord` with `TraceReplay`**: the publication reads and saves the row in
   `RunRecord`, and makes the trace in `TraceReplay`; one module with both would say
   whether a slow patch can make a published trace untrue.
2. **The ops summary**, if it comes to be more than a read.
