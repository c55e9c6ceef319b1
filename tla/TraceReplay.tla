---------------------------- MODULE TraceReplay ----------------------------
(***************************************************************************)
(* Publishing a finished run's trace: an attempt of the activity reads the *)
(* row, replays the ledger as a tree of observations into the run's trace  *)
(* at Langfuse and, if that went well, saves the trace's id and address in *)
(* the row.  Every observation of an agent's call is linked to the version *)
(* of its prompt, which the attempt looks up in Langfuse's registry or     *)
(* creates there.  Attempts of the run and those of other runs share the   *)
(* registry and may overlap.                                               *)
(*                                                                         *)
(* A prompt's text is known by where it was used: the step's number and,   *)
(* in an analysis, the resume.  The columns of the row an attempt reads    *)
(* are written elsewhere: here they may change at any time.                *)
(***************************************************************************)
EXTENDS Integers, Sequences, FiniteSets, SequencesExt, Enumeration

CONSTANT Attempts   \* the attempts of publish_langfuse_trace, numbered in their order

ASSUME AttemptsAssumption == Attempts \subseteq Nat

VARIABLES
    status, currentRound, steps, finalShortlist, errorCode,
                    \* columns of the run's row, read only
    trace,          \* the row's langfuse_trace_id and langfuse_trace_url: are they set?
    registry,       \* Langfuse: the versions of every prompt; its label is on the last
    publication     \* the attempts

publicationVars == <<trace, registry, publication>>

-----------------------------------------------------------------------------
(* The tree of observations a ledger is replayed as. *)

NoPrompt == "no prompt"
StrategyPrompt == "cvm.strategy-extractor"
MatcherPrompt == "cvm.resume-matcher"
ReflectorPrompt == "cvm.search-reflector"
PromptNames == {StrategyPrompt, MatcherPrompt, ReflectorPrompt}

Text == Nat \X Nat
ForeignText == <<0, 0>>

\* under: the path of the parent, <<>> for the trace's root, <<round>> for a round and
\* <<round, position>> for an analysis; of: the ledger position, round or resume it shows.
Observation(under, name, of, prompt, text) ==
    [under |-> under, name |-> name, of |-> of, prompt |-> prompt, text |-> text]

Plain(under, name, of) == Observation(under, name, of, NoPrompt, ForeignText)

\* _step_trace_shape, and the prompt the workflow put into the step's trace fact.
StepName(type) ==
    IF type = "search" THEN "cts-search" ELSE IF type = "reflection" THEN "reflect" ELSE type

Positions(ledger, Holds(_)) == Ascending({i \in DOMAIN ledger : Holds(ledger[i])})

ReplayAnalysis(ledger, i, round) ==
    <<Plain(<<round>>, "analysis", i)>> \o
    LET ids == Ascending({e.id : e \in ledger[i].entries})
    IN  [k \in 1..Len(ids) |->
            Observation(<<round, i>>, "analyze-resume", ids[k], MatcherPrompt,
                        <<ledger[i].no, ids[k]>>)]

\* Mutant: without the loop's continue an analysis is replayed as a plain step, too.
ReplayStepTwice(ledger, i, round) ==
    (IF ledger[i].type = "analysis" THEN ReplayAnalysis(ledger, i, round) ELSE <<>>)
    \o <<Plain(<<round>>, StepName(ledger[i].type), i)>>

ReplayStep(ledger, i, round) ==
    IF ledger[i].type = "analysis" THEN ReplayAnalysis(ledger, i, round)
    ELSE IF ledger[i].type = "reflection"
         THEN <<Observation(<<round>>, "reflect", i, ReflectorPrompt, <<ledger[i].no, 0>>)>>
         ELSE <<Plain(<<round>>, StepName(ledger[i].type), i)>>

ReplayRound(ledger, round) ==
    LET of == Positions(ledger, LAMBDA s : s.round = round)
    IN  <<Plain(<<>>, "round", round)>>
        \o FlattenSeq([k \in 1..Len(of) |-> ReplayStep(ledger, of[k], round)])

\* _replay_trace: the strategy, the rounds in their order, and the finalize step, which
\* has a round and is shown there as well.  Round 0 is none.
Replay(ledger) ==
    LET strategy == Positions(ledger, LAMBDA s : s.type = "strategy" /\ s.round = 0)
        rounds == Ascending({s.round : s \in ToSet(ledger)} \ {0})
        finalize == Positions(ledger, LAMBDA s : s.type = "finalize")
    IN  (IF strategy = <<>> THEN <<>>
         ELSE <<Observation(<<>>, "extract-search-strategy", strategy[1], StrategyPrompt,
                            <<ledger[strategy[1]].no, 0>>)>>)
        \o FlattenSeq([k \in 1..Len(rounds) |-> ReplayRound(ledger, rounds[k])])
        \o (IF finalize = <<>> THEN <<>> ELSE <<Plain(<<>>, "finalize", finalize[1])>>)

-----------------------------------------------------------------------------
(* Attempts. *)

\* What update_root says of the run.
RootFacts ==
    [status |-> status, currentRound |-> currentRound,
     finalShortlist |-> finalShortlist, errorCode |-> errorCode]

\* plan: the observations to hand over; root: the facts of the row it was made from;
\* sent: how many were handed over; cache: the prompts resolved, with version 0 for those
\* that could not be; url: what get_trace_url answered.
Attempt(phase, plan, url) ==
    [phase |-> phase, plan |-> plan, root |-> RootFacts, sent |-> 0, cache |-> {}, url |-> url]

IdleAttempt == Attempt("idle", <<>>, FALSE)

PublicationInit ==
    /\ trace = [id |-> FALSE, url |-> FALSE]
    /\ registry = [name \in PromptNames |-> <<>>]
    /\ publication = [a \in Attempts |-> IdleAttempt]

\* What attempt p has put into the trace is the first p.sent observations of its plan,
\* each linked to VersionIn(p, o) of its prompt, if that is not 0.
Cached(p, o) == \E c \in p.cache : c.name = o.prompt /\ c.text = o.text

VersionIn(p, o) ==
    IF Cached(p, o) THEN (CHOOSE c \in p.cache : c.name = o.prompt /\ c.text = o.text).version
                    ELSE 0

Replaying(a) == publication[a].phase = "replaying"
AllSent(a) == publication[a].sent = Len(publication[a].plan)
NextObservation(a) == publication[a].plan[publication[a].sent + 1]

\* A new client and an empty cache; the address of the trace is asked for first.
Begin(a, url) ==
    /\ publication[a].phase = "idle"
    /\ publication' = [publication EXCEPT ![a] = Attempt("replaying", Replay(steps), url)]
    /\ UNCHANGED <<trace, registry>>

\* Without Langfuse the tracer is a no-op: nothing is sent, nothing has an address.
PublishWithoutClient(a) ==
    /\ publication[a].phase = "idle"
    /\ publication' = [publication EXCEPT ![a] = Attempt("done", <<>>, FALSE)]
    /\ trace' = [id |-> FALSE, url |-> FALSE]
    /\ UNCHANGED registry

Waiting(p, k) == p.plan[k].prompt \in PromptNames /\ ~Cached(p, p.plan[k])

\* Observation by observation, up to the next whose prompt is not resolved yet.
HandOver(a) ==
    LET p == publication[a]
    IN  /\ Replaying(a)
        /\ \E n \in (p.sent + 1)..Len(p.plan) :
              /\ \A k \in (p.sent + 1)..n : ~Waiting(p, k)
              /\ n < Len(p.plan) => Waiting(p, n + 1)
              /\ publication' = [publication EXCEPT ![a].sent = n]
        /\ UNCHANGED <<trace, registry>>

NeedsPrompt(a) ==
    Replaying(a) /\ ~AllSent(a) /\ Waiting(publication[a], publication[a].sent + 1)

Resolved(a, version) ==
    LET o == NextObservation(a)
    IN  [publication EXCEPT ![a].phase = "replaying",
                            ![a].cache = @ \cup {[name |-> o.prompt, text |-> o.text,
                                                  version |-> version]}]

\* Mutant: the registry answers by name, so the name is trusted.
NameMatches(versions, text) == versions # <<>>

\* The labelled version is the prompt if its text is, too.
PromptMatches(versions, text) == versions # <<>> /\ Last(versions) = text

\* get_prompt answers, or raises what is caught and counts as no answer (answers = FALSE).
GetPrompt(a, answers) ==
    /\ NeedsPrompt(a)
    /\ LET o == NextObservation(a)
           versions == registry[o.prompt]
       IN  publication' = IF answers /\ PromptMatches(versions, o.text)
                          THEN Resolved(a, Len(versions))
                          ELSE [publication EXCEPT ![a].phase = "creating"]
    /\ UNCHANGED <<trace, registry>>

\* create_prompt adds a version and moves the label to it.
CreatePrompt(a) ==
    /\ publication[a].phase = "creating"
    /\ LET o == NextObservation(a)
       IN  /\ registry' = [registry EXCEPT ![o.prompt] = Append(@, o.text)]
           /\ publication' = Resolved(a, Len(registry[o.prompt]) + 1)
    /\ UNCHANGED trace

\* A call that raises may have added the version all the same.
CreateMayCount(a) ==
    LET o == NextObservation(a)
    IN  registry' \in {registry, [registry EXCEPT ![o.prompt] = Append(@, o.text)]}

\* It raises what _resolve_prompt catches: the observation goes without a version.
CreateRaises(a) ==
    /\ publication[a].phase = "creating"
    /\ CreateMayCount(a)
    /\ publication' = Resolved(a, 0)
    /\ UNCHANGED trace

\* It raises anything else, such as an error of the transport: the attempt ends with it.
CreateEscapes(a) ==
    /\ publication[a].phase = "creating"
    /\ CreateMayCount(a)
    /\ publication' = [publication EXCEPT ![a].phase = "raised"]
    /\ UNCHANGED trace

\* Mutant: the exception ends the replay, not the activity.
ReplayRaisesQuietly(a) ==
    /\ Replaying(a)
    /\ publication' = [publication EXCEPT ![a].phase = "done"]
    /\ trace' = [id |-> TRUE, url |-> publication[a].url]
    /\ UNCHANGED registry

\* Handing over raises, or a look-up raises what is not caught: what was sent is flushed,
\* the row is left alone.
ReplayRaises(a) ==
    /\ Replaying(a)
    /\ publication' = [publication EXCEPT ![a].phase = "raised"]
    /\ UNCHANGED <<trace, registry>>

SaveTrace(a) ==
    /\ Replaying(a) /\ AllSent(a)
    /\ publication' = [publication EXCEPT ![a].phase = "done"]
    /\ trace' = [id |-> TRUE, url |-> publication[a].url]
    /\ UNCHANGED registry

\* The publication of another run creates a version of the prompt with its own text.
OtherRunCreates(name) ==
    /\ registry' = [registry EXCEPT ![name] = Append(@, ForeignText)]
    /\ UNCHANGED <<trace, publication>>

PublicationNext ==
    \/ \E a \in Attempts :
          \/ \E url \in BOOLEAN : Begin(a, url)
          \/ PublishWithoutClient(a) \/ HandOver(a)
          \/ \E answers \in BOOLEAN : GetPrompt(a, answers)
          \/ CreatePrompt(a) \/ CreateRaises(a) \/ CreateEscapes(a)
          \/ ReplayRaises(a) \/ SaveTrace(a)
    \/ \E name \in PromptNames : OtherRunCreates(name)

PublicationSpec == PublicationInit /\ [][PublicationNext]_publicationVars

-----------------------------------------------------------------------------
(* Properties. *)

\* Every observation that is linked to a version of a prompt is linked to one with the
\* very text the agent was given, whatever other publications do to the registry between
\* looking a prompt up, creating it and using it (_resolve_prompt and its cache).
LinkedPromptIsOwn ==
    \A a \in Attempts : \A k \in 1..publication[a].sent :
        LET o == publication[a].plan[k]
            v == VersionIn(publication[a], o)
        IN  v # 0 => v \in DOMAIN registry[o.prompt] /\ registry[o.prompt][v] = o.text
=============================================================================
