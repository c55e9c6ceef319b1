----------------------------- MODULE RoundLedger -----------------------------
(***************************************************************************)
(* What the search reflector is told of a run.  The row's ledger keeps     *)
(* every step whole, for the trace.  The workflow remembers it compacted,  *)
(* as the answer of each activity brings it, copies of steps included, and *)
(* from what it remembers build_search_reflection_prompt makes the round   *)
(* ledger: for each round one entry of each kind.                          *)
(*                                                                         *)
(* A ledger is a sequence of steps [round, type, query, entries] as in     *)
(* AgentRunLoop, a query a record of must and should terms and of the keys *)
(* of its filters.  Of the keys of a payload these operators name those    *)
(* the round ledger reads, and the bulk that compaction drops.  Left out   *)
(* is the entry of the extraction, which has no round.                     *)
(***************************************************************************)
EXTENDS Integers, Sequences, SequencesExt

\* Mutant: what goes is not told.
AdditionsOnly(previous, next) ==
    [addedMustTerms |-> ToSet(next.must) \ ToSet(previous.must),
     removedMustTerms |-> {},
     addedShouldTerms |-> ToSet(next.should) \ ToSet(previous.should),
     removedShouldTerms |-> {},
     changedStructuredFilters |-> next.filters \ previous.filters,
     removedStructuredFilterKeys |-> {}]

\* How the next query differs from the previous one.  A key of the filters has no other
\* value in one query than in another: it changes by coming or going.
BuildQueryDelta(previous, next) ==
    [addedMustTerms |-> ToSet(next.must) \ ToSet(previous.must),
     removedMustTerms |-> ToSet(previous.must) \ ToSet(next.must),
     addedShouldTerms |-> ToSet(next.should) \ ToSet(previous.should),
     removedShouldTerms |-> ToSet(previous.should) \ ToSet(next.should),
     changedStructuredFilters |-> (previous.filters \ next.filters)
                                  \cup (next.filters \ previous.filters),
     removedStructuredFilterKeys |-> previous.filters \ next.filters]

\* The steps of a type in a round: one, and the copies a repeated patch has left.
Copies(ledger, round, type) ==
    {i \in DOMAIN ledger : ledger[i].round = round /\ ledger[i].type = type}

QueryOf(ledger, round) ==
    ledger[CHOOSE i \in Copies(ledger, round, "search") : TRUE].query

\* The payload of a step, as execution.py writes it.
Payload(ledger, i) ==
    LET step == ledger[i]
    IN  CASE step.type = "search" ->
               [roundQuery |-> step.query, upstreamResponse |-> "bulk", trace |-> "bulk"]
          [] step.type = "analysis" ->
               [analyses |-> step.entries, trace |-> "bulk"]
          [] step.type = "shortlist" ->
               [retainedCandidates |-> step.entries, trace |-> "bulk"]
          [] step.type = "reflection" ->
               [nextRoundQuery |-> step.query,
                queryDelta |-> BuildQueryDelta(QueryOf(ledger, step.round), step.query),
                promptText |-> "bulk", trace |-> "bulk"]
          [] OTHER -> [trace |-> "bulk"]

\* The keys of a payload that compact_for_workflow copies.
KeptKeys(type) ==
    CASE type = "search" -> {"roundQuery"}
      [] type = "analysis" -> {"analyses"}
      [] type = "shortlist" -> {"retainedCandidates"}
      [] type = "reflection" -> {"nextRoundQuery", "queryDelta"}
      [] OTHER -> {}

\* What the workflow remembers of the row's ledger.
CompactForWorkflow(ledger) ==
    [i \in DOMAIN ledger |->
        LET payload == Payload(ledger, i)
        IN  [round |-> ledger[i].round, type |-> ledger[i].type,
             payload |-> [key \in DOMAIN payload \cap KeptKeys(ledger[i].type) |->
                              payload[key]]]]

\* The keys of a remembered payload that the round ledger shows.
ReadKeys(type) ==
    CASE type = "search" -> {"roundQuery"}
      [] type = "analysis" -> {"analyses"}
      [] type = "shortlist" -> {"retainedCandidates"}
      [] type = "reflection" -> {"queryDelta"}
      [] OTHER -> {}

ShownTypes == {"search", "dedupe", "analysis", "shortlist", "reflection", "stop"}

\* The entry of a later copy takes the place of an earlier one's.
LastCopy(memory, round, type) ==
    CHOOSE i \in Copies(memory, round, type) : \A j \in Copies(memory, round, type) : j <= i

BuildCompactRoundLedger(memory) ==
    [round \in {memory[i].round : i \in DOMAIN memory} \ {0} |->
        [type \in {t \in ShownTypes : Copies(memory, round, t) # {}} |->
            LET payload == memory[LastCopy(memory, round, type)].payload
            IN  [key \in DOMAIN payload \cap ReadKeys(type) |-> payload[key]]]]
=============================================================================
