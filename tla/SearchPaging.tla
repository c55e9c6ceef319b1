---------------------------- MODULE SearchPaging ----------------------------
(***************************************************************************)
(* Which part of a strategy's results each round of a run reads.  The run  *)
(* keeps an offset for every strategy, the number of resumes its searches  *)
(* have returned, and asks for the page of this round's size in which the  *)
(* offset lies.  A resume is its position in the source's list of results  *)
(* of the strategy.                                                        *)
(*                                                                         *)
(* Which strategy a round searches is the reflector's affair: any.         *)
(***************************************************************************)
EXTENDS Integers, Sequences, FiniteSets

CONSTANTS
    Strategies,     \* strategy signatures
    MaxRounds,      \* config.maxRounds
    RawSchedules,   \* the roundFetchSchedules a run may be asked for
    MaxTotal        \* bound: results of a strategy

ASSUME RoundsAssumption == MaxRounds \in 3..5
ASSUME SchedulesAssumption == RawSchedules \subseteq Seq(Nat \ {0}) \ {<<>>}
ASSUME TotalAssumption == MaxTotal \in Nat

VARIABLES
    schedule,   \* the run's roundFetchSchedule
    total,      \* how many results the source has, by strategy
    roundNo,    \* rounds searched
    offsets,    \* strategy_offsets, 0 where it has no entry
    fetched,    \* positions returned so far, by strategy
    failed      \* a search has ended the run

vars == <<schedule, total, roundNo, offsets, fetched, failed>>

Sizes == Nat \ {0}

\* Mutant: the schedule is cut off, but not extended.
CutOff(raw) == [r \in 1..(IF Len(raw) < MaxRounds THEN Len(raw) ELSE MaxRounds) |-> raw[r]]

\* normalize_agent_run_config: cut off after maxRounds, or extended by its last size.
Normalized(raw) ==
    [r \in 1..MaxRounds |-> IF r <= Len(raw) THEN raw[r] ELSE raw[Len(raw)]]

Init ==
    /\ \E raw \in RawSchedules : schedule = Normalized(raw)
    /\ total \in [Strategies -> 0..MaxTotal]
    /\ roundNo = 0
    /\ offsets = [s \in Strategies |-> 0]
    /\ fetched = [s \in Strategies |-> {}]
    /\ failed = FALSE

FetchSize == schedule[roundNo + 1]

\* Mutant: the page the last search ended on is asked for again.
PageBefore(offset) == IF offset < FetchSize THEN 1 ELSE offset \div FetchSize

PageNo(offset) == offset \div FetchSize + 1

\* A page of the source's list: shorter at its end, empty behind it.
Page(s, no) ==
    {i \in 0..(total[s] - 1) : (no - 1) * FetchSize <= i /\ i < no * FetchSize}

Returned(s) == Page(s, PageNo(offsets[s]))

Running == roundNo < MaxRounds /\ ~failed

\* Mutant: every strategy is advanced.
AdvanceAll(s) == [t \in Strategies |-> offsets[t] + Cardinality(Returned(s))]

Advance(s) == [offsets EXCEPT ![s] = @ + Cardinality(Returned(s))]

Search(s) ==
    /\ Running
    /\ fetched' = [fetched EXCEPT ![s] = @ \cup Returned(s)]
    /\ offsets' = Advance(s)
    /\ roundNo' = roundNo + 1
    /\ UNCHANGED <<schedule, total, failed>>

\* A page with an error holds no candidates: the offset stays, the run fails.
SearchReportsError ==
    /\ Running
    /\ roundNo' = roundNo + 1
    /\ failed' = TRUE
    /\ UNCHANGED <<schedule, total, offsets, fetched>>

\* The stop rules may end the run earlier, which only shortens the behaviour.
Over == ~Running /\ UNCHANGED vars

Next == (\E s \in Strategies : Search(s)) \/ SearchReportsError \/ Over

Spec == Init /\ [][Next]_vars

-----------------------------------------------------------------------------
(* Properties. *)

\* Every variable has its type; the schedule has a size for every round.
TypeOK ==
    /\ schedule \in [1..MaxRounds -> Sizes]
    /\ total \in [Strategies -> 0..MaxTotal]
    /\ roundNo \in 0..MaxRounds
    /\ offsets \in [Strategies -> Nat]
    /\ fetched \in [Strategies -> SUBSET Nat]
    /\ failed \in BOOLEAN

\* Every later size divides the earlier ones, as in the default schedule 10, 5, 5.
Aligned == \A q, r \in 1..MaxRounds : q < r => schedule[q] % schedule[r] = 0

\* Under such a schedule the pages of a strategy lie end to end, whatever other
\* strategies are searched in between: what has been read is the beginning of the list,
\* as long as the offset says, so that no resume before that was left out and none was
\* returned twice unless the list is at an end.
PagesAreContiguous ==
    Aligned =>
        \A s \in Strategies :
            fetched[s] = {i \in 0..(total[s] - 1) : i < offsets[s]}

\* What a fruitless search says of the list, which is what the stop rules go by
\* (_build_search_request): the strategy's searches have returned as many resumes as the
\* list has, a resume counted each time it was returned.  Only if the sizes are aligned
\* are these all resumes.  Otherwise pages overlap and run ahead of what was read: of
\* five results the sizes 2, 3, 4, 4 return 0, 1, then 0, 1, 2, then 4, then 4 again, and
\* the fruitless fourth search leaves 3 unread.
SearchesAdvance ==
    [][\A s \in Strategies :
          Search(s) /\ fetched'[s] = fetched[s] =>
              /\ offsets[s] >= total[s]
              /\ Aligned => fetched[s] = 0..(total[s] - 1)]_vars
=============================================================================
