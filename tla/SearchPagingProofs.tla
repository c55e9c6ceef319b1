------------------------- MODULE SearchPagingProofs -------------------------
(***************************************************************************)
(* Proofs about SearchPaging, for every schedule, every length of the      *)
(* lists and every order in which strategies are searched.                 *)
(***************************************************************************)
EXTENDS SearchPaging, EnumerationProofs

-----------------------------------------------------------------------------
(* The invariants. *)

\* Extending a schedule gives every round a size.
LEMMA NormalizedTyped ==
    ASSUME NEW raw \in RawSchedules
    PROVE  Normalized(raw) \in [1..MaxRounds -> Sizes]
<1>1. raw \in Seq(Sizes) /\ raw # <<>>
  BY SchedulesAssumption DEF Sizes
<1>2. Len(raw) \in 1..Len(raw)
  BY <1>1
<1>3. \A r \in 1..MaxRounds : (IF r <= Len(raw) THEN raw[r] ELSE raw[Len(raw)]) \in Sizes
  BY <1>1, <1>2, RoundsAssumption
<1>. QED
  BY <1>3 DEF Normalized

\* The offset never falls behind what has been read: where pages overlap it counts
\* resumes twice, and a short page puts it at the end of the list.
NothingBeyondOffset == \A s \in Strategies : \A i \in fetched[s] : i < offsets[s]

\* The sizes still to come divide the offset of a list that is not at its end.
OffsetsFit ==
    Aligned =>
        \A s \in Strategies, r \in 1..MaxRounds :
            roundNo < r /\ offsets[s] < total[s] => offsets[s] % schedule[r] = 0

Inv == TypeOK /\ NothingBeyondOffset /\ OffsetsFit /\ PagesAreContiguous

LEMMA InitInv == Init => Inv
<1> SUFFICES ASSUME Init PROVE Inv
  OBVIOUS
<1>1. schedule \in [1..MaxRounds -> Sizes]
  BY NormalizedTyped DEF Init
<1>2. TypeOK
  <2>1. roundNo \in 0..MaxRounds
    BY RoundsAssumption DEF Init
  <2>2. offsets \in [Strategies -> Nat] /\ fetched \in [Strategies -> SUBSET Nat]
    BY DEF Init
  <2>. QED
    BY <1>1, <2>1, <2>2 DEF Init, TypeOK
<1>3. NothingBeyondOffset /\ PagesAreContiguous
  <2>1. \A s \in Strategies : fetched[s] = {} /\ offsets[s] = 0
    BY DEF Init
  <2>2. \A s \in Strategies : {i \in 0..(total[s] - 1) : i < 0} = {}
    BY <1>2 DEF TypeOK
  <2>. QED
    BY <2>1, <2>2 DEF NothingBeyondOffset, PagesAreContiguous
<1>4. \A r \in 1..MaxRounds : 0 % schedule[r] = 0
  BY <1>1, SMT DEF Sizes
<1>5. OffsetsFit
  BY <1>4 DEF Init, OffsetsFit
<1>. QED
  BY <1>2, <1>3, <1>5 DEF Inv

\* SlicesFit for the search of strategy s.
LEMMA SearchFacts ==
    ASSUME TypeOK, NEW s \in Strategies, Running
    PROVE  LET n == Cardinality(Returned(s)) IN
           /\ FetchSize \in Sizes
           /\ n \in Nat
           /\ \A i \in Returned(s) : i \in 0..(total[s] - 1) /\ i < offsets[s] + n
           /\ offsets[s] < total[s] => offsets[s] \in Returned(s)
           /\ offsets[s] < total[s] => n = FetchSize \/ total[s] <= offsets[s] + n
           /\ offsets[s] % FetchSize = 0 =>
                Returned(s) = {i \in 0..(total[s] - 1) : offsets[s] <= i /\ i < offsets[s] + n}
<1>1. roundNo + 1 \in 1..MaxRounds
  BY RoundsAssumption DEF Running, TypeOK
<1>2. FetchSize \in Sizes /\ offsets[s] \in Nat /\ total[s] \in Nat
  <2>1. schedule \in [1..MaxRounds -> Sizes]
    BY DEF TypeOK
  <2>2. FetchSize \in Sizes
    BY <1>1, <2>1 DEF FetchSize
  <2>3. offsets \in [Strategies -> Nat] /\ total \in [Strategies -> Nat]
    BY TotalAssumption DEF TypeOK
  <2>. QED
    BY <2>2, <2>3
<1>. HIDE DEF FetchSize
<1>3. Returned(s) = Slice(offsets[s], FetchSize, total[s])
  BY DEF Returned, Page, PageNo, Slice
<1>4. SliceFits(offsets[s], FetchSize, total[s], Returned(s))
  BY <1>2, <1>3, SlicesFit DEF Sizes
<1>5. \A i \in Returned(s) : i \in 0..(total[s] - 1)
  BY <1>3 DEF Slice
<1>. QED
  BY <1>2, <1>4, <1>5 DEF SliceFits

LEMMA NextInv == Inv /\ [Next]_vars => Inv'
<1> SUFFICES ASSUME Inv, [Next]_vars PROVE Inv'
  OBVIOUS
<1>. USE DEF Inv
<1>1. ASSUME NEW s \in Strategies, Search(s) PROVE Inv'
  <2>. DEFINE n == Cardinality(Returned(s))
              end == offsets[s] + n
  <2>1. /\ FetchSize \in Sizes /\ n \in Nat
        /\ \A i \in Returned(s) : i \in 0..(total[s] - 1) /\ i < end
        /\ offsets[s] < total[s] => n = FetchSize \/ total[s] <= end
        /\ offsets[s] % FetchSize = 0 =>
             Returned(s) = {i \in 0..(total[s] - 1) : offsets[s] <= i /\ i < end}
    BY <1>1, SearchFacts DEF Search
  <2>2. /\ schedule' = schedule /\ total' = total /\ roundNo' = roundNo + 1
        /\ roundNo + 1 \in 1..MaxRounds
        /\ offsets[s] \in Nat /\ total[s] \in Nat /\ fetched[s] \in SUBSET Nat
    BY <1>1, RoundsAssumption, TotalAssumption DEF Search, Running, TypeOK
  <2>3. /\ offsets' \in [Strategies -> Nat] /\ offsets'[s] = end
        /\ \A t \in Strategies \ {s} : offsets'[t] = offsets[t]
    BY <1>1, <2>1 DEF Search, Advance, TypeOK
  <2>4. /\ fetched'[s] = fetched[s] \cup Returned(s)
        /\ \A t \in Strategies \ {s} : fetched'[t] = fetched[t]
        /\ fetched' \in [Strategies -> SUBSET Nat]
    <3>1. Returned(s) \subseteq Nat
      BY <2>1
    <3>. QED
      BY <1>1, <3>1 DEF Search, TypeOK
  <2>. HIDE DEF n
  <2>5. TypeOK'
    BY <1>1, <2>2, <2>3, <2>4, RoundsAssumption DEF Search, TypeOK
  <2>6. NothingBeyondOffset'
    <3>1. \A i \in fetched'[s] : i < offsets'[s]
      BY <2>1, <2>2, <2>3, <2>4 DEF NothingBeyondOffset
    <3>. QED
      BY <3>1, <2>3, <2>4 DEF NothingBeyondOffset
  <2>7. ASSUME Aligned, offsets[s] < total[s]
        PROVE  offsets[s] % FetchSize = 0
    BY <2>2, <2>7 DEF OffsetsFit, FetchSize, TypeOK
  <2>8. OffsetsFit'
    <3> SUFFICES ASSUME Aligned, NEW t \in Strategies, NEW r \in 1..MaxRounds,
                        roundNo + 1 < r, offsets'[t] < total[t]
                 PROVE  offsets'[t] % schedule[r] = 0
      BY <2>2 DEF OffsetsFit, Aligned
    <3>1. CASE t = s
      <4>1. offsets[s] < total[s] /\ n = FetchSize
        BY <2>1, <2>2, <2>3, <3>1
      <4>2. schedule[r] \in Sizes /\ roundNo < r
        BY <2>2 DEF TypeOK
      <4>3. offsets[s] % schedule[r] = 0
        BY <4>1, <4>2 DEF OffsetsFit
      <4>4. FetchSize % schedule[r] = 0
        BY <2>2 DEF Aligned, FetchSize
      <4>5. FetchSize \in Nat
        BY <2>1 DEF Sizes
      <4>6. (offsets[s] + FetchSize) % schedule[r] = 0
        BY <2>2, <4>2, <4>3, <4>4, <4>5, ModuloOfSum DEF Sizes
      <4>. QED
        BY <4>1, <4>6, <2>3, <3>1
    <3>2. CASE t # s
      BY <3>2, <2>2, <2>3 DEF OffsetsFit, TypeOK
    <3>. QED
      BY <3>1, <3>2
  <2>9. PagesAreContiguous'
    <3> SUFFICES ASSUME Aligned, NEW t \in Strategies
                 PROVE  fetched'[t] = {i \in 0..(total[t] - 1) : i < offsets'[t]}
      BY <2>2 DEF PagesAreContiguous, Aligned
    <3>0. fetched[t] = {i \in 0..(total[t] - 1) : i < offsets[t]}
      BY DEF PagesAreContiguous
    <3>1. CASE t # s
      BY <3>0, <3>1, <2>3, <2>4
    <3>2. CASE t = s /\ offsets[s] < total[s]
      <4>1. Returned(s) = {i \in 0..(total[s] - 1) : offsets[s] <= i /\ i < end}
        BY <2>1, <2>7, <3>2
      <4>. QED
        BY <4>1, <3>0, <3>2, <2>1, <2>2, <2>3, <2>4
    <3>3. CASE t = s /\ total[s] <= offsets[s]
      <4>0. fetched[s] = {i \in 0..(total[s] - 1) : i < offsets[s]}
        BY <3>0, <3>3
      <4>1. fetched[s] = 0..(total[s] - 1)
        BY <4>0, <3>3, <2>2
      <4>2. fetched'[s] = 0..(total[s] - 1)
        BY <4>1, <2>1, <2>4
      <4>. QED
        BY <4>2, <3>3, <2>1, <2>2, <2>3
    <3>. QED
      BY <3>1, <3>2, <3>3, <2>2
  <2>. QED
    BY <2>5, <2>6, <2>8, <2>9
<1>2. CASE SearchReportsError
  <2>1. TypeOK'
    BY <1>2, RoundsAssumption DEF SearchReportsError, Running, TypeOK
  <2>2. NothingBeyondOffset' /\ PagesAreContiguous'
    BY <1>2 DEF SearchReportsError, NothingBeyondOffset, PagesAreContiguous, Aligned
  <2>3. OffsetsFit'
    BY <1>2 DEF SearchReportsError, OffsetsFit, Aligned, TypeOK
  <2>. QED
    BY <2>1, <2>2, <2>3
<1>3. CASE UNCHANGED vars
  BY <1>3 DEF vars, TypeOK, NothingBeyondOffset, OffsetsFit, PagesAreContiguous, Aligned
<1>. QED
  BY <1>1, <1>2, <1>3 DEF Next, Over

-----------------------------------------------------------------------------
(* The theorems. *)

LEMMA Invariance == Spec => []Inv
BY InitInv, NextInv, PTL DEF Spec

\* Whatever is searched, every round has a size and every offset is a number, of the
\* positions read and of a list at its end alike (normalize_agent_run_config).
THEOREM PagingTypeCorrect == Spec => []TypeOK
BY Invariance, PTL DEF Inv

\* Under a schedule whose sizes divide one another the pages of a strategy lie end to
\* end, for every number of rounds, strategies and results.
THEOREM PagesAlwaysContiguous == Spec => []PagesAreContiguous
BY Invariance, PTL DEF Inv

\* Under any schedule a fruitless search finds the offset at the end of the list or behind
\* it, for before the end it returns the resume at the offset, which no search returned
\* before; under an aligned one the whole list has been read by then.
THEOREM SearchesAlwaysAdvance == Spec => SearchesAdvance
<1>1. ASSUME Inv, NEW s \in Strategies, Search(s), fetched'[s] = fetched[s]
      PROVE  /\ offsets[s] >= total[s]
             /\ Aligned => fetched[s] = 0..(total[s] - 1)
  <2>1. offsets[s] \in Nat /\ total[s] \in Nat
    BY <1>1, TotalAssumption DEF Inv, TypeOK
  <2>2. ASSUME offsets[s] < total[s] PROVE FALSE
    <3>1. offsets[s] \in Returned(s)
      BY <1>1, <2>2, SearchFacts DEF Inv, Search
    <3>2. offsets[s] \notin fetched[s]
      BY <1>1, <2>1 DEF Inv, NothingBeyondOffset
    <3>3. offsets[s] \in fetched'[s]
      BY <1>1, <3>1 DEF Inv, Search, TypeOK
    <3>. QED
      BY <1>1, <3>2, <3>3
  <2>3. offsets[s] >= total[s]
    BY <2>1, <2>2
  <2>4. ASSUME Aligned PROVE fetched[s] = 0..(total[s] - 1)
    <3>1. fetched[s] = {i \in 0..(total[s] - 1) : i < offsets[s]}
      BY <1>1, <2>4 DEF Inv, PagesAreContiguous
    <3>2. \A i \in 0..(total[s] - 1) : i < offsets[s]
      BY <2>1, <2>3
    <3>. QED
      BY <3>1, <3>2
  <2>. QED
    BY <2>3, <2>4
<1>2. Inv /\ [Next]_vars =>
        [\A s \in Strategies :
            Search(s) /\ fetched'[s] = fetched[s] =>
                /\ offsets[s] >= total[s]
                /\ Aligned => fetched[s] = 0..(total[s] - 1)]_vars
  BY <1>1
<1>. QED
  BY <1>2, Invariance, PTL DEF Spec, SearchesAdvance
=============================================================================
