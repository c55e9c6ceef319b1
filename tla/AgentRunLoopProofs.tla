------------------------- MODULE AgentRunLoopProofs -------------------------
(***************************************************************************)
(* Proofs about AgentRunLoop, for every set of resumes, of strategies and  *)
(* of scores and every configuration the platform accepts: its types, what *)
(* is analysed and shortlisted, that it implements RunLifecycle, and what  *)
(* its ledger says.                                                        *)
(***************************************************************************)
EXTENDS AgentRunLoop, FiniteSetTheorems, TLAPS

-----------------------------------------------------------------------------
(* Type correctness. *)

\* The minimum number of rounds in force is one of the rounds of the run.
LEMMA MinRoundsInRange == EffectiveMinRounds \in 3..MaxRounds
BY RoundsAssumption DEF EffectiveMinRounds, AtMost, AtLeast

\* A fresh step is a step.
LEMMA StepsTyped ==
    ASSUME TypeOK, NEW type \in StepTypes
    PROVE  NextStep(type) \in Step /\ SecondStep(type) \in Step
BY DEF TypeOK, NextStep, SecondStep, BlankStep, Step

LEMMA ReflectionTyped ==
    ASSUME TypeOK, NEW next \in Strategies
    PROVE  /\ ReflectionStep(next) \in Step /\ ReflectionStep(next).type = "reflection"
           /\ ReflectionStep(next).no = Len(steps) + 1
           /\ ReflectionStep(next).round = currentRound
<1>1. NextStep("reflection") \in Step
  BY StepsTyped DEF StepTypes
<1>2. ReflectionStep(next) \in Step
  BY <1>1 DEF ReflectionStep, Step
<1>. QED
  BY <1>2 DEF ReflectionStep, NextStep, BlankStep

\* A step may be given any entries.
LEMMA EntriesTyped ==
    ASSUME NEW step \in Step, NEW entries \in SUBSET Entry
    PROVE  [step EXCEPT !.entries = entries] \in Step
BY DEF Step

\* What the matcher's answers become are entries, whatever it answered.
LEMMA AnalysesTyped ==
    ASSUME TypeOK, NEW scores \in [admitted -> RawScores]
    PROVE  Analyses(scores) \in SUBSET Entry
<1>1. ASSUME NEW r \in admitted
      PROVE  Clamp(scores[r]) \in Nat
  <2>1. scores[r] \in Int
    BY ScoresAssumption
  <2>. QED
    BY <2>1, ScoresAssumption DEF Clamp, AtMost, AtLeast
<1>. QED
  BY <1>1, RoundsAssumption DEF TypeOK, Analyses, Entry

\* What AnalyseAndRank does once the scores and their ranking are known.
RankedWith(scores, top) ==
    /\ RankCandidates(retained, Analyses(scores), top)
    /\ retained' = top /\ finalShortlist' = top
    /\ steps' = Append(Append(steps,
                    [NextStep("analysis") EXCEPT !.entries = Analyses(scores)]),
                    [SecondStep("shortlist") EXCEPT !.entries = top])
    /\ noProgress' = NoProgressAfter(top)
    /\ previousSignature' = IdsOf(top)

\* Where the workflow is decides the status it has given the run.
Phase ==
    /\ pc = "start" => status = "queued"
    /\ pc \in TryBody \cup {"failing"} => status = "running"
    /\ pc \in {"publish", "closed"} => status \in {"completed", "failed"}
    /\ pc = "escaped" => status \in {"queued", "running"}

LEMMA InitTyped == Init => TypeOK /\ Phase
<1> SUFFICES ASSUME Init
             PROVE  TypeOK /\ Phase
  OBVIOUS
<1>1. steps \in Seq(Step) /\ currentRound \in 0..MaxRounds
  BY RoundsAssumption DEF Init
<1>. QED
  BY <1>1 DEF Init, TypeOK, Phase, TryBody

LEMMA NextTyped == TypeOK /\ Phase /\ [Next]_vars => (TypeOK /\ Phase)'
<1> SUFFICES ASSUME TypeOK, Phase, [Next]_vars
             PROVE  (TypeOK /\ Phase)'
  OBVIOUS
<1> USE DEF TypeOK, Phase, TryBody, record, memory
<1>1. CASE MarkRunning
  BY <1>1 DEF MarkRunning
<1>2. CASE ExtractStrategy
  BY <1>2, StepsTyped DEF ExtractStrategy, StepTypes
<1>3. CASE BeginRound
  BY <1>3, RoundsAssumption DEF BeginRound
<1>4. SearchStep \in Step
  BY StepsTyped DEF SearchStep, StepTypes, Step
<1>5. CASE SearchReturns
  BY <1>4, <1>5 DEF SearchReturns
<1>6. CASE SearchReportsError
  BY <1>4, <1>6 DEF SearchReportsError
<1>7. CASE Dedupe
  BY <1>7, StepsTyped DEF Dedupe, SeenAfter, StepTypes
<1>8. CASE AnalyseAndRank
  <2>1. PICK scores \in [admitted -> RawScores] :
             \E top \in SUBSET (retained \cup Analyses(scores)) : RankedWith(scores, top)
    BY <1>8 DEF AnalyseAndRank, AnalyseWith, RankedWith
  <2>. PICK top \in SUBSET (retained \cup Analyses(scores)) : RankedWith(scores, top)
    BY <2>1
  <2>. USE DEF RankedWith
  <2>2. Analyses(scores) \in SUBSET Entry /\ top \in SUBSET Entry
    BY AnalysesTyped
  <2>3. /\ [NextStep("analysis") EXCEPT !.entries = Analyses(scores)] \in Step
        /\ [SecondStep("shortlist") EXCEPT !.entries = top] \in Step
    <3>1. NextStep("analysis") \in Step /\ SecondStep("shortlist") \in Step
      BY StepsTyped DEF StepTypes
    <3>. QED
      BY <2>2, <3>1, EntriesTyped
  <2>4. steps' \in Seq(Step)
    BY <2>3
  <2>5. noProgress' \in Nat
    BY DEF NoProgressAfter
  <2>6. previousSignature' \in SUBSET Resumes
    BY <2>2 DEF IdsOf, Entry
  <2>. QED
    BY <1>8, <2>2, <2>4, <2>5, <2>6 DEF AnalyseAndRank, AnalyseWith
<1>9. CASE StopByRule
  <2>1. RuleStopReason \in StopReasons
    BY DEF RuleStopReason, StopReasons
  <2>2. [NextStep("stop") EXCEPT !.source = RuleStopReason] \in Step
    BY <2>1, StepsTyped DEF Step, StepTypes
  <2>. QED
    BY <1>9, <2>1, <2>2 DEF StopByRule
<1>10. CASE Reflect
  <2>1. PICK wish \in BOOLEAN, next \in Strategies : ReflectWith(wish, next)
    BY <1>10 DEF Reflect
  <2>2. ReflectionStep(next) \in Step
    BY StepsTyped, ReflectionTyped
  <2>. QED
    BY <2>1, <2>2 DEF ReflectWith, StopReasons
<1>11. CASE RecordStop
  <2>1. [NextStep("stop") EXCEPT !.source = stopReason] \in Step
    BY StepsTyped DEF Step, StepTypes
  <2>. QED
    BY <1>11, <2>1 DEF RecordStop
<1>12. CASE Finalize
  BY <1>12, StepsTyped DEF Finalize, StepTypes
<1>13. CASE ActivityRaises
  BY <1>13 DEF ActivityRaises
<1>14. CASE RecordFailure
  BY <1>14 DEF RecordFailure
<1>15. CASE PublishTrace
  BY <1>15 DEF PublishTrace
<1>16. CASE PublishFails
  BY <1>16, StepsTyped DEF PublishFails, StepTypes
<1>17. CASE UNCHANGED vars
  BY <1>17 DEF vars
<1>18. CASE StartRaises \/ FailureUnrecorded
  BY <1>18 DEF StartRaises, FailureUnrecorded
<1>. QED
  BY <1>1, <1>2, <1>3, <1>5, <1>6, <1>7, <1>8, <1>9, <1>10, <1>11, <1>12, <1>13,
     <1>14, <1>15, <1>16, <1>17, <1>18 DEF Next, Closed

\* Every reachable state is well typed, and a run has a finishing time exactly when its
\* status is terminal.
THEOREM TypeCorrect == Spec => []TypeOK
<1>1. Spec => [](TypeOK /\ Phase)
  BY InitTyped, NextTyped, PTL DEF Spec
<1>. QED
  BY <1>1, PTL

-----------------------------------------------------------------------------
(* Ranking round by round. *)

\* The ranking's sort key is a strict order on entries.
LEMMA PrecedesTransitive ==
    ASSUME NEW a \in Entry, NEW b \in Entry, NEW c \in Entry,
           Precedes(a, b), Precedes(b, c)
    PROVE  Precedes(a, c)
<1>1. a.id \in Int /\ b.id \in Int /\ c.id \in Int
  BY ResumesAssumption DEF Entry
<1>. QED
  BY <1>1 DEF Precedes, Entry

\* When no resume has two entries the ranking drops none for being a duplicate.
LEMMA BestOfDistinct ==
    ASSUME NEW S, \A d, e \in S : d.id = e.id => d = e
    PROVE  BestPerResume(S) = S
BY DEF BestPerResume

\* Ranking what was kept of A together with B is ranking A and B together: what an
\* earlier round dropped can never be missed later.
LEMMA TopOfMerge ==
    ASSUME NEW A \in SUBSET Entry, IsFiniteSet(A), NEW B \in SUBSET Entry, IsFiniteSet(B),
           NEW R, IsTop(R, A, FinalTopK), NEW T, IsTop(T, R \cup B, FinalTopK)
    PROVE  IsTop(T, A \cup B, FinalTopK)
<1>. DEFINE K == FinalTopK
<1>1. R \subseteq A /\ T \subseteq R \cup B
  BY DEF IsTop
<1>2. IsFiniteSet(R) /\ IsFiniteSet(T)
  BY <1>1, FS_Subset, FS_Union
<1>3. /\ Cardinality(R) \in Nat /\ Cardinality(T) \in Nat /\ K \in Nat
      /\ Cardinality(R) <= K /\ Cardinality(T) <= K
      /\ R # A => Cardinality(R) = K
  BY <1>2, FS_CardinalityType, TopKAssumption DEF IsTop
<1>4. ASSUME NEW t \in T, NEW d \in (A \cup B) \ T
      PROVE  Precedes(t, d)
  <2>1. CASE d \in R \cup B
    BY <2>1 DEF IsTop
  <2>2. CASE d \notin R \cup B /\ t \in R
    BY <2>2 DEF IsTop
  <2>3. CASE d \notin R \cup B /\ t \notin R
    <3>1. R # A
      BY <2>3
    <3>2. ~(R \subseteq T)
      <4>1. SUFFICES ASSUME R \subseteq T PROVE FALSE
        OBVIOUS
      <4>2. R \cup {t} \in SUBSET T
        BY <4>1
      <4>3. Cardinality(R \cup {t}) <= Cardinality(T)
        BY <4>2, <1>2, FS_Subset
      <4>4. Cardinality(R \cup {t}) = Cardinality(R) + 1
        BY <2>3, <1>2, FS_AddElement
      <4>. QED
        BY <4>3, <4>4, <3>1, <1>3
    <3>3. PICK r \in R : r \notin T
      BY <3>2
    <3>4. Precedes(t, r)
      BY <3>3 DEF IsTop
    <3>5. Precedes(r, d)
      BY <2>3 DEF IsTop
    <3>. QED
      BY <3>4, <3>5, <1>1, PrecedesTransitive
  <2>. QED
    BY <2>1, <2>2, <2>3
<1>5. Cardinality(T) = K \/ (T = A \cup B /\ Cardinality(T) <= K)
  <2>1. CASE Cardinality(T) = K
    BY <2>1
  <2>2. CASE Cardinality(T) # K
    <3>1. T = R \cup B
      BY <2>2 DEF IsTop
    <3>2. Cardinality(R) <= Cardinality(T)
      BY <3>1, <1>2, FS_Subset
    <3>3. R = A
      BY <3>2, <2>2, <1>3
    <3>. QED
      BY <3>1, <3>3, <1>3
  <2>. QED
    BY <2>1, <2>2
<1>. QED
  BY <1>1, <1>4, <1>5 DEF IsTop

-----------------------------------------------------------------------------
(* The ledger's analyses. *)

AnalysesIn(q) == {i \in DOMAIN q : q[i].type = "analysis"}
EntriesIn(q) == UNION {q[i].entries : i \in AnalysesIn(q)}
OnceIn(q) ==
    \A i, j \in AnalysesIn(q) : i # j => IdsOf(q[i].entries) \cap IdsOf(q[j].entries) = {}

\* Appending a step that is no analysis leaves the analyses of a ledger as they were.
LEMMA AppendOther ==
    ASSUME NEW q \in Seq(Step), NEW s \in Step, s.type # "analysis"
    PROVE  /\ EntriesIn(Append(q, s)) = EntriesIn(q)
           /\ OnceIn(q) => OnceIn(Append(q, s))
<1>1. AnalysesIn(Append(q, s)) = AnalysesIn(q)
  BY DEF AnalysesIn
<1>2. \A i \in AnalysesIn(q) : Append(q, s)[i] = q[i]
  BY DEF AnalysesIn
<1>. QED
  BY <1>1, <1>2 DEF EntriesIn, OnceIn

\* Appending an analysis adds its entries, and repeats no resume when it is about new ones.
LEMMA AppendAnalysis ==
    ASSUME NEW q \in Seq(Step), NEW s \in Step, s.type = "analysis"
    PROVE  /\ EntriesIn(Append(q, s)) = EntriesIn(q) \cup s.entries
           /\ OnceIn(q) /\ IdsOf(EntriesIn(q)) \cap IdsOf(s.entries) = {}
                => OnceIn(Append(q, s))
<1>. DEFINE n == Len(q) + 1
<1>1. AnalysesIn(Append(q, s)) = AnalysesIn(q) \cup {n}
  BY DEF AnalysesIn
<1>2. (\A i \in AnalysesIn(q) : Append(q, s)[i] = q[i]) /\ Append(q, s)[n] = s
  BY DEF AnalysesIn
<1>3. EntriesIn(Append(q, s)) = EntriesIn(q) \cup s.entries
  BY <1>1, <1>2 DEF EntriesIn
<1>4. ASSUME OnceIn(q), IdsOf(EntriesIn(q)) \cap IdsOf(s.entries) = {}
      PROVE  OnceIn(Append(q, s))
  <2>1. \A i \in AnalysesIn(q) : IdsOf(q[i].entries) \subseteq IdsOf(EntriesIn(q))
    BY DEF EntriesIn, IdsOf
  <2>. QED
    BY <1>1, <1>2, <1>4, <2>1 DEF OnceIn
<1>. QED
  BY <1>3, <1>4

-----------------------------------------------------------------------------
(* Analysed once, ranked over all: the inductive invariant and its proof. *)

\* Between rounds the ledger's analyses are about seen resumes only, one entry each, and
\* what dedupe admitted is not among them: this is what the shortlist and the ledger
\* rest on.
RankInv ==
    /\ finalShortlist = retained
    /\ IsFiniteSet(Analysed)
    /\ \A d, e \in Analysed : d.id = e.id => d = e
    /\ IdsOf(Analysed) \subseteq seen
    /\ pc = "analyse" => IdsOf(Analysed) \cap admitted = {} /\ admitted \subseteq seen
    /\ AnalysedOnce
    /\ ShortlistIsTopOfAll

\* The ledger's operators as functions of the ledger.
LEMMA LedgerView ==
    /\ Analysed = EntriesIn(steps) /\ (AnalysedOnce <=> OnceIn(steps))
    /\ Analysed' = EntriesIn(steps') /\ (AnalysedOnce' <=> OnceIn(steps'))
BY DEF Analysed, StepsOf, AnalysedOnce, EntriesIn, AnalysesIn, OnceIn

LEMMA AnalysedTyped == TypeOK => Analysed \in SUBSET Entry
<1> SUFFICES ASSUME TypeOK, NEW i \in StepsOf("analysis")
             PROVE  steps[i].entries \subseteq Entry
  BY DEF Analysed
<1>1. steps[i] \in Step
  BY DEF TypeOK, StepsOf
<1>. QED
  BY <1>1 DEF Step

\* One round's analyses: finitely many, one per admitted resume.
LEMMA AnalysesFinite ==
    ASSUME TypeOK, NEW scores \in [admitted -> RawScores]
    PROVE  /\ IsFiniteSet(Analyses(scores))
           /\ IdsOf(Analyses(scores)) = admitted
           /\ \A d, e \in Analyses(scores) : d.id = e.id => d = e
<1>. DEFINE entry(r) == [id |-> r, score |-> Clamp(scores[r]), round |-> currentRound]
            f == [r \in admitted |-> entry(r)]
<1>1. IsFiniteSet(admitted)
  BY ResumesAssumption, FS_Subset DEF TypeOK
<1>2. f \in Surjection(admitted, Analyses(scores))
  BY DEF Analyses, Surjection
<1>3. IsFiniteSet(Analyses(scores))
  BY <1>1, <1>2, FS_Surjection
<1>4. \A r \in admitted : entry(r) \in Analyses(scores) /\ entry(r).id = r
  BY DEF Analyses
<1>5. \A d \in Analyses(scores) : d.id \in admitted /\ d = entry(d.id)
  BY DEF Analyses
<1>. HIDE DEF entry
<1>6. IdsOf(Analyses(scores)) = admitted
  BY <1>4, <1>5 DEF IdsOf
<1>. QED
  BY <1>3, <1>5, <1>6

LEMMA InitRankInv == Init => RankInv
<1> SUFFICES ASSUME Init
             PROVE  RankInv
  OBVIOUS
<1>1. Analysed = {} /\ StepsOf("analysis") = {}
  BY DEF Init, Analysed, StepsOf
<1>2. IsTop({}, {}, FinalTopK)
  BY FS_EmptySet, TopKAssumption DEF IsTop
<1>. QED
  BY <1>1, <1>2, FS_EmptySet
     DEF Init, RankInv, AnalysedOnce, ShortlistIsTopOfAll, IdsOf

\* A step that appends nothing but a step of another type, and touches neither the
\* shortlist nor what dedupe decides, keeps the invariant.
LEMMA OtherStepsKeepRankInv ==
    ASSUME TypeOK, RankInv,
           \/ UNCHANGED steps
           \/ \E s \in Step : s.type # "analysis" /\ steps' = Append(steps, s),
           UNCHANGED <<finalShortlist, retained, seen>>,
           pc' # "analyse"
    PROVE  RankInv'
<1>1. Analysed' = Analysed /\ AnalysedOnce'
  <2>1. CASE UNCHANGED steps
    BY <2>1, LedgerView DEF RankInv
  <2>2. CASE \E s \in Step : s.type # "analysis" /\ steps' = Append(steps, s)
    BY <2>2, AppendOther, LedgerView DEF RankInv, TypeOK
  <2>. QED
    BY <2>1, <2>2
<1>2. ShortlistIsTopOfAll'
  BY <1>1 DEF RankInv, ShortlistIsTopOfAll
<1>. QED
  BY <1>1, <1>2 DEF RankInv

LEMMA DedupeKeepsRankInv == TypeOK /\ RankInv /\ Dedupe => RankInv'
<1> SUFFICES ASSUME TypeOK, RankInv, Dedupe
             PROVE  RankInv'
  OBVIOUS
<1>1. NextStep("dedupe") \in Step /\ NextStep("dedupe").type # "analysis"
  BY StepsTyped DEF StepTypes, NextStep, BlankStep
<1>2. Analysed' = Analysed /\ AnalysedOnce'
  BY <1>1, AppendOther, LedgerView DEF Dedupe, RankInv, TypeOK
<1>3. /\ IdsOf(Analysed) \subseteq seen'
      /\ IdsOf(Analysed) \cap admitted' = {} /\ admitted' \subseteq seen'
  BY DEF Dedupe, SeenAfter, RankInv
<1>4. ShortlistIsTopOfAll' /\ finalShortlist' = retained'
  BY <1>2 DEF Dedupe, RankInv, ShortlistIsTopOfAll
<1>. QED
  BY <1>2, <1>3, <1>4 DEF RankInv

LEMMA AnalyseKeepsRankInv == TypeOK /\ RankInv /\ AnalyseAndRank => RankInv'
<1> SUFFICES ASSUME TypeOK, RankInv, AnalyseAndRank
             PROVE  RankInv'
  OBVIOUS
<1>1. PICK scores \in [admitted -> RawScores] :
           \E top \in SUBSET (retained \cup Analyses(scores)) : RankedWith(scores, top)
  BY DEF AnalyseAndRank, AnalyseWith, RankedWith
<1>2. PICK top \in SUBSET (retained \cup Analyses(scores)) : RankedWith(scores, top)
  BY <1>1
<1>. DEFINE new == Analyses(scores)
            s == [NextStep("analysis") EXCEPT !.entries = new]
            t == [SecondStep("shortlist") EXCEPT !.entries = top]
<1>3. Analysed \in SUBSET Entry /\ new \in SUBSET Entry /\ retained \in SUBSET Entry
  BY AnalysedTyped, AnalysesTyped DEF TypeOK
<1>4. IsFiniteSet(new) /\ IdsOf(new) = admitted /\ \A d, e \in new : d.id = e.id => d = e
  BY AnalysesFinite
<1>5. /\ s \in Step /\ s.type = "analysis" /\ s.entries = new
      /\ t \in Step /\ t.type # "analysis"
  BY <1>3, StepsTyped DEF Step, StepTypes, NextStep, SecondStep, BlankStep
<1>6. steps' = Append(Append(steps, s), t)
  BY <1>2 DEF RankedWith
<1>7. IdsOf(Analysed) \cap IdsOf(new) = {}
  BY <1>4 DEF AnalyseAndRank, AnalyseWith, RankInv
<1>8. Analysed' = Analysed \cup new /\ AnalysedOnce'
  <2>1. Append(steps, s) \in Seq(Step) /\ steps \in Seq(Step)
    BY <1>5 DEF TypeOK
  <2>2. /\ EntriesIn(Append(steps, s)) = Analysed \cup new
        /\ OnceIn(Append(steps, s))
    BY <1>5, <1>7, <2>1, AppendAnalysis, LedgerView DEF RankInv
  <2>. QED
    BY <1>5, <1>6, <2>1, <2>2, AppendOther, LedgerView
<1>9. IsFiniteSet(Analysed')
  BY <1>4, <1>8, FS_Union DEF RankInv
<1>10. \A d, e \in Analysed' : d.id = e.id => d = e
  BY <1>4, <1>7, <1>8 DEF RankInv, IdsOf
<1>11. ShortlistIsTopOfAll'
  <2>1. retained \subseteq Analysed
    BY DEF RankInv, ShortlistIsTopOfAll, IsTop
  <2>2. BestPerResume(retained \cup new) = retained \cup new
    BY <1>8, <1>10, <2>1, BestOfDistinct
  <2>3. IsTop(top, retained \cup new, FinalTopK)
    BY <1>2, <2>2 DEF RankedWith, RankCandidates
  <2>4. IsTop(retained, Analysed, FinalTopK)
    BY DEF RankInv, ShortlistIsTopOfAll
  <2>5. IsTop(top, Analysed \cup new, FinalTopK)
    BY <1>3, <1>4, <2>3, <2>4, TopOfMerge DEF RankInv
  <2>. QED
    BY <1>2, <1>8, <2>5 DEF RankedWith, ShortlistIsTopOfAll
<1>12. IdsOf(Analysed') \subseteq seen'
  BY <1>4, <1>8 DEF AnalyseAndRank, AnalyseWith, RankInv, IdsOf
<1>. QED
  BY <1>2, <1>8, <1>9, <1>10, <1>11, <1>12 DEF RankInv, RankedWith, AnalyseAndRank, AnalyseWith

LEMMA NextRankInv == TypeOK /\ RankInv /\ [Next]_vars => RankInv'
<1> SUFFICES ASSUME TypeOK, RankInv, [Next]_vars
             PROVE  RankInv'
  OBVIOUS
<1>1. \A type \in StepTypes : NextStep(type) \in Step /\ NextStep(type).type = type
  BY StepsTyped DEF NextStep, BlankStep
<1> USE DEF record, memory
<1>2. CASE MarkRunning
  BY <1>2, OtherStepsKeepRankInv DEF MarkRunning
<1>3. CASE ExtractStrategy
  BY <1>1, <1>3, OtherStepsKeepRankInv DEF ExtractStrategy, StepTypes
<1>4. CASE BeginRound
  BY <1>4, OtherStepsKeepRankInv DEF BeginRound
<1>5. SearchStep \in Step /\ SearchStep.type # "analysis"
  BY <1>1 DEF SearchStep, TypeOK, Step, StepTypes
<1>6. CASE SearchReturns
  BY <1>5, <1>6, OtherStepsKeepRankInv DEF SearchReturns
<1>7. CASE SearchReportsError
  BY <1>5, <1>7, OtherStepsKeepRankInv DEF SearchReportsError
<1>8. CASE Dedupe
  BY <1>8, DedupeKeepsRankInv
<1>9. CASE AnalyseAndRank
  BY <1>9, AnalyseKeepsRankInv
<1>10. \A why \in StopReasons \cup {"none"} :
          /\ [NextStep("stop") EXCEPT !.source = why] \in Step
          /\ [NextStep("stop") EXCEPT !.source = why].type # "analysis"
  BY <1>1 DEF Step, StepTypes
<1>11. CASE StopByRule
  <2>1. RuleStopReason \in StopReasons
    BY DEF RuleStopReason, StopReasons
  <2>. QED
    BY <1>10, <1>11, <2>1, OtherStepsKeepRankInv DEF StopByRule
<1>12. CASE Reflect
  <2>1. PICK wish \in BOOLEAN, next \in Strategies : ReflectWith(wish, next)
    BY <1>12 DEF Reflect
  <2>2. ReflectionStep(next) \in Step /\ ReflectionStep(next).type = "reflection"
    BY <1>1, ReflectionTyped
  <2>3. pc' # "analyse"
    BY <2>1 DEF ReflectWith
  <2>. QED
    BY <1>1, <2>1, <2>2, <2>3, OtherStepsKeepRankInv DEF ReflectWith
<1>13. CASE RecordStop
  <2>1. stopReason \in StopReasons \cup {"none"}
    BY DEF TypeOK
  <2>. QED
    BY <1>10, <1>13, <2>1, OtherStepsKeepRankInv DEF RecordStop
<1>14. CASE Finalize
  <2>1. finalShortlist' = finalShortlist
    BY <1>14 DEF Finalize, RankInv
  <2>. QED
    BY <1>1, <1>14, <2>1, OtherStepsKeepRankInv DEF Finalize, StepTypes
<1>15. CASE ActivityRaises
  BY <1>15, OtherStepsKeepRankInv DEF ActivityRaises
<1>16. CASE RecordFailure
  BY <1>16, OtherStepsKeepRankInv DEF RecordFailure
<1>17. CASE PublishTrace
  BY <1>17, OtherStepsKeepRankInv DEF PublishTrace
<1>18. CASE PublishFails
  BY <1>1, <1>18, OtherStepsKeepRankInv DEF PublishFails, StepTypes
<1>19. CASE UNCHANGED vars
  BY <1>19, LedgerView DEF vars, RankInv, ShortlistIsTopOfAll
<1>20. CASE StartRaises \/ FailureUnrecorded
  BY <1>20, OtherStepsKeepRankInv DEF StartRaises, FailureUnrecorded
<1>. QED
  BY <1>2, <1>3, <1>4, <1>6, <1>7, <1>8, <1>9, <1>11, <1>12, <1>13, <1>14, <1>15,
     <1>16, <1>17, <1>18, <1>19, <1>20 DEF Next, Closed

LEMMA RankInvariant == Spec => []RankInv
BY InitRankInv, NextRankInv, TypeCorrect, PTL DEF Spec

\* No resume is analysed twice in a run, however often CTS returns it.
THEOREM AnalysedOnceAlways == Spec => []AnalysedOnce
BY RankInvariant, PTL DEF RankInv

\* The shortlist of the row is always the best finalTopK of everything analysed so far.
THEOREM ShortlistAlwaysTop == Spec => []ShortlistIsTopOfAll
BY RankInvariant, PTL DEF RankInv


-----------------------------------------------------------------------------
(* A run that is over. *)

\* The row is finished exactly while the workflow has only its trace left to publish.
LEMMA FinishedPhase ==
    TypeOK /\ Phase => (finished <=> pc \in {"publish", "closed"})
<1> SUFFICES ASSUME TypeOK, Phase
             PROVE  finished <=> pc \in {"publish", "closed"}
  OBVIOUS
<1>1. finished <=> status \in {"completed", "failed"}
  BY DEF TypeOK
<1>2. pc \in TryBody \cup {"start", "failing", "publish", "closed", "escaped"}
  BY DEF TypeOK
<1>. QED
  BY <1>1, <1>2 DEF Phase

\* Neither the status nor the shortlist of a finished run ever changes again.
THEOREM FinishedIsFinal == Spec => TerminalIsFinal
<1>1. TypeOK /\ Phase /\ [Next]_vars
        => [finished => status' = status /\ finalShortlist' = finalShortlist]_vars
  <2> SUFFICES ASSUME TypeOK, Phase, [Next]_vars, finished
               PROVE  status' = status /\ finalShortlist' = finalShortlist
    OBVIOUS
  <2>1. pc \in {"publish", "closed"}
    BY FinishedPhase
  <2>2. PublishTrace \/ PublishFails \/ UNCHANGED vars
    BY <2>1 DEF Next, MarkRunning, ExtractStrategy, BeginRound, SearchReturns,
                SearchReportsError, Dedupe, AnalyseAndRank, AnalyseWith, StopByRule,
                Reflect, ReflectWith, RecordStop,
                Finalize, ActivityRaises, RecordFailure, StartRaises,
                FailureUnrecorded, Closed, TryBody
  <2>. QED
    BY <2>2 DEF PublishTrace, PublishFails, vars, record
<1>2. Spec => [](TypeOK /\ Phase)
  BY InitTyped, NextTyped, PTL DEF Spec
<1>. QED
  BY <1>1, <1>2, PTL DEF Spec, TerminalIsFinal

-----------------------------------------------------------------------------
(* The refinement. *)

\* The loop is left for finalize or stop only once the minimum round is reached.
MinRoundInv == pc \in {"stop", "finalize"} => currentRound >= EffectiveMinRounds

LEMMA NextMinRound ==
    TypeOK /\ MinRoundInv /\ [Next]_vars => MinRoundInv'
<1> SUFFICES ASSUME TypeOK, MinRoundInv, [Next]_vars
             PROVE  MinRoundInv'
  OBVIOUS
<1>1. EffectiveMinRounds' = EffectiveMinRounds
  BY DEF EffectiveMinRounds
<1>2. EffectiveMinRounds \in 3..MaxRounds /\ currentRound \in Nat
  BY MinRoundsInRange DEF TypeOK
<1>3. CASE StopByRule
  BY <1>1, <1>2, <1>3, RoundsAssumption DEF StopByRule, ShouldStopAfterRound, MinRoundInv
<1>4. CASE Reflect
  BY <1>1, <1>2, <1>4, RoundsAssumption
     DEF Reflect, ReflectWith, ContinueSearch, BlockedAsDuplicate, MinRoundInv
<1>5. CASE RecordStop
  BY <1>1, <1>5 DEF RecordStop, MinRoundInv
<1>6. CASE UNCHANGED vars
  BY <1>1, <1>6 DEF vars, record, MinRoundInv
<1>7. CASE \/ MarkRunning \/ ExtractStrategy \/ BeginRound \/ SearchReturns
           \/ SearchReportsError \/ Dedupe \/ AnalyseAndRank \/ Finalize
           \/ ActivityRaises \/ RecordFailure \/ PublishTrace \/ PublishFails
           \/ StartRaises \/ FailureUnrecorded
  BY <1>7 DEF MarkRunning, ExtractStrategy, BeginRound, SearchReturns, SearchReportsError,
              Dedupe, AnalyseAndRank, AnalyseWith, Finalize, ActivityRaises, RecordFailure,
              PublishTrace, PublishFails, StartRaises, FailureUnrecorded, MinRoundInv
<1>. QED
  BY <1>3, <1>4, <1>5, <1>6, <1>7 DEF Next, Closed

\* One or two appended steps extend a ledger.
LEMMA AppendExtends ==
    ASSUME steps \in Seq(Step), NEW s \in Step, NEW t \in Step
    PROVE  /\ Lifecycle!Extends(steps)
           /\ Lifecycle!Extends(Append(steps, s))
           /\ Lifecycle!Extends(Append(Append(steps, s), t))
BY DEF Lifecycle!Extends

\* What every step of the loop does to the ledger.
LEMMA LedgerExtends ==
    TypeOK /\ [Next]_vars => Lifecycle!Extends(steps')
<1> SUFFICES ASSUME TypeOK, [Next]_vars
             PROVE  Lifecycle!Extends(steps')
  OBVIOUS
<1> USE DEF record, memory
<1>1. steps \in Seq(Step)
  BY DEF TypeOK
<1>2. \A type \in StepTypes : NextStep(type) \in Step /\ SecondStep(type) \in Step
  BY StepsTyped
<1>3. CASE ExtractStrategy \/ Dedupe \/ Finalize \/ PublishFails
  BY <1>1, <1>2, <1>3, AppendExtends
     DEF ExtractStrategy, Dedupe, Finalize, PublishFails, StepTypes
<1>8. CASE Reflect
  <2>1. PICK wish \in BOOLEAN, next \in Strategies : ReflectWith(wish, next)
    BY <1>8 DEF Reflect
  <2>2. ReflectionStep(next) \in Step
    BY <2>1, ReflectionTyped
  <2>. QED
    BY <1>1, <2>1, <2>2, AppendExtends DEF ReflectWith
<1>4. CASE SearchReturns \/ SearchReportsError
  <2>1. SearchStep \in Step
    BY <1>2 DEF SearchStep, TypeOK, Step, StepTypes
  <2>. QED
    BY <1>1, <1>4, <2>1, AppendExtends DEF SearchReturns, SearchReportsError
<1>5. CASE StopByRule \/ RecordStop
  <2>1. \A why \in StopReasons \cup {"none"} :
           [NextStep("stop") EXCEPT !.source = why] \in Step
    BY <1>2 DEF Step, StepTypes
  <2>2. RuleStopReason \in StopReasons /\ stopReason \in StopReasons \cup {"none"}
    BY DEF RuleStopReason, StopReasons, TypeOK
  <2>. QED
    BY <1>1, <1>5, <2>1, <2>2, AppendExtends DEF StopByRule, RecordStop
<1>6. CASE AnalyseAndRank
  <2>1. PICK scores \in [admitted -> RawScores] :
             \E top \in SUBSET (retained \cup Analyses(scores)) : RankedWith(scores, top)
    BY <1>6 DEF AnalyseAndRank, AnalyseWith, RankedWith
  <2>2. PICK top \in SUBSET (retained \cup Analyses(scores)) : RankedWith(scores, top)
    BY <2>1
  <2>3. Analyses(scores) \in SUBSET Entry /\ top \in SUBSET Entry
    BY AnalysesTyped DEF TypeOK
  <2>4. /\ [NextStep("analysis") EXCEPT !.entries = Analyses(scores)] \in Step
        /\ [SecondStep("shortlist") EXCEPT !.entries = top] \in Step
    BY <1>2, <2>3 DEF Step, StepTypes
  <2>. QED
    BY <1>1, <2>2, <2>4, AppendExtends DEF RankedWith
<1>7. CASE \/ MarkRunning \/ BeginRound \/ ActivityRaises \/ RecordFailure
           \/ PublishTrace \/ StartRaises \/ FailureUnrecorded \/ UNCHANGED vars
  BY <1>1, <1>7 DEF MarkRunning, BeginRound, ActivityRaises, RecordFailure, PublishTrace,
                    StartRaises, FailureUnrecorded, vars, Lifecycle!Extends
<1>. QED
  BY <1>3, <1>4, <1>5, <1>6, <1>7, <1>8 DEF Next, Closed

\* Every step of the loop is a step of the lifecycle or leaves the row alone.
LEMMA NextRefines ==
    /\ TypeOK /\ Phase /\ RankInv /\ MinRoundInv /\ [Next]_vars
    => [Lifecycle!Next]_(Lifecycle!vars)
<1> SUFFICES ASSUME TypeOK, Phase, RankInv, MinRoundInv, [Next]_vars
             PROVE  Lifecycle!Next \/ UNCHANGED Lifecycle!vars
  OBVIOUS
<1> USE DEF record, memory
<1>1. Lifecycle!Extends(steps')
  BY LedgerExtends
<1>2. CASE MarkRunning
  BY <1>2 DEF MarkRunning, Phase, Lifecycle!Next, Lifecycle!Start
<1>3. CASE \/ ExtractStrategy \/ BeginRound \/ SearchReturns \/ SearchReportsError
           \/ Dedupe \/ AnalyseAndRank \/ StopByRule \/ Reflect \/ RecordStop
  <2>1. status = "running" /\ UNCHANGED <<status, finished, traced>>
    <3>1. pc \in TryBody => status = "running"
      BY DEF Phase, TryBody
    <3>2. CASE AnalyseAndRank
      BY <3>1, <3>2 DEF AnalyseAndRank, AnalyseWith, TryBody
    <3>3. CASE Reflect
      <4>1. pc = "judge" /\ UNCHANGED <<status, finished, traced>>
        BY <3>3 DEF Reflect, ReflectWith
      <4>. QED
        BY <3>1, <4>1 DEF TryBody
    <3>4. CASE \/ ExtractStrategy \/ BeginRound \/ SearchReturns \/ SearchReportsError
               \/ Dedupe \/ StopByRule \/ RecordStop
      <4>1. pc \in TryBody /\ UNCHANGED <<status, finished, traced>>
        BY <3>4 DEF ExtractStrategy, BeginRound, SearchReturns, SearchReportsError, Dedupe,
                    StopByRule, RecordStop, TryBody
      <4>. QED
        BY <3>1, <4>1 DEF TryBody
    <3>. QED
      BY <1>3, <3>2, <3>3, <3>4
  <2>2. currentRound' \in {currentRound, currentRound + 1} /\ currentRound' <= MaxRounds
    <3>1. currentRound \in 0..MaxRounds /\ MaxRounds \in Nat
      BY RoundsAssumption DEF TypeOK
    <3>2. CASE AnalyseAndRank
      BY <3>1, <3>2 DEF AnalyseAndRank, AnalyseWith
    <3>3. CASE Reflect
      <4>1. UNCHANGED currentRound
        BY <3>3 DEF Reflect, ReflectWith
      <4>. QED
        BY <3>1, <4>1
    <3>4. CASE \/ ExtractStrategy \/ BeginRound \/ SearchReturns \/ SearchReportsError
               \/ Dedupe \/ StopByRule \/ RecordStop
      BY <3>1, <3>4 DEF ExtractStrategy, BeginRound, SearchReturns, SearchReportsError,
                        Dedupe, StopByRule, RecordStop
    <3>. QED
      BY <1>3, <3>2, <3>3, <3>4
  <2>. QED
    BY <1>1, <2>1, <2>2 DEF Lifecycle!Next, Lifecycle!Progress
<1>4. CASE Finalize
  <2>1. status = "running" /\ currentRound >= EffectiveMinRounds
    BY <1>4 DEF Finalize, Phase, TryBody, MinRoundInv
  <2>. QED
    BY <1>1, <1>4, <2>1 DEF Finalize, RankInv, Lifecycle!Next, Lifecycle!Complete
<1>5. CASE RecordFailure
  BY <1>5 DEF RecordFailure, Phase, Lifecycle!Next, Lifecycle!Fail
<1>6. CASE PublishTrace \/ PublishFails
  BY <1>1, <1>6 DEF PublishTrace, PublishFails, Phase, Lifecycle!Next, Lifecycle!Annotate,
                    Lifecycle!Terminal
<1>7. CASE ActivityRaises \/ StartRaises \/ FailureUnrecorded \/ UNCHANGED vars
  BY <1>7 DEF ActivityRaises, StartRaises, FailureUnrecorded, vars, Lifecycle!vars
<1>. QED
  BY <1>2, <1>3, <1>4, <1>5, <1>6, <1>7 DEF Next, Closed

\* The row of a run keeps every promise of RunLifecycle: a terminal status is reached
\* once and from "running" only, a run completes at or past its minimum round, the
\* ledger only grows, and the shortlist is settled when the run is.
THEOREM LoopImplementsLifecycle == Spec => ImplementsLifecycle
<1>1. Init => Lifecycle!Init
  BY DEF Init, Lifecycle!Init
<1>2. Init => MinRoundInv
  BY DEF Init, MinRoundInv
<1>3. Spec => [](TypeOK /\ Phase)
  BY InitTyped, NextTyped, PTL DEF Spec
<1>4. Spec => []MinRoundInv
  BY <1>2, <1>3, NextMinRound, PTL DEF Spec
<1>. QED
  BY <1>1, <1>3, <1>4, RankInvariant, NextRefines, PTL
     DEF Spec, ImplementsLifecycle, Lifecycle!Spec

-----------------------------------------------------------------------------
(* The ledger.  It reads as a protocol: what the last step is determines   *)
(* where the workflow is.  And the stop rules are true of it: the counter  *)
(* noProgress and the signature the workflow keeps in memory say what the  *)
(* steps of the last two rounds say.                                       *)

ProtocolIn(q) ==
    /\ \A i \in DOMAIN q : q[i].no = i
    /\ \A i \in 1..(Len(q) - 1) : Follows(q[i], q[i + 1])

LastOf(q) == q[Len(q)]

LEMMA ProtocolView ==
    (LedgerIsAProtocol <=> ProtocolIn(steps)) /\ (LedgerIsAProtocol' <=> ProtocolIn(steps'))
BY DEF LedgerIsAProtocol, ProtocolIn

\* A step numbered next that may follow the last one keeps the protocol.
LEMMA AppendFollows ==
    ASSUME NEW q \in Seq(Step), ProtocolIn(q), NEW s \in Step, s.no = Len(q) + 1,
           q = <<>> \/ Follows(LastOf(q), s)
    PROVE  /\ ProtocolIn(Append(q, s))
           /\ Append(q, s) # <<>> /\ LastOf(Append(q, s)) = s
<1>. DEFINE r == Append(q, s)
<1>1. /\ Len(r) = Len(q) + 1 /\ DOMAIN r = 1..(Len(q) + 1) /\ DOMAIN q = 1..Len(q)
      /\ \A i \in 1..Len(q) : r[i] = q[i]
      /\ r[Len(q) + 1] = s
  OBVIOUS
<1>2. \A i \in DOMAIN r : r[i].no = i
  BY <1>1 DEF ProtocolIn
<1>3. ASSUME NEW i \in 1..(Len(r) - 1)
      PROVE  Follows(r[i], r[i + 1])
  <2>1. CASE i < Len(q)
    <3>1. i \in 1..(Len(q) - 1) /\ r[i] = q[i] /\ r[i + 1] = q[i + 1]
      BY <1>1, <2>1
    <3>. QED
      BY <3>1 DEF ProtocolIn
  <2>2. CASE i = Len(q)
    <3>1. q # <<>> /\ r[i] = LastOf(q) /\ r[i + 1] = s
      BY <1>1, <2>2 DEF LastOf
    <3>. QED
      BY <3>1
  <2>3. Len(q) \in Nat /\ i \in Nat /\ i <= Len(q)
    BY <1>1
  <2>. QED
    BY <2>1, <2>2, <2>3
<1>4. r # <<>> /\ LastOf(r) = s
  BY <1>1 DEF LastOf
<1>. QED
  BY <1>2, <1>3, <1>4 DEF ProtocolIn

-----------------------------------------------------------------------------
(* The inductive invariant. *)

LastIs(types, round) ==
    steps # <<>> /\ LastOf(steps).type \in types /\ LastOf(steps).round = round

\* Each control point with the step that leads to it.  Before a round begins and while
\* its search is under way the last step is of the round before.
LastStepInv ==
    /\ pc \in {"start", "extract"} => steps = <<>> /\ currentRound = 0
    /\ pc = "begin" =>
          /\ LastIs({"strategy", "reflection"}, currentRound)
          /\ LastOf(steps).type = "strategy" => currentRound = 0
    /\ pc = "search" =>
          /\ LastIs({"strategy", "reflection"}, currentRound - 1)
          /\ LastOf(steps).type = "strategy" => currentRound = 1
    /\ pc = "dedupe" => LastIs({"search"}, currentRound)
    /\ pc = "analyse" => LastIs({"dedupe"}, currentRound)
    /\ pc = "judge" => LastIs({"shortlist"}, currentRound)
    /\ pc = "stop" => LastIs({"reflection"}, currentRound)
    /\ pc = "finalize" => LastIs({"stop"}, currentRound)
    /\ pc \in {"failing", "publish"} =>
          steps = <<>> \/ LastOf(steps).round \in {currentRound - 1, currentRound}

LedgerInv == LedgerIsAProtocol /\ LastStepInv

LEMMA InitLedger == Init => LedgerInv
BY DEF Init, LedgerInv, LedgerIsAProtocol, LastStepInv, LastIs

LEMMA NextLedger == TypeOK /\ LedgerInv /\ [Next]_vars => LedgerInv'
<1> SUFFICES ASSUME TypeOK, LedgerInv, [Next]_vars
             PROVE  LedgerInv'
  OBVIOUS
<1>1. /\ steps \in Seq(Step) /\ ProtocolIn(steps)
      /\ currentRound \in Nat /\ MaxRounds \in Nat
  BY ProtocolView, RoundsAssumption DEF TypeOK, LedgerInv
<1>2. \A type \in StepTypes :
         /\ NextStep(type) \in Step /\ NextStep(type).type = type
         /\ NextStep(type).no = Len(steps) + 1 /\ NextStep(type).round = currentRound
  BY StepsTyped DEF NextStep, BlankStep
<1> USE DEF record, memory, LastIs
<1>3. CASE MarkRunning
  BY <1>3 DEF MarkRunning, LedgerInv, LedgerIsAProtocol, LastStepInv
<1>4. CASE ExtractStrategy
  <2>1. currentRound = 0 /\ steps = <<>>
    BY <1>4 DEF ExtractStrategy, LedgerInv, LastStepInv
  <2>2. /\ ProtocolIn(steps') /\ steps' # <<>>
        /\ LastOf(steps') = NextStep("strategy")
    BY <1>1, <1>2, <1>4, <2>1, AppendFollows DEF ExtractStrategy, StepTypes
  <2>. QED
    BY <1>2, <1>4, <2>1, <2>2, ProtocolView
       DEF ExtractStrategy, LedgerInv, LastStepInv, StepTypes
<1>5. CASE BeginRound
  BY <1>1, <1>5 DEF BeginRound, LedgerInv, LedgerIsAProtocol, LastStepInv
<1>6. CASE SearchReturns \/ SearchReportsError
  <2>1. /\ SearchStep \in Step /\ SearchStep.type = "search"
        /\ SearchStep.no = Len(steps) + 1 /\ SearchStep.round = currentRound
    BY <1>2 DEF SearchStep, TypeOK, Step, StepTypes
  <2>2. pc = "search" /\ steps' = Append(steps, SearchStep)
    BY <1>6 DEF SearchReturns, SearchReportsError
  <2>3. Follows(LastOf(steps), SearchStep)
    BY <1>1, <2>1, <2>2 DEF LedgerInv, LastStepInv, Follows
  <2>4. ProtocolIn(steps') /\ steps' # <<>> /\ LastOf(steps') = SearchStep
    BY <1>1, <2>1, <2>2, <2>3, AppendFollows
  <2>. QED
    BY <1>1, <1>6, <2>1, <2>4, ProtocolView
       DEF SearchReturns, SearchReportsError, LedgerInv, LastStepInv
<1>7. CASE Dedupe
  <2>1. Follows(LastOf(steps), NextStep("dedupe"))
    BY <1>2, <1>7 DEF Dedupe, LedgerInv, LastStepInv, Follows, StepTypes
  <2>2. ProtocolIn(steps') /\ steps' # <<>> /\ LastOf(steps') = NextStep("dedupe")
    BY <1>1, <1>2, <1>7, <2>1, AppendFollows DEF Dedupe, StepTypes
  <2>. QED
    BY <1>2, <1>7, <2>2, ProtocolView DEF Dedupe, LedgerInv, LastStepInv, StepTypes
<1>8. CASE AnalyseAndRank
  <2>1. PICK scores \in [admitted -> RawScores] :
             \E top \in SUBSET (retained \cup Analyses(scores)) : RankedWith(scores, top)
    BY <1>8 DEF AnalyseAndRank, AnalyseWith, RankedWith
  <2>2. PICK top \in SUBSET (retained \cup Analyses(scores)) : RankedWith(scores, top)
    BY <2>1
  <2>. DEFINE s == [NextStep("analysis") EXCEPT !.entries = Analyses(scores)]
              t == [SecondStep("shortlist") EXCEPT !.entries = top]
  <2>3. Analyses(scores) \in SUBSET Entry /\ top \in SUBSET Entry
    BY AnalysesTyped DEF TypeOK
  <2>4. /\ s \in Step /\ s.type = "analysis" /\ s.round = currentRound
        /\ s.no = Len(steps) + 1
    BY <1>2, <2>3 DEF Step, StepTypes
  <2>5. /\ t \in Step /\ t.type = "shortlist" /\ t.round = currentRound
        /\ t.no = Len(steps) + 2
    <3>1. SecondStep("shortlist") \in Step
      BY StepsTyped DEF StepTypes
    <3>. QED
      BY <2>3, <3>1 DEF Step, SecondStep, BlankStep
  <2>6. Follows(LastOf(steps), s) /\ Follows(s, t)
    BY <1>8, <2>4, <2>5 DEF AnalyseAndRank, AnalyseWith, LedgerInv, LastStepInv, Follows
  <2>. HIDE DEF s, t
  <2>7. /\ ProtocolIn(Append(steps, s)) /\ LastOf(Append(steps, s)) = s
        /\ Append(steps, s) \in Seq(Step) /\ Len(Append(steps, s)) = Len(steps) + 1
    BY <1>1, <2>4, <2>6, AppendFollows
  <2>8. steps' = Append(Append(steps, s), t)
    BY <2>2 DEF RankedWith, s, t
  <2>9. ProtocolIn(steps') /\ steps' # <<>> /\ LastOf(steps') = t
    <3>. DEFINE q == Append(steps, s)
    <3>1. /\ q \in Seq(Step) /\ ProtocolIn(q) /\ t.no = Len(q) + 1
          /\ Follows(LastOf(q), t)
      BY <1>1, <2>5, <2>6, <2>7
    <3>. HIDE DEF q
    <3>2. ProtocolIn(Append(q, t)) /\ Append(q, t) # <<>> /\ LastOf(Append(q, t)) = t
      BY <2>5, <3>1, AppendFollows
    <3>. QED
      BY <2>8, <3>2 DEF q
  <2>. QED
    BY <1>8, <2>5, <2>9, ProtocolView DEF AnalyseAndRank, AnalyseWith, LedgerInv, LastStepInv
<1>9. CASE StopByRule \/ RecordStop
  <2>1. PICK s \in Step : /\ s.type = "stop" /\ s.no = Len(steps) + 1
                          /\ s.round = currentRound /\ steps' = Append(steps, s)
    <3>1. RuleStopReason \in StopReasons /\ stopReason \in StopReasons \cup {"none"}
      BY DEF RuleStopReason, StopReasons, TypeOK
    <3>2. \A why \in StopReasons \cup {"none"} :
             /\ [NextStep("stop") EXCEPT !.source = why] \in Step
             /\ [NextStep("stop") EXCEPT !.source = why].type = "stop"
             /\ [NextStep("stop") EXCEPT !.source = why].no = Len(steps) + 1
             /\ [NextStep("stop") EXCEPT !.source = why].round = currentRound
      BY <1>2 DEF Step, StepTypes
    <3>. QED
      BY <1>9, <3>1, <3>2 DEF StopByRule, RecordStop
  <2>2. Follows(LastOf(steps), s)
    BY <1>9, <2>1 DEF StopByRule, RecordStop, LedgerInv, LastStepInv, Follows
  <2>3. ProtocolIn(steps') /\ steps' # <<>> /\ LastOf(steps') = s
    BY <1>1, <2>1, <2>2, AppendFollows
  <2>. QED
    BY <1>9, <2>1, <2>3, ProtocolView DEF StopByRule, RecordStop, LedgerInv, LastStepInv
<1>10. CASE Reflect
  <2>1. PICK wish \in BOOLEAN, next \in Strategies : ReflectWith(wish, next)
    BY <1>10 DEF Reflect
  <2>2. /\ ReflectionStep(next) \in Step /\ ReflectionStep(next).type = "reflection"
        /\ ReflectionStep(next).no = Len(steps) + 1
        /\ ReflectionStep(next).round = currentRound
    BY <1>1, ReflectionTyped
  <2>3. Follows(LastOf(steps), ReflectionStep(next))
    BY <2>1, <2>2 DEF ReflectWith, LedgerInv, LastStepInv, Follows
  <2>4. ProtocolIn(steps') /\ steps' # <<>> /\ LastOf(steps') = ReflectionStep(next)
    BY <1>1, <2>1, <2>2, <2>3, AppendFollows DEF ReflectWith
  <2>5. pc' \in {"stop", "begin"} /\ currentRound' = currentRound
    BY <2>1 DEF ReflectWith
  <2>. QED
    BY <2>2, <2>4, <2>5, ProtocolView DEF LedgerInv, LastStepInv
<1>11. CASE Finalize
  <2>1. Follows(LastOf(steps), NextStep("finalize"))
    BY <1>2, <1>11 DEF Finalize, LedgerInv, LastStepInv, Follows, StepTypes
  <2>2. ProtocolIn(steps') /\ steps' # <<>> /\ LastOf(steps') = NextStep("finalize")
    BY <1>1, <1>2, <1>11, <2>1, AppendFollows DEF Finalize, StepTypes
  <2>. QED
    BY <1>2, <1>11, <2>2, ProtocolView DEF Finalize, LedgerInv, LastStepInv, StepTypes
<1>12. CASE ActivityRaises
  BY <1>1, <1>12 DEF ActivityRaises, TryBody, LedgerInv, LedgerIsAProtocol, LastStepInv
<1>13. CASE RecordFailure
  BY <1>13 DEF RecordFailure, LedgerInv, LedgerIsAProtocol, LastStepInv
<1>14. CASE PublishTrace
  BY <1>14 DEF PublishTrace, LedgerInv, LedgerIsAProtocol, LastStepInv
<1>15. CASE PublishFails
  <2>. DEFINE s == NextStep("observability-warning")
  <2>1. s \in Step /\ s.type = "observability-warning" /\ s.no = Len(steps) + 1
        /\ s.round = currentRound
    BY <1>2 DEF StepTypes
  <2>2. steps = <<>> \/ Follows(LastOf(steps), s)
    <3>1. ASSUME steps # <<>> PROVE LastOf(steps).round \in Nat
      <4>1. LastOf(steps) \in Step
        BY <1>1, <3>1 DEF LastOf
      <4>. QED
        BY <1>1, <4>1 DEF Step
    <3>. QED
      BY <1>1, <1>15, <2>1, <3>1 DEF PublishFails, LedgerInv, LastStepInv, Follows
  <2>. HIDE DEF s
  <2>3. ProtocolIn(Append(steps, s))
    BY <1>1, <2>1, <2>2, AppendFollows
  <2>4. ProtocolIn(steps') /\ pc' = "closed"
    BY <1>1, <1>15, <2>3 DEF PublishFails, s
  <2>. QED
    BY <2>4, ProtocolView DEF LedgerInv, LastStepInv
<1>16. CASE UNCHANGED vars
  BY <1>16 DEF vars, LedgerInv, LedgerIsAProtocol, LastStepInv
<1>17. CASE StartRaises \/ FailureUnrecorded
  BY <1>17 DEF StartRaises, FailureUnrecorded, LedgerInv, LedgerIsAProtocol, LastStepInv
<1>. QED
  BY <1>3, <1>4, <1>5, <1>6, <1>7, <1>8, <1>9, <1>10, <1>11, <1>12, <1>13, <1>14,
     <1>15, <1>16, <1>17 DEF Next, Closed

\* Whatever fails and whenever: steps are numbered without a gap, rounds succeed one
\* another, and every step is one the loop may take after the step before it.
THEOREM LedgerAlwaysAProtocol == Spec => []LedgerIsAProtocol
<1>1. Spec => []LedgerInv
  BY InitLedger, NextLedger, TypeCorrect, PTL DEF Spec
<1>. QED
  BY <1>1, PTL DEF LedgerInv

-----------------------------------------------------------------------------
(* The step of a type that a ledger q has once in a round. *)

OncePerRound == {"search", "analysis", "shortlist"}

IsStep(s, type, r) == s.type = type /\ s.round = r

Once(q, type, r) ==
    \E i \in DOMAIN q : /\ IsStep(q[i], type, r)
                        /\ \A j \in DOMAIN q : IsStep(q[j], type, r) => j = i

Of(q, type, r) == q[CHOOSE i \in {j \in DOMAIN q : q[j].type = type} : q[i].round = r]

\* A step of one of the three types is the first of its type in its round.
Fresh(q, s) ==
    s.type \in OncePerRound => \A i \in DOMAIN q : ~IsStep(q[i], s.type, s.round)

LEMMA OfTheOne ==
    ASSUME NEW q, NEW type, NEW r, NEW i \in DOMAIN q, IsStep(q[i], type, r),
           \A j \in DOMAIN q : IsStep(q[j], type, r) => j = i
    PROVE  Of(q, type, r) = q[i]
BY DEF Of, IsStep

\* Appending a fresh step leaves the steps there were once where they were.
LEMMA AppendKeepsOnce ==
    ASSUME NEW q \in Seq(Step), NEW s \in Step, Fresh(q, s),
           NEW type \in OncePerRound, NEW r, Once(q, type, r)
    PROVE  Once(Append(q, s), type, r) /\ Of(Append(q, s), type, r) = Of(q, type, r)
<1> DEFINE a == Append(q, s)
<1>1. /\ DOMAIN a = 1..(Len(q) + 1) /\ DOMAIN q = 1..Len(q) /\ Len(q) \in Nat
      /\ \A i \in 1..Len(q) : a[i] = q[i]
      /\ a[Len(q) + 1] = s
  OBVIOUS
<1>2. PICK i \in DOMAIN q : /\ IsStep(q[i], type, r)
                            /\ \A j \in DOMAIN q : IsStep(q[j], type, r) => j = i
  BY DEF Once
<1> HIDE DEF a
<1>3. ~IsStep(s, type, r)
  BY <1>2 DEF Fresh, IsStep
<1>4. \A j \in DOMAIN a : j \in DOMAIN q \/ a[j] = s
  BY <1>1
<1>5. i \in DOMAIN a /\ IsStep(a[i], type, r)
  BY <1>1, <1>2
<1>6. \A j \in DOMAIN a : IsStep(a[j], type, r) => j = i
  BY <1>1, <1>2, <1>3, <1>4
<1>7. Of(a, type, r) = a[i] /\ Of(q, type, r) = q[i]
  BY <1>2, <1>5, <1>6, OfTheOne
<1>. QED
  BY <1>1, <1>2, <1>5, <1>6, <1>7 DEF Once, a

\* The appended step is the one of its round.
LEMMA AppendIsOnce ==
    ASSUME NEW q \in Seq(Step), NEW s \in Step, Fresh(q, s), s.type \in OncePerRound
    PROVE  /\ Once(Append(q, s), s.type, s.round)
           /\ Of(Append(q, s), s.type, s.round) = s
<1> DEFINE a == Append(q, s)
           n == Len(q) + 1
<1>1. /\ DOMAIN a = 1..n /\ DOMAIN q = 1..Len(q) /\ Len(q) \in Nat /\ n \in DOMAIN a
      /\ \A i \in 1..Len(q) : a[i] = q[i]
      /\ a[n] = s
  OBVIOUS
<1> HIDE DEF a
<1>2. \A j \in DOMAIN a : j # n => j \in DOMAIN q /\ a[j] = q[j]
  BY <1>1
<1> HIDE DEF n
<1>3. IsStep(a[n], s.type, s.round)
  BY <1>1 DEF IsStep
<1>4. \A j \in DOMAIN a : IsStep(a[j], s.type, s.round) => j = n
  BY <1>2 DEF Fresh
<1>5. Of(a, s.type, s.round) = a[n]
  BY <1>1, <1>3, <1>4, OfTheOne
<1>. QED
  BY <1>1, <1>3, <1>4, <1>5 DEF Once, a

-----------------------------------------------------------------------------
(* What a ledger says of its rounds. *)

Complete(q, r) == Once(q, "analysis", r) /\ Once(q, "shortlist", r)

IdsShown(q, r) == IdsOf(Of(q, "shortlist", r).entries)

FruitlessIn(q, r) ==
    \/ Of(q, "analysis", r).entries = {}
    \/ IdsShown(q, r) = (IF r = 1 THEN {} ELSE IdsShown(q, r - 1))

LEMMA FruitlessView == \A r : Fruitless(r) <=> FruitlessIn(steps, r)
BY DEF Fruitless, FruitlessIn, RoundStep, StepsOf, Of, IdsShown

\* The rounds up to n are complete.
Rounds(q, n) == \A r \in 1..n : Complete(q, r)

\* Appending a fresh step keeps what is said of complete rounds.
LEMMA AppendKeepsRounds ==
    ASSUME NEW q \in Seq(Step), NEW s \in Step, Fresh(q, s), NEW n \in Nat, Rounds(q, n)
    PROVE  /\ Rounds(Append(q, s), n)
           /\ \A r \in 1..n : /\ FruitlessIn(Append(q, s), r) <=> FruitlessIn(q, r)
                              /\ IdsShown(Append(q, s), r) = IdsShown(q, r)
<1>1. \A r \in 1..n : /\ Complete(Append(q, s), r)
                      /\ Of(Append(q, s), "analysis", r) = Of(q, "analysis", r)
                      /\ Of(Append(q, s), "shortlist", r) = Of(q, "shortlist", r)
  BY AppendKeepsOnce DEF Rounds, Complete, OncePerRound
<1>2. \A r \in 1..n : r # 1 => r - 1 \in 1..n
  OBVIOUS
<1>3. \A r \in 1..n : IdsShown(Append(q, s), r) = IdsShown(q, r)
  BY <1>1 DEF IdsShown
<1>. QED
  BY <1>1, <1>2, <1>3 DEF Rounds, FruitlessIn

\* A stop step that is true of the ledger, and a search that no rule forbade.
Justified(q, s) ==
    /\ s.round \in EffectiveMinRounds..MaxRounds
    /\ Rounds(q, s.round)
    /\ s.source = "max-rounds" => s.round = MaxRounds
    /\ s.source = "no-progress" => FruitlessIn(q, s.round) /\ FruitlessIn(q, s.round - 1)
    /\ s.source = "duplicate-strategy" => FruitlessIn(q, s.round) /\ s.round < MaxRounds

MayGoOn(q, r, query) ==
    /\ Rounds(q, r) /\ Once(q, "search", r)
    /\ ~(FruitlessIn(q, r) /\ FruitlessIn(q, r - 1))
    /\ ~(FruitlessIn(q, r) /\ query = Of(q, "search", r).query)

LedgerJustified(q) ==
    \A i \in DOMAIN q :
        /\ q[i].type = "stop" => Justified(q, q[i])
        /\ q[i].type = "search" /\ q[i].round - 1 >= EffectiveMinRounds =>
              MayGoOn(q, q[i].round - 1, q[i].query)

LEMMA LedgerJustifiedSuffices ==
    LedgerJustified(steps) => StopIsJustified /\ NoRoundAfterStopCondition
<1> SUFFICES ASSUME LedgerJustified(steps) PROVE StopIsJustified /\ NoRoundAfterStopCondition
  OBVIOUS
<1>1. StopIsJustified
  <2> SUFFICES ASSUME NEW i \in StepsOf("stop")
               PROVE  LET r == steps[i].round IN
                      /\ r >= EffectiveMinRounds
                      /\ steps[i].source = "max-rounds" => r = MaxRounds
                      /\ steps[i].source = "no-progress" => Fruitless(r) /\ Fruitless(r - 1)
                      /\ steps[i].source = "duplicate-strategy" =>
                            Fruitless(r) /\ r < MaxRounds
    BY DEF StopIsJustified
  <2>1. Justified(steps, steps[i])
    BY DEF StepsOf, LedgerJustified
  <2>2. EffectiveMinRounds \in Int /\ MaxRounds \in Int
    BY MinRoundsInRange, RoundsAssumption
  <2>. QED
    BY <2>1, <2>2, FruitlessView DEF Justified
<1>2. NoRoundAfterStopCondition
  <2> SUFFICES ASSUME NEW i \in StepsOf("search"), steps[i].round - 1 >= EffectiveMinRounds
               PROVE  LET r == steps[i].round - 1 IN
                      /\ ~(Fruitless(r) /\ Fruitless(r - 1))
                      /\ ~(/\ Fruitless(r)
                           /\ steps[i].query = steps[RoundStep("search", r)].query)
    BY DEF NoRoundAfterStopCondition
  <2>1. MayGoOn(steps, steps[i].round - 1, steps[i].query)
    BY DEF StepsOf, LedgerJustified
  <2>2. \A r : steps[RoundStep("search", r)] = Of(steps, "search", r)
    BY DEF RoundStep, StepsOf, Of
  <2>. QED
    BY <2>1, <2>2, FruitlessView DEF MayGoOn
<1>. QED
  BY <1>1, <1>2

LEMMA RoundTyped == \A s \in Step : s.round \in Int
BY RoundsAssumption DEF Step

\* What was true of the ledger when a step was appended stays true of it.
LEMMA AppendKeepsStop ==
    ASSUME NEW q \in Seq(Step), NEW s \in Step, Fresh(q, s), NEW t \in Step, Justified(q, t)
    PROVE  Justified(Append(q, s), t)
<1>1. EffectiveMinRounds \in Int /\ EffectiveMinRounds >= 3 /\ MaxRounds \in Int
  BY MinRoundsInRange, RoundsAssumption
<1>2. t.round \in Nat /\ t.round >= 3
  BY <1>1 DEF Justified
<1>3. t.round \in 1..t.round /\ t.round - 1 \in 1..t.round
  BY <1>2
<1>4. Rounds(q, t.round)
  BY DEF Justified
<1>5. /\ Rounds(Append(q, s), t.round)
      /\ FruitlessIn(Append(q, s), t.round) <=> FruitlessIn(q, t.round)
      /\ FruitlessIn(Append(q, s), t.round - 1) <=> FruitlessIn(q, t.round - 1)
  BY <1>2, <1>3, <1>4, AppendKeepsRounds
<1>. QED
  BY <1>5 DEF Justified

LEMMA AppendKeepsSearch ==
    ASSUME NEW q \in Seq(Step), NEW s \in Step, Fresh(q, s),
           NEW r \in Int, r >= EffectiveMinRounds, NEW query, MayGoOn(q, r, query)
    PROVE  MayGoOn(Append(q, s), r, query)
<1>1. EffectiveMinRounds \in Int /\ EffectiveMinRounds >= 3
  BY MinRoundsInRange, RoundsAssumption
<1>2. r \in Nat /\ r \in 1..r /\ r - 1 \in 1..r
  BY <1>1
<1>3. /\ Rounds(Append(q, s), r)
      /\ FruitlessIn(Append(q, s), r) <=> FruitlessIn(q, r)
      /\ FruitlessIn(Append(q, s), r - 1) <=> FruitlessIn(q, r - 1)
  BY <1>2, AppendKeepsRounds DEF MayGoOn
<1>4. Once(Append(q, s), "search", r) /\ Of(Append(q, s), "search", r) = Of(q, "search", r)
  BY AppendKeepsOnce DEF MayGoOn, OncePerRound
<1>. QED
  BY <1>3, <1>4 DEF MayGoOn

LEMMA AppendKeepsJustified ==
    ASSUME NEW q \in Seq(Step), NEW s \in Step, Fresh(q, s), LedgerJustified(q),
           s.type = "stop" => Justified(q, s),
           s.type = "search" /\ s.round - 1 >= EffectiveMinRounds =>
               MayGoOn(q, s.round - 1, s.query)
    PROVE  LedgerJustified(Append(q, s))
<1> DEFINE a == Append(q, s)
<1> SUFFICES ASSUME NEW i \in DOMAIN a
             PROVE  /\ a[i].type = "stop" => Justified(a, a[i])
                    /\ a[i].type = "search" /\ a[i].round - 1 >= EffectiveMinRounds =>
                          MayGoOn(a, a[i].round - 1, a[i].query)
  BY DEF LedgerJustified
<1>1. \/ i \in DOMAIN q /\ a[i] = q[i]
      \/ a[i] = s
  OBVIOUS
<1>2. a[i] \in Step /\ a[i].round - 1 \in Int
  <2>1. a[i] \in Step
    BY <1>1
  <2>. HIDE DEF a
  <2>. QED
    BY <2>1, RoundTyped
<1>3. /\ a[i].type = "stop" => Justified(q, a[i])
      /\ a[i].type = "search" /\ a[i].round - 1 >= EffectiveMinRounds =>
            MayGoOn(q, a[i].round - 1, a[i].query)
  BY <1>1 DEF LedgerJustified
<1>4. \A t \in Step : Justified(q, t) => Justified(a, t)
  BY AppendKeepsStop
<1>5. \A r \in Int : \A query :
         r >= EffectiveMinRounds /\ MayGoOn(q, r, query) => MayGoOn(a, r, query)
  BY AppendKeepsSearch
<1> HIDE DEF a
<1>. QED
  BY <1>2, <1>3, <1>4, <1>5

-----------------------------------------------------------------------------
(* What the workflow's memory says of the ledger. *)

\* The ledger q holds n complete rounds and nothing of a later one but searches, up to
\* round m; the counter and the signature are those of round n.
Tells(q, n, m, count, signature) ==
    /\ Rounds(q, n)
    /\ \A i \in DOMAIN q : q[i].type \in {"analysis", "shortlist"} => q[i].round <= n
    /\ \A i \in DOMAIN q : q[i].type = "search" => q[i].round <= m
    /\ count >= 1 <=> n >= 1 /\ FruitlessIn(q, n)
    /\ count >= 2 <=> n >= 2 /\ FruitlessIn(q, n) /\ FruitlessIn(q, n - 1)
    /\ signature = IF n = 0 THEN {} ELSE IdsShown(q, n)

LEMMA FreshByType ==
    ASSUME NEW q, NEW s, s.type \notin OncePerRound
    PROVE  Fresh(q, s)
BY DEF Fresh

\* Other steps do not matter.
LEMMA AppendOtherTells ==
    ASSUME NEW q \in Seq(Step), NEW s \in Step, s.type \notin OncePerRound,
           NEW n \in Nat, NEW m, NEW count, NEW signature, Tells(q, n, m, count, signature)
    PROVE  Tells(Append(q, s), n, m, count, signature)
<1> DEFINE a == Append(q, s)
<1>1. Fresh(q, s)
  BY FreshByType
<1>2. /\ Rounds(a, n)
      /\ \A r \in 1..n : /\ FruitlessIn(a, r) <=> FruitlessIn(q, r)
                         /\ IdsShown(a, r) = IdsShown(q, r)
  BY <1>1, AppendKeepsRounds DEF Tells
<1>3. \A i \in DOMAIN a : (i \in DOMAIN q /\ a[i] = q[i]) \/ a[i] = s
  OBVIOUS
<1> HIDE DEF a
<1>4. \A i \in DOMAIN a : a[i].type \in {"analysis", "shortlist"} => a[i].round <= n
  BY <1>3 DEF Tells, OncePerRound
<1>5. \A i \in DOMAIN a : a[i].type = "search" => a[i].round <= m
  BY <1>3 DEF Tells, OncePerRound
<1>6. (n >= 1 => n \in 1..n) /\ (n >= 2 => n - 1 \in 1..n) /\ (n # 0 => n \in 1..n)
  OBVIOUS
<1>. QED
  BY <1>2, <1>4, <1>5, <1>6 DEF Tells, a

\* A search begins round n + 1.
LEMMA AppendSearchTells ==
    ASSUME NEW q \in Seq(Step), NEW s \in Step, NEW n \in Nat,
           s.type = "search", s.round = n + 1,
           NEW count, NEW signature, Tells(q, n, n, count, signature)
    PROVE  Fresh(q, s) /\ Tells(Append(q, s), n, n + 1, count, signature)
<1> DEFINE a == Append(q, s)
<1>1. \A i \in DOMAIN q : q[i].round \in Int
  BY RoundTyped
<1>2. Fresh(q, s)
  BY <1>1 DEF Tells, Fresh, IsStep
<1>3. /\ Rounds(a, n)
      /\ \A r \in 1..n : /\ FruitlessIn(a, r) <=> FruitlessIn(q, r)
                         /\ IdsShown(a, r) = IdsShown(q, r)
  BY <1>2, AppendKeepsRounds DEF Tells
<1>4. \A i \in DOMAIN a : (i \in DOMAIN q /\ a[i] = q[i]) \/ a[i] = s
  OBVIOUS
<1> HIDE DEF a
<1>5. \A i \in DOMAIN a : a[i].type \in {"analysis", "shortlist"} => a[i].round <= n
  BY <1>4 DEF Tells
<1>6. \A i \in DOMAIN a : a[i].type = "search" => a[i].round <= n + 1
  BY <1>1, <1>4 DEF Tells
<1>7. (n >= 1 => n \in 1..n) /\ (n >= 2 => n - 1 \in 1..n) /\ (n # 0 => n \in 1..n)
  OBVIOUS
<1>8. Tells(a, n, n + 1, count, signature)
  BY <1>3, <1>5, <1>6, <1>7 DEF Tells
<1>. QED
  BY <1>2, <1>8 DEF a

\* The analysis and the shortlist of round n + 1 complete it, and the counter counts it.
LEMMA AppendRoundTells ==
    ASSUME NEW q \in Seq(Step), NEW n \in Nat, NEW m, NEW count \in Nat, NEW signature,
           Tells(q, n, m, count, signature),
           NEW s \in Step, s.type = "analysis", s.round = n + 1,
           NEW t \in Step, t.type = "shortlist", t.round = n + 1,
           NEW fruitless \in BOOLEAN,
           fruitless <=> s.entries = {} \/ IdsOf(t.entries) = signature
    PROVE  /\ Fresh(q, s) /\ Fresh(Append(q, s), t)
           /\ Tells(Append(Append(q, s), t), n + 1, m,
                    IF fruitless THEN count + 1 ELSE 0, IdsOf(t.entries))
<1> DEFINE a == Append(q, s)
           b == Append(a, t)
<1>1. \A i \in DOMAIN q : q[i].round \in Int
  BY RoundTyped
<1>2. a \in Seq(Step) /\ \A i \in DOMAIN a : (i \in DOMAIN q /\ a[i] = q[i]) \/ a[i] = s
  OBVIOUS
<1>3. \A i \in DOMAIN b : (i \in DOMAIN a /\ b[i] = a[i]) \/ b[i] = t
  <2>. HIDE DEF a
  <2>. QED
    BY <1>2
<1>4. Fresh(q, s)
  BY <1>1 DEF Tells, Fresh, IsStep
<1>5. /\ Once(a, "analysis", n + 1) /\ Of(a, "analysis", n + 1) = s
      /\ Rounds(a, n) /\ \A r \in 1..n : /\ FruitlessIn(a, r) <=> FruitlessIn(q, r)
                                         /\ IdsShown(a, r) = IdsShown(q, r)
  BY <1>4, AppendIsOnce, AppendKeepsRounds DEF Tells, OncePerRound
<1> HIDE DEF a
<1>6. Fresh(a, t)
  BY <1>1, <1>2 DEF Tells, Fresh, IsStep
<1>7. /\ Once(b, "shortlist", n + 1) /\ Of(b, "shortlist", n + 1) = t
      /\ Once(b, "analysis", n + 1) /\ Of(b, "analysis", n + 1) = s
      /\ Rounds(b, n) /\ \A r \in 1..n : /\ FruitlessIn(b, r) <=> FruitlessIn(q, r)
                                         /\ IdsShown(b, r) = IdsShown(q, r)
  BY <1>2, <1>5, <1>6, AppendIsOnce, AppendKeepsOnce, AppendKeepsRounds DEF OncePerRound
<1> HIDE DEF b
<1>8. Rounds(b, n + 1)
  <2>1. \A r \in 1..(n + 1) : r \in 1..n \/ r = n + 1
    OBVIOUS
  <2>. QED
    BY <1>7, <2>1 DEF Rounds, Complete
<1>9. IdsShown(b, n + 1) = IdsOf(t.entries)
  BY <1>7 DEF IdsShown
<1>10. FruitlessIn(b, n + 1) <=> fruitless
  <2>1. CASE n = 0
    BY <1>7, <1>9, <2>1 DEF FruitlessIn, Tells
  <2>2. CASE n # 0
    <3>1. n \in 1..n /\ n + 1 # 1 /\ n + 1 - 1 = n
      BY <2>2
    <3>2. IdsShown(b, n) = signature
      BY <1>7, <2>2, <3>1 DEF Tells
    <3>. QED
      BY <1>7, <1>9, <3>1, <3>2 DEF FruitlessIn
  <2>. QED
    BY <2>1, <2>2
<1>11. n >= 1 => (FruitlessIn(b, n) <=> count >= 1)
  <2>1. n >= 1 => n \in 1..n
    OBVIOUS
  <2>. QED
    BY <1>7, <2>1 DEF Tells
<1>12. n = 0 => count = 0
  BY DEF Tells
<1> DEFINE counted == IF fruitless THEN count + 1 ELSE 0
<1>13. counted >= 1 <=> fruitless
  OBVIOUS
<1>14. counted >= 2 <=> n >= 1 /\ fruitless /\ FruitlessIn(b, n)
  BY <1>11, <1>12
<1>15. \A i \in DOMAIN b : b[i].type \in {"analysis", "shortlist"} => b[i].round <= n + 1
  <2>1. \A i \in DOMAIN a : a[i].type \in {"analysis", "shortlist"} => a[i].round <= n + 1
    BY <1>1, <1>2 DEF Tells
  <2>. QED
    BY <1>3, <2>1
<1>16. \A i \in DOMAIN b : b[i].type = "search" => b[i].round <= m
  BY <1>2, <1>3 DEF Tells
<1> HIDE DEF counted
<1>17. n + 1 >= 1 /\ (n + 1 >= 2 <=> n >= 1) /\ n + 1 - 1 = n /\ n + 1 # 0
  OBVIOUS
<1>18. Tells(b, n + 1, m, counted, IdsOf(t.entries))
  BY <1>8, <1>9, <1>10, <1>13, <1>14, <1>15, <1>16, <1>17 DEF Tells
<1>. QED
  BY <1>4, <1>6, <1>18 DEF a, b, counted

-----------------------------------------------------------------------------
(* The inductive invariant. *)

InLoop == {"start", "extract", "begin", "search", "dedupe", "analyse", "judge", "stop"}

Reached == IF pc \in {"search", "dedupe", "analyse"} THEN currentRound - 1 ELSE currentRound
Searched == IF pc = "search" THEN currentRound - 1 ELSE currentRound

StopInv ==
    /\ LedgerJustified(steps)
    /\ pc \in {"start", "extract"} => steps = <<>> /\ currentRound = 0
    /\ pc \in InLoop =>
          Reached \in Nat /\ Tells(steps, Reached, Searched, noProgress, previousSignature)
    /\ pc \in {"dedupe", "analyse", "judge"} =>
          Once(steps, "search", currentRound)
          /\ Of(steps, "search", currentRound).query = strategy
    /\ pc \in {"begin", "search"} /\ Reached >= EffectiveMinRounds =>
          MayGoOn(steps, Reached, strategy)
    /\ pc = "stop" =>
          /\ currentRound \in EffectiveMinRounds..MaxRounds
          /\ stopReason = "reflection"
             \/ /\ stopReason = "duplicate-strategy"
                /\ FruitlessIn(steps, currentRound) /\ currentRound < MaxRounds

LEMMA InitStop == Init => StopInv
<1> SUFFICES ASSUME Init PROVE StopInv
  OBVIOUS
<1>1. /\ steps = <<>> /\ pc = "start" /\ currentRound = 0 /\ noProgress = 0
      /\ previousSignature = {}
  BY DEF Init
<1>2. EffectiveMinRounds >= 3
  BY MinRoundsInRange, RoundsAssumption
<1>3. LedgerJustified(steps)
  BY <1>1 DEF LedgerJustified
<1>4. Reached = 0 /\ Searched = 0
  BY <1>1 DEF Reached, Searched
<1>5. Tells(steps, 0, 0, noProgress, previousSignature)
  BY <1>1 DEF Tells, Rounds
<1>. QED
  BY <1>1, <1>2, <1>3, <1>4, <1>5 DEF StopInv

\* A step of another type that leaves the counters alone.
LEMMA OtherStepStop ==
    ASSUME TypeOK, StopInv, NEW s \in Step, s.type \notin OncePerRound,
           steps' = Append(steps, s),
           s.type = "stop" => Justified(steps, s)
    PROVE  /\ LedgerJustified(steps')
           /\ \A n \in Nat : \A m, count, signature :
                 Tells(steps, n, m, count, signature) => Tells(steps', n, m, count, signature)
           /\ \A r : Once(steps, "search", r) =>
                 /\ Once(steps', "search", r)
                 /\ Of(steps', "search", r) = Of(steps, "search", r)
<1>1. steps \in Seq(Step) /\ Fresh(steps, s)
  BY FreshByType DEF TypeOK
<1>2. LedgerJustified(steps')
  BY <1>1, AppendKeepsJustified DEF StopInv, OncePerRound
<1>3. \A n \in Nat : \A m, count, signature :
         Tells(steps, n, m, count, signature) => Tells(steps', n, m, count, signature)
  BY <1>1, AppendOtherTells
<1>4. \A r : Once(steps, "search", r) =>
         Once(steps', "search", r) /\ Of(steps', "search", r) = Of(steps, "search", r)
  BY <1>1, AppendKeepsOnce DEF OncePerRound
<1>. QED
  BY <1>2, <1>3, <1>4

LEMMA NextStop == TypeOK /\ StopInv /\ [Next]_vars => StopInv'
<1> SUFFICES ASSUME TypeOK, StopInv, [Next]_vars PROVE StopInv'
  OBVIOUS
<1>1. /\ steps \in Seq(Step) /\ currentRound \in 0..MaxRounds /\ noProgress \in Nat
      /\ LedgerJustified(steps)
  BY DEF TypeOK, StopInv
<1>2. /\ EffectiveMinRounds \in Int /\ EffectiveMinRounds >= 3 /\ MaxRounds \in Nat
      /\ EffectiveMinRounds' = EffectiveMinRounds
  BY MinRoundsInRange, RoundsAssumption DEF EffectiveMinRounds
<1>3. \A type \in StepTypes : NextStep(type) \in Step /\ NextStep(type).type = type
                              /\ NextStep(type).round = currentRound
  BY StepsTyped DEF NextStep, BlankStep
<1> USE DEF record, memory
<1>4. CASE MarkRunning
  <2>1. /\ pc = "start" /\ pc' = "extract"
        /\ UNCHANGED <<steps, currentRound, noProgress, previousSignature>>
    BY <1>4 DEF MarkRunning
  <2>. QED
    BY <2>1 DEF StopInv, Reached, Searched, InLoop
<1>5. CASE ExtractStrategy
  <2>1. /\ steps' = Append(steps, NextStep("strategy")) /\ pc = "extract" /\ pc' = "begin"
        /\ UNCHANGED <<currentRound, noProgress, previousSignature>>
    BY <1>5 DEF ExtractStrategy
  <2>2. /\ LedgerJustified(steps')
        /\ \A n \in Nat : \A m, count, signature :
              Tells(steps, n, m, count, signature) => Tells(steps', n, m, count, signature)
    BY <1>3, <2>1, OtherStepStop DEF StepTypes, OncePerRound
  <2>3. currentRound = 0
    BY <2>1 DEF StopInv
  <2>. QED
    BY <1>2, <2>1, <2>2, <2>3 DEF StopInv, Reached, Searched, InLoop
<1>6. CASE BeginRound
  <2>1. /\ pc = "begin" /\ pc' = "search" /\ currentRound' = currentRound + 1
        /\ UNCHANGED <<steps, strategy, noProgress, previousSignature>>
    BY <1>6 DEF BeginRound
  <2>2. Reached' = Reached /\ Searched' = Searched /\ Reached = currentRound
    BY <1>1, <2>1 DEF Reached, Searched
  <2>3. /\ Reached \in Nat
        /\ Tells(steps, Reached, Searched, noProgress, previousSignature)
        /\ Reached >= EffectiveMinRounds => MayGoOn(steps, Reached, strategy)
    BY <2>1 DEF StopInv, InLoop
  <2>. QED
    BY <1>1, <1>2, <2>1, <2>2, <2>3 DEF StopInv
<1>7. CASE SearchReturns \/ SearchReportsError
  <2>1. /\ SearchStep \in Step /\ SearchStep.type = "search"
        /\ SearchStep.round = currentRound /\ SearchStep.query = strategy
    BY <1>3 DEF SearchStep, TypeOK, Step, StepTypes
  <2>2. /\ pc = "search" /\ pc' \in {"dedupe", "failing"}
        /\ steps' = Append(steps, SearchStep)
        /\ UNCHANGED <<currentRound, strategy, noProgress, previousSignature>>
    BY <1>7 DEF SearchReturns, SearchReportsError
  <2> DEFINE n == currentRound - 1
  <2>3. Reached = n /\ Searched = n /\ n + 1 = currentRound
    BY <1>1, <2>2 DEF Reached, Searched
  <2>4. /\ n \in Nat /\ Tells(steps, n, n, noProgress, previousSignature)
        /\ n >= EffectiveMinRounds => MayGoOn(steps, n, strategy)
    BY <2>2, <2>3 DEF StopInv, InLoop
  <2> HIDE DEF n
  <2>5. /\ Fresh(steps, SearchStep)
        /\ Tells(steps', n, n + 1, noProgress, previousSignature)
    BY <1>1, <2>1, <2>2, <2>3, <2>4, AppendSearchTells
  <2>6. LedgerJustified(steps')
    <3>1. SearchStep.round - 1 = n
      BY <2>1 DEF n
    <3>. QED
      BY <1>1, <2>1, <2>2, <2>4, <2>5, <3>1, AppendKeepsJustified
  <2>7. /\ Once(steps', "search", currentRound)
        /\ Of(steps', "search", currentRound) = SearchStep
    BY <1>1, <2>1, <2>2, <2>5, AppendIsOnce DEF OncePerRound
  <2>8. pc' = "dedupe" => Reached' = n /\ Searched' = n + 1
    BY <1>1, <2>2, <2>3 DEF Reached, Searched, n
  <2>. QED
    BY <2>1, <2>2, <2>4, <2>5, <2>6, <2>7, <2>8 DEF StopInv, InLoop
<1>8. CASE Dedupe
  <2>1. /\ steps' = Append(steps, NextStep("dedupe")) /\ pc = "dedupe" /\ pc' = "analyse"
        /\ UNCHANGED <<currentRound, strategy, noProgress, previousSignature>>
    BY <1>8 DEF Dedupe
  <2>2. /\ LedgerJustified(steps')
        /\ \A n \in Nat : \A m, count, signature :
              Tells(steps, n, m, count, signature) => Tells(steps', n, m, count, signature)
        /\ \A r : Once(steps, "search", r) =>
              Once(steps', "search", r) /\ Of(steps', "search", r) = Of(steps, "search", r)
    BY <1>3, <2>1, OtherStepStop DEF StepTypes, OncePerRound
  <2>3. Reached' = Reached /\ Searched' = Searched
    BY <2>1 DEF Reached, Searched
  <2>4. /\ Reached \in Nat /\ Tells(steps, Reached, Searched, noProgress, previousSignature)
        /\ Once(steps, "search", currentRound)
        /\ Of(steps, "search", currentRound).query = strategy
    BY <2>1 DEF StopInv, InLoop
  <2>. QED
    BY <2>1, <2>2, <2>3, <2>4 DEF StopInv
<1>9. CASE AnalyseAndRank
  <2>1. PICK scores \in [admitted -> RawScores] : AnalyseWith(scores)
    BY <1>9 DEF AnalyseAndRank
  <2>2. PICK top \in SUBSET (retained \cup Analyses(scores)) :
             /\ steps' = Append(Append(steps,
                             [NextStep("analysis") EXCEPT !.entries = Analyses(scores)]),
                             [SecondStep("shortlist") EXCEPT !.entries = top])
             /\ noProgress' = NoProgressAfter(top)
             /\ previousSignature' = IdsOf(top)
    BY <2>1 DEF AnalyseWith
  <2>3. /\ pc = "analyse" /\ pc' = "judge" /\ UNCHANGED <<currentRound, strategy>>
    BY <2>1 DEF AnalyseWith
  <2> DEFINE s == [NextStep("analysis") EXCEPT !.entries = Analyses(scores)]
             t == [SecondStep("shortlist") EXCEPT !.entries = top]
             n == currentRound - 1
             fruitless == admitted = {} \/ IdsOf(top) = previousSignature
  <2>4. Analyses(scores) \in SUBSET Entry /\ top \in SUBSET Entry
    BY AnalysesTyped DEF TypeOK
  <2>5. /\ s \in Step /\ s.type = "analysis" /\ s.round = currentRound
        /\ s.entries = Analyses(scores)
    BY <1>3, <2>4 DEF Step, StepTypes
  <2>6. /\ t \in Step /\ t.type = "shortlist" /\ t.round = currentRound /\ t.entries = top
    <3>1. SecondStep("shortlist") \in Step
      BY StepsTyped DEF StepTypes
    <3>. QED
      BY <2>4, <3>1 DEF Step, SecondStep, BlankStep
  <2>7. Analyses(scores) = {} <=> admitted = {}
    BY DEF Analyses
  <2>8. /\ Reached = n /\ Searched = n + 1 /\ n + 1 = currentRound
        /\ Reached' = n + 1 /\ Searched' = n + 1
    BY <1>1, <2>3 DEF Reached, Searched
  <2>9. /\ n \in Nat /\ Tells(steps, n, n + 1, noProgress, previousSignature)
        /\ Once(steps, "search", currentRound)
        /\ Of(steps, "search", currentRound).query = strategy
    BY <2>3, <2>8 DEF StopInv, InLoop
  <2>10. noProgress' = IF fruitless THEN noProgress + 1 ELSE 0
    BY <2>2 DEF NoProgressAfter
  <2>11. steps' = Append(Append(steps, s), t)
    BY <2>2
  <2>12. fruitless \in BOOLEAN
         /\ (fruitless <=> s.entries = {} \/ IdsOf(t.entries) = previousSignature)
    BY <2>5, <2>6, <2>7
  <2> HIDE DEF s, t, n, fruitless
  <2>13. /\ Fresh(steps, s) /\ Fresh(Append(steps, s), t)
         /\ Tells(Append(Append(steps, s), t), n + 1, n + 1,
                  IF fruitless THEN noProgress + 1 ELSE 0, IdsOf(t.entries))
    BY <1>1, <2>5, <2>6, <2>8, <2>9, <2>12, AppendRoundTells
  <2>14. Tells(steps', n + 1, n + 1, noProgress', previousSignature')
    BY <2>2, <2>6, <2>10, <2>11, <2>13
  <2> DEFINE a == Append(steps, s)
  <2>15. a \in Seq(Step) /\ steps' = Append(a, t)
    BY <1>1, <2>5, <2>11
  <2>16. LedgerJustified(a)
    BY <1>1, <2>5, <2>13, AppendKeepsJustified
  <2>17. /\ Once(a, "search", currentRound)
         /\ Of(a, "search", currentRound) = Of(steps, "search", currentRound)
    BY <1>1, <2>5, <2>9, <2>13, AppendKeepsOnce DEF OncePerRound
  <2>18. Fresh(a, t)
    BY <2>13
  <2> HIDE DEF a
  <2>19. LedgerJustified(steps')
    BY <2>6, <2>15, <2>16, <2>18, AppendKeepsJustified
  <2>20. /\ Once(steps', "search", currentRound)
         /\ Of(steps', "search", currentRound).query = strategy
    BY <2>6, <2>9, <2>15, <2>17, <2>18, AppendKeepsOnce DEF OncePerRound
  <2>. QED
    BY <2>3, <2>8, <2>9, <2>14, <2>19, <2>20 DEF StopInv
<1>10. CASE StopByRule
  <2> DEFINE s == [NextStep("stop") EXCEPT !.source = RuleStopReason]
  <2>1. /\ pc = "judge" /\ pc' = "finalize" /\ steps' = Append(steps, s)
        /\ ShouldStopAfterRound
    BY <1>10 DEF StopByRule
  <2>2. /\ s \in Step /\ s.type = "stop" /\ s.round = currentRound
        /\ s.source = RuleStopReason
    <3>1. RuleStopReason \in StopReasons
      BY DEF RuleStopReason, StopReasons
    <3>. QED
      BY <1>3, <3>1 DEF Step, StepTypes
  <2>3. /\ Tells(steps, currentRound, Searched, noProgress, previousSignature)
    BY <2>1 DEF StopInv, InLoop, Reached
  <2>4. Justified(steps, s)
    <3>1. EffectiveMinRounds <= MaxRounds
      BY MinRoundsInRange, RoundsAssumption
    <3>2. currentRound \in EffectiveMinRounds..MaxRounds
      BY <1>1, <1>2, <2>1, <3>1 DEF ShouldStopAfterRound
    <3>3. RuleStopReason = "max-rounds" => currentRound = MaxRounds
      BY <1>1, <1>2 DEF RuleStopReason
    <3>4. RuleStopReason = "no-progress" => noProgress >= 2
      BY <1>1, <1>2, <2>1 DEF RuleStopReason, ShouldStopAfterRound
    <3>5. RuleStopReason # "duplicate-strategy"
      BY DEF RuleStopReason
    <3>. QED
      BY <2>2, <2>3, <3>2, <3>3, <3>4, <3>5 DEF Justified, Tells
  <2> HIDE DEF s
  <2>5. LedgerJustified(steps')
    BY <2>1, <2>2, <2>4, OtherStepStop DEF OncePerRound
  <2>. QED
    BY <2>1, <2>5 DEF StopInv, InLoop
<1>11. CASE Reflect
  <2>1. PICK wish \in BOOLEAN, next \in Strategies : ReflectWith(wish, next)
    BY <1>11 DEF Reflect
  <2>2. /\ pc = "judge" /\ ~ShouldStopAfterRound
        /\ steps' = Append(steps, ReflectionStep(next))
        /\ ReflectionStep(next) \in Step /\ ReflectionStep(next).type = "reflection"
        /\ UNCHANGED <<currentRound, noProgress, previousSignature>>
    BY <2>1, ReflectionTyped DEF ReflectWith
  <2>3. /\ LedgerJustified(steps')
        /\ \A n \in Nat : \A m, count, signature :
              Tells(steps, n, m, count, signature) => Tells(steps', n, m, count, signature)
        /\ \A r : Once(steps, "search", r) =>
              Once(steps', "search", r) /\ Of(steps', "search", r) = Of(steps, "search", r)
    BY <2>2, OtherStepStop DEF OncePerRound
  <2>4. /\ Reached = currentRound /\ Searched = currentRound
        /\ Reached \in Nat /\ Tells(steps, Reached, Searched, noProgress, previousSignature)
        /\ Once(steps, "search", currentRound)
        /\ Of(steps, "search", currentRound).query = strategy
    BY <2>2 DEF StopInv, InLoop, Reached, Searched
  <2>5. Tells(steps', currentRound, currentRound, noProgress, previousSignature)
    BY <1>1, <2>3, <2>4
  <2>6. /\ Once(steps', "search", currentRound)
        /\ Of(steps', "search", currentRound).query = strategy
    BY <2>3, <2>4
  <2>7. CASE pc' = "begin"
    <3>1. ContinueSearch(wish) /\ ~BlockedAsDuplicate(next) /\ strategy' = next
      BY <2>1, <2>7 DEF ReflectWith
    <3>2. currentRound >= EffectiveMinRounds => MayGoOn(steps', currentRound, next)
      <4> SUFFICES ASSUME currentRound >= EffectiveMinRounds
                   PROVE  MayGoOn(steps', currentRound, next)
        OBVIOUS
      <4>1. currentRound >= 2 /\ ~(noProgress >= 2) /\ (noProgress >= 1 => next # strategy)
        BY <1>1, <1>2, <2>2, <3>1 DEF ShouldStopAfterRound, BlockedAsDuplicate
      <4>. QED
        BY <1>1, <2>5, <2>6, <4>1 DEF MayGoOn, Tells
    <3>3. Reached' = currentRound /\ Searched' = currentRound
      BY <2>2, <2>7 DEF Reached, Searched
    <3>. QED
      BY <1>2, <2>2, <2>3, <2>4, <2>5, <2>7, <3>1, <3>2, <3>3 DEF StopInv
  <2>8. CASE pc' = "stop"
    <3>1. currentRound \in EffectiveMinRounds..MaxRounds
      BY <1>1, <1>2, <2>1, <2>8 DEF ReflectWith, ContinueSearch, BlockedAsDuplicate
    <3>2. \/ stopReason' = "reflection"
          \/ stopReason' = "duplicate-strategy" /\ noProgress >= 1
      BY <2>1, <2>8 DEF ReflectWith, BlockedAsDuplicate
    <3>3. currentRound < MaxRounds
      BY <1>1, <1>2, <2>2 DEF ShouldStopAfterRound
    <3>4. Reached' = currentRound /\ Searched' = currentRound
      BY <2>2, <2>8 DEF Reached, Searched
    <3>5. noProgress >= 1 => FruitlessIn(steps', currentRound)
      BY <2>5 DEF Tells
    <3>. QED
      BY <1>2, <2>2, <2>3, <2>4, <2>5, <2>8, <3>1, <3>2, <3>3, <3>4, <3>5 DEF StopInv
  <2>. QED
    BY <2>1, <2>7, <2>8 DEF ReflectWith
<1>12. CASE RecordStop
  <2> DEFINE s == [NextStep("stop") EXCEPT !.source = stopReason]
  <2>1. pc = "stop" /\ pc' = "finalize" /\ steps' = Append(steps, s)
    BY <1>12 DEF RecordStop
  <2>2. /\ s \in Step /\ s.type = "stop" /\ s.round = currentRound /\ s.source = stopReason
    <3>1. stopReason \in StopReasons \cup {"none"}
      BY DEF TypeOK
    <3>. QED
      BY <1>3, <3>1 DEF Step, StepTypes
  <2>3. Rounds(steps, currentRound)
    BY <2>1 DEF StopInv, InLoop, Reached, Tells
  <2>4. Justified(steps, s)
    BY <2>1, <2>2, <2>3 DEF StopInv, Justified
  <2> HIDE DEF s
  <2>5. LedgerJustified(steps')
    BY <2>1, <2>2, <2>4, OtherStepStop DEF OncePerRound
  <2>. QED
    BY <2>1, <2>5 DEF StopInv, InLoop
<1>13. CASE Finalize
  <2>1. pc' = "publish" /\ steps' = Append(steps, NextStep("finalize"))
    BY <1>13 DEF Finalize
  <2>2. LedgerJustified(steps')
    BY <1>3, <2>1, OtherStepStop DEF StepTypes, OncePerRound
  <2>. QED
    BY <2>1, <2>2 DEF StopInv, InLoop
<1>14. CASE PublishFails
  <2>1. /\ pc' = "closed"
        /\ steps' = steps \/ steps' = Append(steps, NextStep("observability-warning"))
    BY <1>14 DEF PublishFails
  <2>2. LedgerJustified(steps')
    BY <1>1, <1>3, <2>1, OtherStepStop DEF StepTypes, OncePerRound
  <2>. QED
    BY <2>1, <2>2 DEF StopInv, InLoop
<1>15. CASE ActivityRaises \/ RecordFailure \/ PublishTrace \/ StartRaises \/ FailureUnrecorded
  <2>1. steps' = steps /\ pc' \in {"failing", "publish", "closed", "escaped"}
    BY <1>15 DEF ActivityRaises, RecordFailure, PublishTrace, StartRaises, FailureUnrecorded
  <2>. QED
    BY <1>1, <2>1 DEF StopInv, InLoop
<1>16. CASE UNCHANGED vars
  BY <1>16 DEF vars, StopInv, Reached, Searched
<1>. QED
  BY <1>4, <1>5, <1>6, <1>7, <1>8, <1>9, <1>10, <1>11, <1>12, <1>13, <1>14, <1>15, <1>16
     DEF Next, Closed

LEMMA StopInvariant == Spec => []StopInv
BY InitStop, NextStop, TypeCorrect, PTL DEF Spec

\* Whatever agents and source answer, the reason a stop step gives is true of the rounds
\* before it in the ledger.
THEOREM StopAlwaysJustified == Spec => []StopIsJustified
<1>1. StopInv => StopIsJustified
  BY LedgerJustifiedSuffices DEF StopInv
<1>. QED
  BY StopInvariant, <1>1, PTL

\* And no round follows rounds after which the loop had to stop.
THEOREM NeverPastStop == Spec => []NoRoundAfterStopCondition
<1>1. StopInv => NoRoundAfterStopCondition
  BY LedgerJustifiedSuffices DEF StopInv
<1>. QED
  BY StopInvariant, <1>1, PTL
=============================================================================
