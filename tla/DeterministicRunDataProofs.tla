--------------------- MODULE DeterministicRunDataProofs ---------------------
(***************************************************************************)
(* The data of the local stack, for any catalogue, texts, schedule and     *)
(* faults and any number of attempts to publish: that its variables have   *)
(* their types, that the published tree mirrors the ledger, and that a     *)
(* round without a new resume is followed by rounds without one.           *)
(*                                                                         *)
(* The types need more than types.  A query that the reflector shortens is *)
(* one of the run because queries are the prefixes of the texts' terms; an *)
(* offset is bounded because a search moves it by what it returns; and     *)
(* what an attempt sends next is an observation with a text because its    *)
(* plan lists the tree of the ledger, which is in the order of its rounds. *)
(*                                                                         *)
(* The tree is proved to mirror the ledger by way of a set: Tree is what   *)
(* has to be shown, the replay is proved to list that set, each            *)
(* observation once and the steps in order, and whatever lists it shows    *)
(* the ledger.                                                             *)
(*                                                                         *)
(* The last part is about reading.  If every later page size divides the   *)
(* earlier ones, a query is read on without a gap: what was seen is what   *)
(* the query has been read to, across the rounds and their different       *)
(* sizes.  A page that adds nobody is then the end of the list.  The       *)
(* reflector, told that nobody is new, drops a term, and a search that     *)
(* finds whoever has any term of the query finds less without it.          *)
(***************************************************************************)
EXTENDS DeterministicRunProofs

-----------------------------------------------------------------------------
(* Lists of observations.                                                  *)

\* Two rounds' children are in the order of the steps they show.
Earlier(x, y) == Len(x.under) = 1 /\ Len(y.under) = 1 => x.of < y.of

\* s lists the observations of S: each of them, once, steps of rounds in the ledger's
\* order.
Lists(s, S) ==
    /\ s \in Seq(S)
    /\ \A x \in S : \E k \in 1..Len(s) : s[k] = x
    /\ \A k, l \in 1..Len(s) : k < l => s[k] # s[l] /\ Earlier(s[k], s[l])

\* A list of S may be followed by a list of T.
AllBefore(S, T) == \A x \in S, y \in T : x # y /\ Earlier(x, y)

\* Nothing lists nothing.
LEMMA ListsNone == Lists(<<>>, {})
BY DEF Lists

\* One observation is listed alone.
LEMMA ListsOne == ASSUME NEW x PROVE Lists(<<x>>, {x})
<1>1. <<x>> \in Seq({x}) /\ Len(<<x>>) = 1 /\ <<x>>[1] = x
  OBVIOUS
<1>. QED
  BY <1>1 DEF Lists

\* Lists are concatenated if the first may be followed by the second.
LEMMA ListsBoth ==
    ASSUME NEW s, NEW S, Lists(s, S), NEW t, NEW T, Lists(t, T), AllBefore(S, T)
    PROVE  Lists(s \o t, S \cup T)
<1> DEFINE u == s \o t
           m == Len(s)
           n == Len(t)
<1>1. s \in Seq(S) /\ t \in Seq(T) /\ m \in Nat /\ n \in Nat
  BY DEF Lists
<1>2. s \in Seq(S \cup T) /\ t \in Seq(S \cup T)
  BY <1>1
<1>3. /\ u \in Seq(S \cup T) /\ Len(u) = m + n
      /\ \A k \in 1..(m + n) : u[k] = IF k <= m THEN s[k] ELSE t[k - m]
  BY <1>2, ConcatProperties
<1>4. /\ \A k \in 1..m : s[k] \in S
      /\ \A k \in 1..n : t[k] \in T
  BY <1>1
<1>7. /\ \A k, l \in 1..m : k < l => s[k] # s[l] /\ Earlier(s[k], s[l])
      /\ \A k, l \in 1..n : k < l => t[k] # t[l] /\ Earlier(t[k], t[l])
  BY DEF Lists
<1> HIDE DEF u, m, n
<1>5. ASSUME NEW x \in S \cup T
      PROVE  \E k \in 1..Len(u) : u[k] = x
  <2>1. CASE x \in S
    <3>1. PICK k \in 1..m : s[k] = x
      BY <2>1 DEF Lists, m
    <3>. QED
      BY <1>1, <1>3, <3>1
  <2>2. CASE x \in T
    <3>1. PICK k \in 1..n : t[k] = x
      BY <2>2 DEF Lists, n
    <3>2. m + k \in 1..(m + n) /\ ~(m + k <= m) /\ (m + k) - m = k
      BY <1>1
    <3>. QED
      BY <1>3, <3>1, <3>2
  <2>. QED
    BY <2>1, <2>2
<1>6. ASSUME NEW k \in 1..Len(u), NEW l \in 1..Len(u), k < l
      PROVE  u[k] # u[l] /\ Earlier(u[k], u[l])
  <2>1. k \in 1..(m + n) /\ l \in 1..(m + n)
    BY <1>3
  <2>2. CASE l <= m
    <3>1. k \in 1..m /\ l \in 1..m /\ k <= m
      BY <1>1, <1>6, <2>1, <2>2
    <3>2. u[k] = s[k] /\ u[l] = s[l]
      BY <1>3, <2>1, <2>2, <3>1
    <3>. QED
      BY <1>6, <1>7, <3>1, <3>2
  <2>3. CASE m < k
    <3>1. k - m \in 1..n /\ l - m \in 1..n /\ k - m < l - m /\ ~(k <= m) /\ ~(l <= m)
      BY <1>1, <1>6, <2>1, <2>3
    <3>2. u[k] = t[k - m] /\ u[l] = t[l - m]
      BY <1>3, <2>1, <3>1
    <3>. QED
      BY <1>7, <3>1, <3>2
  <2>4. CASE k <= m /\ m < l
    <3>1. k \in 1..m /\ l - m \in 1..n /\ ~(l <= m)
      BY <1>1, <2>1, <2>4
    <3>2. u[k] = s[k] /\ u[l] = t[l - m]
      BY <1>3, <2>1, <2>4, <3>1
    <3>. QED
      BY <1>4, <3>1, <3>2 DEF AllBefore
  <2>. QED
    BY <1>1, <2>1, <2>2, <2>3, <2>4
<1>. QED
  BY <1>3, <1>5, <1>6 DEF Lists, u

\* And so are any number of them: the replay is flattened round by round, step by step.
LEMMA ListsMany ==
    ASSUME NEW n \in Nat, NEW bs, NEW Ss, bs = [k \in 1..n |-> bs[k]],
           \A k \in 1..n : Lists(bs[k], Ss[k]),
           \A k, l \in 1..n : k < l => AllBefore(Ss[k], Ss[l])
    PROVE  Lists(FlattenSeq(bs), UNION {Ss[k] : k \in 1..n})
<1>1. Len(bs) = n
  <2> DEFINE A == {bs[k] : k \in 1..n}
  <2>1. bs \in [1..n -> A]
    OBVIOUS
  <2> HIDE DEF A
  <2>. QED
    BY <2>1
<1>2. CASE n = 0
  <2>1. bs = <<>> /\ UNION {Ss[k] : k \in 1..n} = {}
    BY <1>2
  <2>2. FlattenSeq(bs) = bs
    BY <1>1, <1>2 DEF FlattenSeq
  <2>. QED
    BY <2>1, <2>2, ListsNone
<1>3. CASE n # 0
  <2>1. PICK f : /\ f[1] = bs[1]
                 /\ \A i \in 2..n : f[i] = f[i - 1] \o bs[i]
                 /\ FlattenSeq(bs) = f[n]
    BY <1>1, <1>3, FlattenUnfold
  <2> DEFINE U(m) == UNION {Ss[k] : k \in 1..m}
             P == {m \in Nat : m \in 1..n => Lists(f[m], U(m))}
  <2>2. 0 \in P
    OBVIOUS
  <2>3. ASSUME NEW m \in Nat, m \in P
        PROVE  m + 1 \in P
    <3> SUFFICES ASSUME m + 1 \in 1..n
                 PROVE  Lists(f[m + 1], U(m + 1))
      OBVIOUS
    <3>1. CASE m = 0
      <4>1. U(1) = Ss[1]
        OBVIOUS
      <4> HIDE DEF U
      <4>. QED
        BY <2>1, <3>1, <4>1
    <3>2. CASE m # 0
      <4>1. m \in 1..n /\ m + 1 \in 2..n /\ (m + 1) - 1 = m
        BY <3>2
      <4>2. Lists(f[m], U(m)) /\ Lists(bs[m + 1], Ss[m + 1])
        BY <2>3, <4>1
      <4>3. AllBefore(U(m), Ss[m + 1])
        BY <4>1 DEF AllBefore
      <4>4. U(m + 1) = U(m) \cup Ss[m + 1]
        BY <4>1
      <4>5. f[m + 1] = f[m] \o bs[m + 1]
        BY <2>1, <4>1
      <4> HIDE DEF U
      <4>. QED
        BY <4>2, <4>3, <4>4, <4>5, ListsBoth
    <3>. QED
      BY <3>1, <3>2
  <2>4. n \in P
    <3> HIDE DEF P
    <3>. QED
      BY <2>2, <2>3, SetInduction
  <2>. QED
    BY <1>3, <2>1, <2>4
<1>. QED
  BY <1>2, <1>3

-----------------------------------------------------------------------------
(* The tree of a ledger, as a set of observations, and the replay that     *)
(* lists it.                                                               *)

\* What the replay needs of a ledger: numbered steps, in the order of their rounds, and
\* finitely many analysed resumes in each.
WellFormed(ledger) ==
    /\ IsSequence(ledger)
    /\ \A i \in DOMAIN ledger :
          /\ ledger[i].no \in Nat /\ ledger[i].round \in Nat
          /\ {e.id : e \in ledger[i].entries} \in SUBSET Nat
          /\ IsFiniteSet({e.id : e \in ledger[i].entries})
    /\ \A i, j \in DOMAIN ledger : i < j => ledger[i].round <= ledger[j].round

\* What the replay shows of step i under its round.
StepTree(ledger, i, round) ==
    IF ledger[i].type = "analysis"
    THEN {Plain(<<round>>, "analysis", i)}
         \cup {Observation(<<round, i>>, "analyze-resume", id, MatcherPrompt,
                           <<ledger[i].no, id>>) : id \in {e.id : e \in ledger[i].entries}}
    ELSE IF ledger[i].type = "reflection"
         THEN {Observation(<<round>>, "reflect", i, ReflectorPrompt, <<ledger[i].no, 0>>)}
         ELSE {Plain(<<round>>, StepName(ledger[i].type), i)}

\* The steps of a round.
InRound(ledger, round) == {i \in DOMAIN ledger : ledger[i].round = round}

\* The observation of a round and those of its steps.
RoundTree(ledger, round) ==
    {Plain(<<>>, "round", round)}
    \cup UNION {StepTree(ledger, i, round) : i \in InRound(ledger, round)}

\* The rounds with a step, but for round 0, the strategy's.
RoundsOf(ledger) == {s.round : s \in ToSet(ledger)} \ {0}

\* The rounds of the tree.
AllRounds(ledger) == UNION {RoundTree(ledger, round) : round \in RoundsOf(ledger)}

\* Where a step's observations are: under the round, or under the step.
StepShown(x, i, round) ==
    \/ x.under = <<round>> /\ x.of = i
    \/ x.under = <<round, i>>

\* Paths of different length differ, and a path names its round and its step.
LEMMA PathsDiffer ==
   /\ \A r : Len(<<r>>) = 1 /\ <<r>> # <<>>
   /\ \A r, i : Len(<<r, i>>) = 2 /\ <<r, i>> # <<>>
   /\ Len(<<>>) = 0
   /\ \A r, s : <<r>> = <<s>> => r = s
   /\ \A r, s, i, j : <<r, i>> = <<s, j>> => r = s /\ i = j
   /\ \A r, s, i : <<r>> # <<s, i>>
OBVIOUS

\* All that is shown of a step is shown there.
LEMMA StepTreeShown ==
    ASSUME NEW ledger, NEW i, NEW round, NEW x \in StepTree(ledger, i, round)
    PROVE  StepShown(x, i, round)
BY DEF StepTree, StepShown, Plain, Observation

\* What is shown of a step may be followed by what is shown of a later one.
LEMMA StepsApart ==
    ASSUME NEW ledger, NEW round, NEW i \in Nat, NEW j \in Nat, i < j
    PROVE  AllBefore(StepTree(ledger, i, round), StepTree(ledger, j, round))
<1> SUFFICES ASSUME NEW x \in StepTree(ledger, i, round), NEW y \in StepTree(ledger, j, round)
             PROVE  x # y /\ Earlier(x, y)
  BY DEF AllBefore
<1>1. StepShown(x, i, round) /\ StepShown(y, j, round)
  BY StepTreeShown
<1>2. CASE x.under = <<round>> /\ x.of = i /\ y.under = <<round>> /\ y.of = j
  BY <1>2 DEF Earlier
<1>3. CASE x.under = <<round, i>> \/ y.under = <<round, j>>
  <2>1. Len(x.under) = 2 \/ Len(y.under) = 2
    BY <1>3, PathsDiffer
  <2>2. x.under # y.under
    BY <1>1, <1>3, PathsDiffer DEF StepShown
  <2>. QED
    BY <2>1, <2>2 DEF Earlier
<1>. QED
  BY <1>1, <1>2, <1>3 DEF StepShown

\* The replay of a step lists its observations.
LEMMA StepLists ==
    ASSUME NEW ledger, WellFormed(ledger), NEW i \in DOMAIN ledger, NEW round
    PROVE  Lists(ReplayStep(ledger, i, round), StepTree(ledger, i, round))
<1>1. CASE ledger[i].type = "analysis"
  <2> DEFINE I == {e.id : e \in ledger[i].entries}
             ids == Ascending(I)
             n == Cardinality(I)
             child(id) == Observation(<<round, i>>, "analyze-resume", id, MatcherPrompt,
                                      <<ledger[i].no, id>>)
             t == [k \in 1..Len(ids) |-> child(ids[k])]
             T == {child(id) : id \in I}
             root == Plain(<<round>>, "analysis", i)
  <2>1. I \in SUBSET Int /\ IsFiniteSet(I)
    <3>1. I \in SUBSET Nat /\ IsFiniteSet(I)
      BY DEF WellFormed
    <3> HIDE DEF I
    <3>. QED
      BY <3>1
  <2>2. /\ n \in Nat /\ Len(ids) = n /\ ids \in Seq(I)
        /\ \A k, l \in 1..n : k < l => ids[k] < ids[l]
        /\ \A x \in I : \E k \in 1..n : ids[k] = x
    <3> HIDE DEF I
    <3>. QED
      BY <2>1, AscendingLists
  <2>3. \A k \in 1..n : ids[k] \in I
    <3> HIDE DEF I, ids, n
    <3>. QED
      BY <2>2
  <2>4. \A id : child(id).of = id /\ child(id).under = <<round, i>>
    BY DEF Observation
  <2>5. root.under = <<round>>
    BY DEF Plain, Observation
  <2>6. Lists(t, T)
    <3>1. t \in [1..n -> T] /\ \A k \in 1..n : t[k] = child(ids[k])
      BY <2>2, <2>3
    <3>2. \A x \in T : \E id \in I : x = child(id)
      OBVIOUS
    <3> HIDE DEF t, T, I, n, child, ids
    <3>3. t \in Seq(T) /\ Len(t) = n
      BY <2>2, <3>1
    <3>4. ASSUME NEW x \in T
          PROVE  \E k \in 1..n : t[k] = x
      BY <2>2, <3>1, <3>2
    <3>5. ASSUME NEW k \in 1..n, NEW l \in 1..n, k < l
          PROVE  t[k] # t[l] /\ Earlier(t[k], t[l])
      <4>1. ids[k] # ids[l]
        <5>1. ids[k] < ids[l] /\ ids[k] \in Int /\ ids[l] \in Int
          BY <2>1, <2>2, <2>3, <3>5
        <5>. QED
          BY <5>1
      <4>2. t[k].of = ids[k] /\ t[l].of = ids[l] /\ t[k].under = <<round, i>>
        BY <2>4, <3>1
      <4>. QED
        BY <4>1, <4>2, PathsDiffer DEF Earlier
    <3>. QED
      BY <3>3, <3>4, <3>5 DEF Lists
  <2>7. Lists(<<root>>, {root})
    BY ListsOne
  <2>8. AllBefore({root}, T)
    <3> SUFFICES ASSUME NEW x \in T
                 PROVE  root # x /\ Earlier(root, x)
      BY DEF AllBefore
    <3>1. x.under = <<round, i>>
      BY <2>4
    <3> HIDE DEF root
    <3>. QED
      BY <2>5, <3>1, PathsDiffer DEF Earlier
  <2>9. ReplayStep(ledger, i, round) = <<root>> \o t
    BY <1>1 DEF ReplayStep, ReplayAnalysis
  <2>10. StepTree(ledger, i, round) = {root} \cup T
    BY <1>1 DEF StepTree
  <2> HIDE DEF root, T, t
  <2>. QED
    BY <2>6, <2>7, <2>8, <2>9, <2>10, ListsBoth
<1>2. CASE ledger[i].type = "reflection"
  BY <1>2, ListsOne DEF ReplayStep, StepTree
<1>3. CASE ledger[i].type \notin {"analysis", "reflection"}
  BY <1>3, ListsOne DEF ReplayStep, StepTree
<1>. QED
  BY <1>1, <1>2, <1>3

\* The replay of a round lists its observations.
LEMMA RoundLists ==
    ASSUME NEW ledger, WellFormed(ledger), NEW round
    PROVE  Lists(ReplayRound(ledger, round), RoundTree(ledger, round))
<1> DEFINE I == InRound(ledger, round)
           of == Ascending(I)
           n == Cardinality(I)
           bs == [k \in 1..n |-> ReplayStep(ledger, of[k], round)]
           Ss == [k \in 1..n |-> StepTree(ledger, of[k], round)]
           root == Plain(<<>>, "round", round)
           T == UNION {StepTree(ledger, i, round) : i \in I}
<1>1. I \in SUBSET Int /\ IsFiniteSet(I) /\ I \subseteq DOMAIN ledger /\ I \subseteq Nat
  BY PositionsFinite DEF InRound, WellFormed
<1>2. /\ n \in Nat /\ Len(of) = n /\ of \in Seq(I)
      /\ \A k, l \in 1..n : k < l => of[k] < of[l]
      /\ \A x \in I : \E k \in 1..n : of[k] = x
  <2> HIDE DEF I
  <2>. QED
    BY <1>1, AscendingLists
<1>3. \A k \in 1..n : of[k] \in I
  BY <1>2
<1>4. \A k \in 1..n : Lists(bs[k], Ss[k])
  BY <1>1, <1>3, StepLists
<1>5. \A k, l \in 1..n : k < l => AllBefore(Ss[k], Ss[l])
  BY <1>1, <1>2, <1>3, StepsApart
<1>6. UNION {Ss[k] : k \in 1..n} = T
  BY <1>2, <1>3
<1>7. Lists(FlattenSeq(bs), T)
  <2>1. bs = [k \in 1..n |-> bs[k]]
    OBVIOUS
  <2> HIDE DEF bs, Ss, n, T, of, I
  <2>2. Lists(FlattenSeq(bs), UNION {Ss[k] : k \in 1..n})
    <3>1. n \in Nat
      BY <1>2
    <3>. QED
      BY <3>1, <1>4, <1>5, <2>1, ListsMany
  <2>. QED
    BY <1>6, <2>2
<1>8. AllBefore({root}, T)
  <2> SUFFICES ASSUME NEW i \in I, NEW x \in StepTree(ledger, i, round)
               PROVE  root # x /\ Earlier(root, x)
    BY DEF AllBefore
  <2>1. x.under = <<round>> \/ x.under = <<round, i>>
    BY StepTreeShown DEF StepShown
  <2>2. root.under = <<>>
    BY DEF Plain, Observation
  <2> HIDE DEF root
  <2>. QED
    BY <2>1, <2>2, PathsDiffer DEF Earlier
<1>9. ReplayRound(ledger, round) = <<root>> \o FlattenSeq(bs)
  <2>1. Positions(ledger, LAMBDA s : s.round = round) = of
    BY DEF Positions, InRound
  <2>. QED
    BY <1>2, <2>1 DEF ReplayRound
<1>10. RoundTree(ledger, round) = {root} \cup T
  BY DEF RoundTree
<1>11. Lists(<<root>>, {root})
  BY ListsOne
<1> HIDE DEF root, bs, T
<1>. QED
  BY <1>7, <1>8, <1>9, <1>10, <1>11, ListsBoth

\* The steps that are shown at the root: the strategy's ...
StrategyAt(ledger) == {i \in DOMAIN ledger : ledger[i].type = "strategy" /\ ledger[i].round = 0}

\* ... and the final one.
FinalizeAt(ledger) == {i \in DOMAIN ledger : ledger[i].type = "finalize"}

\* What is shown of the first strategy step ...
StrategyRoot(ledger) ==
    LET at == Ascending(StrategyAt(ledger))
    IN  Observation(<<>>, "extract-search-strategy", at[1], StrategyPrompt,
                    <<ledger[at[1]].no, 0>>)

\* ... and of the first final step.
FinalizeRoot(ledger) == Plain(<<>>, "finalize", Ascending(FinalizeAt(ledger))[1])

\* The strategy's part of the tree, empty while there is no such step ...
StrategyTree(ledger) == IF StrategyAt(ledger) = {} THEN {} ELSE {StrategyRoot(ledger)}

\* ... and the final step's.
FinalizeTree(ledger) == IF FinalizeAt(ledger) = {} THEN {} ELSE {FinalizeRoot(ledger)}

\* All observations of a ledger.
Tree(ledger) == StrategyTree(ledger) \cup AllRounds(ledger) \cup FinalizeTree(ledger)

\* An observation of a round's tree is the round's own or one of a step's.
LEMMA RoundTreeShown ==
    ASSUME NEW ledger, NEW round, NEW x \in RoundTree(ledger, round)
    PROVE  \/ x = Plain(<<>>, "round", round)
           \/ \E i \in InRound(ledger, round) :
                 x \in StepTree(ledger, i, round) /\ StepShown(x, i, round)
<1>1. \/ x = Plain(<<>>, "round", round)
      \/ \E i \in InRound(ledger, round) : x \in StepTree(ledger, i, round)
  BY DEF RoundTree
<1>. QED
  BY <1>1, StepTreeShown

\* What is shown of a round may be followed by what is shown of a later one.
LEMMA RoundsApart ==
    ASSUME NEW ledger, WellFormed(ledger), NEW r \in Nat, NEW s \in Nat, r < s
    PROVE  AllBefore(RoundTree(ledger, r), RoundTree(ledger, s))
<1> SUFFICES ASSUME NEW x \in RoundTree(ledger, r), NEW y \in RoundTree(ledger, s)
             PROVE  x # y /\ Earlier(x, y)
  BY DEF AllBefore
<1>1. \A round : /\ Plain(<<>>, "round", round).under = <<>>
                 /\ Plain(<<>>, "round", round).of = round
  BY DEF Plain, Observation
<1>2. CASE x = Plain(<<>>, "round", r)
  <2>1. x.under = <<>> /\ x.of = r
    BY <1>1, <1>2
  <2>2. CASE y = Plain(<<>>, "round", s)
    <3>1. y.of = s
      BY <1>1, <2>2
    <3>. QED
      BY <2>1, <3>1, PathsDiffer DEF Earlier
  <2>3. CASE \E i \in InRound(ledger, s) : StepShown(y, i, s)
    <3>1. \E i : y.under = <<s>> \/ y.under = <<s, i>>
      BY <2>3 DEF StepShown
    <3>2. x.under # y.under /\ Len(x.under) = 0
      BY <2>1, <3>1, PathsDiffer
    <3>. QED
      BY <3>2 DEF Earlier
  <2>. QED
    BY <2>2, <2>3, RoundTreeShown
<1>3. CASE \E i \in InRound(ledger, r) : StepShown(x, i, r)
  <2>1. PICK i \in InRound(ledger, r) : StepShown(x, i, r)
    BY <1>3
  <2>2. CASE y = Plain(<<>>, "round", s)
    <3>1. y.under = <<>>
      BY <1>1, <2>2
    <3>2. x.under = <<r>> \/ x.under = <<r, i>>
      BY <2>1 DEF StepShown
    <3>3. x.under # y.under /\ Len(y.under) = 0
      BY <3>1, <3>2, PathsDiffer
    <3>. QED
      BY <3>3 DEF Earlier
  <2>3. CASE \E j \in InRound(ledger, s) : StepShown(y, j, s)
    <3>1. PICK j \in InRound(ledger, s) : StepShown(y, j, s)
      BY <2>3
    <3>2. i \in DOMAIN ledger /\ j \in DOMAIN ledger /\ i \in Nat /\ j \in Nat
      BY PositionsFinite DEF InRound, WellFormed
    <3>3. i < j
      <4>1. ledger[i].round = r /\ ledger[j].round = s
        BY DEF InRound
      <4>2. ~(j < i) /\ i # j
        BY <3>2, <4>1 DEF WellFormed
      <4>. QED
        BY <3>2, <4>2
    <3>4. x.under # y.under
      BY <2>1, <3>1, <3>3, PathsDiffer DEF StepShown
    <3>5. Len(x.under) = 1 => x.of = i
      BY <2>1, PathsDiffer DEF StepShown
    <3>6. Len(y.under) = 1 => y.of = j
      BY <3>1, PathsDiffer DEF StepShown
    <3>. QED
      BY <3>3, <3>4, <3>5, <3>6 DEF Earlier
  <2>. QED
    BY <2>2, <2>3, RoundTreeShown
<1>. QED
  BY <1>2, <1>3, RoundTreeShown

\* There are finitely many rounds.
LEMMA RoundsFinite ==
    ASSUME NEW ledger, WellFormed(ledger)
    PROVE  RoundsOf(ledger) \in SUBSET Nat /\ IsFiniteSet(RoundsOf(ledger))
<1> DEFINE D == DOMAIN ledger
           R == {s.round : s \in ToSet(ledger)}
           h == [i \in D |-> ledger[i].round]
<1>1. IsFiniteSet(D)
  BY PositionsFinite DEF WellFormed
<1>2. h \in Surjection(D, R)
  <2>1. \A i \in D : h[i] \in R
    BY DEF ToSet
  <2>2. \A r \in R : \E i \in D : h[i] = r
    BY DEF ToSet
  <2>. QED
    BY <2>1, <2>2 DEF Surjection
<1>3. IsFiniteSet(R)
  BY <1>1, <1>2, FS_Surjection
<1>4. R \subseteq Nat
  BY DEF WellFormed, ToSet
<1>5. RoundsOf(ledger) \in SUBSET R
  BY DEF RoundsOf
<1> HIDE DEF R
<1>. QED
  BY <1>3, <1>4, <1>5, FS_Subset

\* The replays of the rounds, one after another, list the rounds of the tree.
LEMMA AllRoundsList ==
    ASSUME NEW ledger, WellFormed(ledger)
    PROVE  LET rounds == Ascending(RoundsOf(ledger))
           IN  Lists(FlattenSeq([k \in 1..Len(rounds) |-> ReplayRound(ledger, rounds[k])]),
                     AllRounds(ledger))
<1> DEFINE R == RoundsOf(ledger)
           rounds == Ascending(R)
           n == Cardinality(R)
           bs == [k \in 1..n |-> ReplayRound(ledger, rounds[k])]
           Ss == [k \in 1..n |-> RoundTree(ledger, rounds[k])]
<1>1. R \in SUBSET Int /\ IsFiniteSet(R) /\ R \in SUBSET Nat
  BY RoundsFinite
<1>2. /\ n \in Nat /\ Len(rounds) = n /\ rounds \in Seq(R)
      /\ \A k, l \in 1..n : k < l => rounds[k] < rounds[l]
      /\ \A x \in R : \E k \in 1..n : rounds[k] = x
  <2> HIDE DEF R
  <2>. QED
    BY <1>1, AscendingLists
<1>3. \A k \in 1..n : rounds[k] \in R
  BY <1>2
<1>4. \A k \in 1..n : Lists(bs[k], Ss[k])
  BY RoundLists
<1>5. \A k, l \in 1..n : k < l => AllBefore(Ss[k], Ss[l])
  BY <1>1, <1>2, <1>3, RoundsApart
<1>6. UNION {Ss[k] : k \in 1..n} = AllRounds(ledger)
  BY <1>2, <1>3 DEF AllRounds
<1>7. bs = [k \in 1..n |-> bs[k]]
  OBVIOUS
<1>8. Lists(FlattenSeq(bs), UNION {Ss[k] : k \in 1..n})
  <2>1. n \in Nat
    BY <1>2
  <2> HIDE DEF bs, Ss, n, rounds, R
  <2>. QED
    BY <2>1, <1>4, <1>5, <1>7, ListsMany
<1>9. Lists(FlattenSeq(bs), AllRounds(ledger))
  BY <1>6, <1>8, Zenon
<1>. QED
  BY <1>2, <1>9

\* What is at the root of the tree: by its name and its step it tells which part it is.
LEMMA RootTreesShown ==
    ASSUME NEW ledger, WellFormed(ledger)
    PROVE  /\ \A x \in StrategyTree(ledger) :
                 /\ x = StrategyRoot(ledger) /\ x.under = <<>>
                 /\ x.name = "extract-search-strategy" /\ x.of \in StrategyAt(ledger)
           /\ \A x \in FinalizeTree(ledger) :
                 /\ x = FinalizeRoot(ledger) /\ x.under = <<>>
                 /\ x.name = "finalize" /\ x.of \in FinalizeAt(ledger)
           /\ \A x \in AllRounds(ledger) : x.under = <<>> => x.name = "round"
<1>1. StrategyAt(ledger) # {} => Ascending(StrategyAt(ledger))[1] \in StrategyAt(ledger)
  BY FirstOf, PositionsFinite DEF StrategyAt, WellFormed
<1>2. FinalizeAt(ledger) # {} => Ascending(FinalizeAt(ledger))[1] \in FinalizeAt(ledger)
  BY FirstOf, PositionsFinite DEF FinalizeAt, WellFormed
<1>3. \A x \in StrategyTree(ledger) :
         /\ x = StrategyRoot(ledger) /\ x.under = <<>>
         /\ x.name = "extract-search-strategy" /\ x.of \in StrategyAt(ledger)
  BY <1>1 DEF StrategyTree, StrategyRoot, Observation
<1>4. \A x \in FinalizeTree(ledger) :
         /\ x = FinalizeRoot(ledger) /\ x.under = <<>>
         /\ x.name = "finalize" /\ x.of \in FinalizeAt(ledger)
  BY <1>2 DEF FinalizeTree, FinalizeRoot, Plain, Observation
<1>5. ASSUME NEW x \in AllRounds(ledger), x.under = <<>>
      PROVE  x.name = "round"
  <2>1. PICK r : x \in RoundTree(ledger, r)
    BY <1>5 DEF AllRounds
  <2>2. CASE x = Plain(<<>>, "round", r)
    BY <2>2 DEF Plain, Observation
  <2>3. CASE \E i \in InRound(ledger, r) : StepShown(x, i, r)
    BY <1>5, <2>3, PathsDiffer DEF StepShown
  <2>. QED
    BY <2>1, <2>2, <2>3, RoundTreeShown
<1>. QED
  BY <1>3, <1>4, <1>5

\* What is replayed is the tree, each observation once, in the ledger's order.
LEMMA ReplayLists ==
    ASSUME NEW ledger, WellFormed(ledger)
    PROVE  Lists(Replay(ledger), Tree(ledger))
<1> DEFINE opening == Ascending(StrategyAt(ledger))
           rounds == Ascending(RoundsOf(ledger))
           ending == Ascending(FinalizeAt(ledger))
           s == IF opening = <<>> THEN <<>> ELSE <<StrategyRoot(ledger)>>
           m == FlattenSeq([k \in 1..Len(rounds) |-> ReplayRound(ledger, rounds[k])])
           f == IF ending = <<>> THEN <<>> ELSE <<FinalizeRoot(ledger)>>
<1>1. Lists(m, AllRounds(ledger))
  BY AllRoundsList
<1>2. Lists(s, StrategyTree(ledger))
  <2>1. opening = <<>> <=> StrategyAt(ledger) = {}
    <3>1. StrategyAt(ledger) \in SUBSET (DOMAIN ledger) /\ IsSequence(ledger)
      BY Zenon DEF StrategyAt, WellFormed
    <3>2. StrategyAt(ledger) \in SUBSET Int /\ IsFiniteSet(StrategyAt(ledger))
      BY <3>1, PositionsFinite, Zenon
    <3>. QED
      BY <3>2, FirstOf, Zenon
  <2> HIDE DEF opening
  <2>. QED
    BY <2>1, ListsOne, ListsNone DEF StrategyTree
<1>3. Lists(f, FinalizeTree(ledger))
  <2>1. ending = <<>> <=> FinalizeAt(ledger) = {}
    <3>1. FinalizeAt(ledger) \in SUBSET (DOMAIN ledger) /\ IsSequence(ledger)
      BY Zenon DEF FinalizeAt, WellFormed
    <3>2. FinalizeAt(ledger) \in SUBSET Int /\ IsFiniteSet(FinalizeAt(ledger))
      BY <3>1, PositionsFinite, Zenon
    <3>. QED
      BY <3>2, FirstOf, Zenon
  <2> HIDE DEF ending
  <2>. QED
    BY <2>1, ListsOne, ListsNone DEF FinalizeTree
<1>4. Replay(ledger) = s \o m \o f
  BY DEF Replay, Positions, StrategyAt, FinalizeAt, RoundsOf, StrategyRoot, FinalizeRoot
<1>5. AllBefore(StrategyTree(ledger), AllRounds(ledger))
  <2> SUFFICES ASSUME NEW x \in StrategyTree(ledger), NEW y \in AllRounds(ledger)
               PROVE  x # y /\ Earlier(x, y)
    BY DEF AllBefore
  <2>1. /\ x.under = <<>> /\ x.name = "extract-search-strategy"
        /\ y.under = <<>> => y.name = "round"
    BY RootTreesShown
  <2>. QED
    BY <2>1, PathsDiffer DEF Earlier
<1>6. AllBefore(StrategyTree(ledger) \cup AllRounds(ledger), FinalizeTree(ledger))
  <2> SUFFICES ASSUME NEW x \in StrategyTree(ledger) \cup AllRounds(ledger),
                      NEW y \in FinalizeTree(ledger)
               PROVE  x # y /\ Earlier(x, y)
    BY DEF AllBefore
  <2>1. /\ y.under = <<>> /\ y.name = "finalize"
        /\ x.under = <<>> => x.name \in {"round", "extract-search-strategy"}
    BY RootTreesShown
  <2>. QED
    BY <2>1, PathsDiffer DEF Earlier
<1> HIDE DEF s, m, f
<1>7. Lists(s \o m, StrategyTree(ledger) \cup AllRounds(ledger))
  BY <1>1, <1>2, <1>5, ListsBoth
<1>. QED
  BY <1>3, <1>4, <1>6, <1>7, ListsBoth DEF Tree

-----------------------------------------------------------------------------
(* What the tree shows of the ledger, node by node.                        *)

\* How often a listed element is in the list.
LEMMA ListedOnce ==
    ASSUME NEW s, NEW S, Lists(s, S), NEW x \in S
    PROVE  Cardinality({k \in 1..Len(s) : s[k] = x}) = 1
<1>1. PICK k \in 1..Len(s) : s[k] = x
  BY DEF Lists
<1>2. Len(s) \in Nat
  BY DEF Lists
<1>3. ASSUME NEW l \in 1..Len(s), s[l] = x
      PROVE  l = k
  <2>1. ~(k < l) /\ ~(l < k)
    BY <1>1, <1>3 DEF Lists
  <2>. QED
    BY <1>2, <2>1
<1>4. {l \in 1..Len(s) : s[l] = x} = {k}
  BY <1>1, <1>3
<1>. QED
  BY <1>4, FS_Singleton

\* The observation that shows step i under its round.
StepRoot(ledger, i, round) ==
    IF ledger[i].type = "analysis" THEN Plain(<<round>>, "analysis", i)
    ELSE IF ledger[i].type = "reflection"
         THEN Observation(<<round>>, "reflect", i, ReflectorPrompt, <<ledger[i].no, 0>>)
         ELSE Plain(<<round>>, StepName(ledger[i].type), i)

\* Exactly one observation shows a step under its round.
LEMMA StepTreeRoot ==
    ASSUME NEW ledger, NEW i, NEW round
    PROVE  /\ StepRoot(ledger, i, round) \in StepTree(ledger, i, round)
           /\ StepRoot(ledger, i, round).under = <<round>>
           /\ StepRoot(ledger, i, round).of = i
           /\ \A x \in StepTree(ledger, i, round) :
                 x.under = <<round>> => x = StepRoot(ledger, i, round)
<1>1. /\ StepRoot(ledger, i, round) \in StepTree(ledger, i, round)
      /\ StepRoot(ledger, i, round).under = <<round>>
      /\ StepRoot(ledger, i, round).of = i
  BY DEF StepRoot, StepTree, Plain, Observation
<1>2. ASSUME NEW x \in StepTree(ledger, i, round), x.under = <<round>>
      PROVE  x = StepRoot(ledger, i, round)
  <2>1. CASE ledger[i].type = "analysis"
    <3>1. \/ x = Plain(<<round>>, "analysis", i)
          \/ x.under = <<round, i>>
      BY <2>1 DEF StepTree, Observation
    <3>. QED
      BY <1>2, <2>1, <3>1, PathsDiffer DEF StepRoot
  <2>2. CASE ledger[i].type # "analysis"
    BY <2>2 DEF StepTree, StepRoot
  <2>. QED
    BY <2>1, <2>2
<1>. QED
  BY <1>1, <1>2

\* Where an observation is in the tree.
LEMMA TreePlaces ==
    ASSUME NEW ledger, WellFormed(ledger), NEW x \in Tree(ledger)
    PROVE  \/ x \in StrategyTree(ledger) \cup FinalizeTree(ledger)
           \/ x.under = <<>> /\ x.name = "round"
           \/ \E i \in DOMAIN ledger :
                 /\ ledger[i].round # 0
                 /\ x \in StepTree(ledger, i, ledger[i].round)
                 /\ StepShown(x, i, ledger[i].round)
<1> SUFFICES ASSUME x \in AllRounds(ledger)
             PROVE  \/ x.under = <<>> /\ x.name = "round"
                    \/ \E i \in DOMAIN ledger :
                          /\ ledger[i].round # 0
                          /\ x \in StepTree(ledger, i, ledger[i].round)
                          /\ StepShown(x, i, ledger[i].round)
  BY DEF Tree
<1>1. PICK r \in RoundsOf(ledger) : x \in RoundTree(ledger, r)
  BY DEF AllRounds
<1>2. r # 0
  BY DEF RoundsOf
<1>3. CASE x = Plain(<<>>, "round", r)
  BY <1>3 DEF Plain, Observation
<1>4. CASE \E i \in InRound(ledger, r) :
              x \in StepTree(ledger, i, r) /\ StepShown(x, i, r)
  <2>1. PICK i \in InRound(ledger, r) : x \in StepTree(ledger, i, r) /\ StepShown(x, i, r)
    BY <1>4
  <2>2. i \in DOMAIN ledger /\ ledger[i].round = r
    BY DEF InRound
  <2>. QED
    BY <1>2, <2>1, <2>2
<1>. QED
  BY <1>1, <1>3, <1>4, RoundTreeShown

\* The observations of a step of a round are in the tree.
LEMMA StepTreeIn ==
    ASSUME NEW ledger, NEW i \in DOMAIN ledger, ledger[i].round # 0
    PROVE  StepTree(ledger, i, ledger[i].round) \subseteq Tree(ledger)
<1> DEFINE r == ledger[i].round
<1>1. r \in RoundsOf(ledger)
  BY DEF RoundsOf, ToSet
<1>2. i \in InRound(ledger, r)
  BY DEF InRound
<1>. QED
  BY <1>1, <1>2 DEF Tree, AllRounds, RoundTree

\* Under the path of a round, only its steps are shown, each by its observation.
LEMMA UnderRound ==
    ASSUME NEW ledger, WellFormed(ledger), NEW i \in DOMAIN ledger, ledger[i].round # 0
    PROVE  /\ StepRoot(ledger, i, ledger[i].round) \in Tree(ledger)
           /\ \A x \in Tree(ledger) :
                 x.under = <<ledger[i].round>> /\ x.of = i
                 <=> x = StepRoot(ledger, i, ledger[i].round)
<1> DEFINE r == ledger[i].round
           root == StepRoot(ledger, i, r)
<1>1. root \in StepTree(ledger, i, r) /\ root.under = <<r>> /\ root.of = i
  BY StepTreeRoot
<1>2. root \in Tree(ledger)
  BY <1>1, StepTreeIn
<1>3. ASSUME NEW x \in Tree(ledger), x.under = <<r>>, x.of = i
      PROVE  x = root
  <2>1. x \notin StrategyTree(ledger) \cup FinalizeTree(ledger)
    BY <1>3, RootTreesShown, PathsDiffer
  <2>2. ~(x.under = <<>>)
    BY <1>3, PathsDiffer
  <2>3. PICK j \in DOMAIN ledger : /\ x \in StepTree(ledger, j, ledger[j].round)
                                   /\ StepShown(x, j, ledger[j].round)
    BY <2>1, <2>2, TreePlaces
  <2>4. x.under = <<ledger[j].round>> /\ x.of = j
    BY <1>3, <2>3, PathsDiffer DEF StepShown
  <2>5. j = i
    BY <1>3, <2>4
  <2>. QED
    BY <1>3, <2>3, <2>5, StepTreeRoot
<1>. QED
  BY <1>1, <1>2, <1>3

\* Under the path of a step, only the resumes it analysed are shown.
LEMMA UnderStep ==
    ASSUME NEW ledger, WellFormed(ledger), NEW i \in DOMAIN ledger,
           ledger[i].type = "analysis" => ledger[i].round # 0
    PROVE  LET r == ledger[i].round
               child(id) == Observation(<<r, i>>, "analyze-resume", id, MatcherPrompt,
                                        <<ledger[i].no, id>>)
               ids == IF ledger[i].type = "analysis"
                      THEN {e.id : e \in ledger[i].entries} ELSE {}
           IN  /\ \A x \in Tree(ledger) :
                     x.under = <<r, i>> => x.of \in ids /\ x = child(x.of)
               /\ \A id \in ids : child(id) \in Tree(ledger)
<1> DEFINE r == ledger[i].round
           child(id) == Observation(<<r, i>>, "analyze-resume", id, MatcherPrompt,
                                    <<ledger[i].no, id>>)
           ids == IF ledger[i].type = "analysis"
                  THEN {e.id : e \in ledger[i].entries} ELSE {}
<1>1. ASSUME NEW x \in Tree(ledger), x.under = <<r, i>>
      PROVE  x.of \in ids /\ x = child(x.of)
  <2>1. x \notin StrategyTree(ledger) \cup FinalizeTree(ledger)
    BY <1>1, RootTreesShown, PathsDiffer
  <2>2. ~(x.under = <<>>)
    BY <1>1, PathsDiffer
  <2>3. PICK j \in DOMAIN ledger : /\ x \in StepTree(ledger, j, ledger[j].round)
                                   /\ StepShown(x, j, ledger[j].round)
    BY <2>1, <2>2, TreePlaces
  <2>4. j = i
    BY <1>1, <2>3, PathsDiffer DEF StepShown
  <2>5. x \in StepTree(ledger, i, r) /\ x.under # <<r>>
    BY <1>1, <2>3, <2>4, PathsDiffer
  <2>6. ledger[i].type = "analysis"
    BY <2>5 DEF StepTree, Plain, Observation
  <2>7. \E id \in {e.id : e \in ledger[i].entries} : x = child(id)
    BY <2>5, <2>6 DEF StepTree, Plain, Observation
  <2>8. \A id : child(id).of = id
    BY DEF Observation
  <2>9. \A id \in {e.id : e \in ledger[i].entries} : id \in ids
    BY <2>6
  <2> HIDE DEF child, ids
  <2>. QED
    BY <2>7, <2>8, <2>9
<1>2. ASSUME NEW id \in ids
      PROVE  child(id) \in Tree(ledger)
  <2>1. ledger[i].type = "analysis" /\ id \in {e.id : e \in ledger[i].entries}
    OBVIOUS
  <2>2. child(id) \in StepTree(ledger, i, r)
    BY <2>1 DEF StepTree
  <2>. QED
    BY <2>1, <2>2, StepTreeIn
<1>. QED
  BY <1>1, <1>2

\* What a plan has to show of the ledger.
Shows(plan, sent, ledger) ==
    LET Under(path) == {k \in 1..sent : plan[k].under = path}
        OfRounds == {k \in 1..sent : Len(plan[k].under) = 1}
        AtRoot(type) == {k \in Under(<<>>) : /\ plan[k].name # "round"
                                             /\ ledger[plan[k].of].type = type}
    IN  /\ \A i \in DOMAIN ledger : ledger[i].round > 0 =>
              Cardinality({k \in Under(<<ledger[i].round>>) : plan[k].of = i}) = 1
        /\ \A k, l \in OfRounds : k < l => plan[k].of < plan[l].of
        /\ \A type \in {"strategy", "finalize"} :
              Cardinality(AtRoot(type)) =
                  IF \E i \in DOMAIN ledger : ledger[i].type = type THEN 1 ELSE 0
        /\ \A i \in DOMAIN ledger :
              LET children == Under(<<ledger[i].round, i>>)
              IN  /\ {plan[k].of : k \in children} = Loop!IdsOf(
                          IF ledger[i].type = "analysis" THEN ledger[i].entries ELSE {})
                  /\ Cardinality(children) = Cardinality({plan[k].of : k \in children})

\* A plan that lists the tree of a ledger shows the ledger: every step under its round
\* once and in order, the strategy and the final step at the root, and every analysed
\* resume once under its analysis.
LEMMA TreeShows ==
    ASSUME NEW ledger, WellFormed(ledger),
           \A i \in DOMAIN ledger : ledger[i].type = "strategy" <=> ledger[i].round = 0,
           NEW plan, Lists(plan, Tree(ledger))
    PROVE  Shows(plan, Len(plan), ledger)
<1> DEFINE n == Len(plan)
           T == Tree(ledger)
<1>1. n \in Nat /\ \A k \in 1..n : plan[k] \in T
  BY DEF Lists
<1>2. ASSUME NEW i \in DOMAIN ledger, ledger[i].round > 0
      PROVE  Cardinality({k \in 1..n : plan[k].under = <<ledger[i].round>> /\ plan[k].of = i}) = 1
  <2> DEFINE root == StepRoot(ledger, i, ledger[i].round)
  <2>1. ledger[i].round # 0
    BY <1>2 DEF WellFormed
  <2>2. root \in T /\ \A x \in T : x.under = <<ledger[i].round>> /\ x.of = i <=> x = root
    BY <2>1, UnderRound
  <2>3. {k \in 1..n : plan[k].under = <<ledger[i].round>> /\ plan[k].of = i}
        = {k \in 1..n : plan[k] = root}
    BY <1>1, <2>2
  <2>. QED
    BY <2>2, <2>3, ListedOnce
<1>3. ASSUME NEW k \in 1..n, NEW l \in 1..n, Len(plan[k].under) = 1, Len(plan[l].under) = 1, k < l
      PROVE  plan[k].of < plan[l].of
  BY <1>3 DEF Lists, Earlier
<1>4. ASSUME NEW type \in {"strategy", "finalize"}
      PROVE  Cardinality({k \in 1..n : /\ plan[k].under = <<>> /\ plan[k].name # "round"
                                       /\ ledger[plan[k].of].type = type})
             = IF \E i \in DOMAIN ledger : ledger[i].type = type THEN 1 ELSE 0
  <2> DEFINE R == IF type = "strategy" THEN StrategyTree(ledger) ELSE FinalizeTree(ledger)
             at == IF type = "strategy" THEN StrategyAt(ledger) ELSE FinalizeAt(ledger)
             root == IF type = "strategy" THEN StrategyRoot(ledger) ELSE FinalizeRoot(ledger)
  <2>1. at = {i \in DOMAIN ledger : ledger[i].type = type}
    BY DEF StrategyAt, FinalizeAt
  <2>2. R = IF at = {} THEN {} ELSE {root}
    BY DEF StrategyTree, FinalizeTree
  <2>3. R \subseteq T
    BY DEF Tree
  <2>4. ASSUME NEW x \in T
        PROVE  x.under = <<>> /\ x.name # "round" /\ ledger[x.of].type = type <=> x \in R
    <3>1. ASSUME x \in R
          PROVE  x.under = <<>> /\ x.name # "round" /\ ledger[x.of].type = type
      BY <3>1, RootTreesShown DEF StrategyAt, FinalizeAt
    <3>2. ASSUME x.under = <<>>, x.name # "round", ledger[x.of].type = type
          PROVE  x \in R
      <4>1. \A i, r : ~StepShown(x, i, r)
        BY <3>2, PathsDiffer DEF StepShown
      <4>2. x \in StrategyTree(ledger) \cup FinalizeTree(ledger)
        BY <3>2, <4>1, TreePlaces
      <4>3. /\ x \in StrategyTree(ledger) => ledger[x.of].type = "strategy"
            /\ x \in FinalizeTree(ledger) => ledger[x.of].type = "finalize"
        BY RootTreesShown DEF StrategyAt, FinalizeAt
      <4>. QED
        BY <3>2, <4>2, <4>3
    <3>. QED
      BY <3>1, <3>2
  <2> DEFINE K == {k \in 1..n : /\ plan[k].under = <<>> /\ plan[k].name # "round"
                                /\ ledger[plan[k].of].type = type}
  <2>5. K = {k \in 1..n : plan[k] \in R}
    BY <1>1, <2>4
  <2> HIDE DEF K, R, root
  <2>6. CASE at = {}
    <3>1. K = {}
      BY <2>2, <2>5, <2>6
    <3>. QED
      BY <2>1, <2>6, <3>1, FS_EmptySet DEF K
  <2>7. CASE at # {}
    <3>1. K = {k \in 1..n : plan[k] = root} /\ root \in T
      BY <2>2, <2>3, <2>5, <2>7
    <3>2. Cardinality(K) = 1
      BY <3>1, ListedOnce
    <3>. QED
      BY <2>1, <2>7, <3>2 DEF K
  <2>. QED
    BY <2>6, <2>7
<1>5. ASSUME NEW i \in DOMAIN ledger
      PROVE  LET children == {k \in 1..n : plan[k].under = <<ledger[i].round, i>>}
             IN  /\ {plan[k].of : k \in children} = Loop!IdsOf(
                         IF ledger[i].type = "analysis" THEN ledger[i].entries ELSE {})
                 /\ Cardinality(children) = Cardinality({plan[k].of : k \in children})
  <2> DEFINE r == ledger[i].round
             child(id) == Observation(<<r, i>>, "analyze-resume", id, MatcherPrompt,
                                      <<ledger[i].no, id>>)
             ids == IF ledger[i].type = "analysis"
                    THEN {e.id : e \in ledger[i].entries} ELSE {}
             children == {k \in 1..n : plan[k].under = <<r, i>>}
             shown == {plan[k].of : k \in children}
             f == [k \in children |-> plan[k].of]
  <2>1. /\ \A x \in T : x.under = <<r, i>> => x.of \in ids /\ x = child(x.of)
        /\ \A id \in ids : child(id) \in T
    BY UnderStep
  <2>2. \A id : child(id).under = <<r, i>> /\ child(id).of = id
    BY DEF Observation
  <2>3. ids = Loop!IdsOf(IF ledger[i].type = "analysis" THEN ledger[i].entries ELSE {})
    BY DEF Loop!IdsOf
  <2> HIDE DEF child, ids, T
  <2>4. \A k \in children : plan[k].of \in ids /\ plan[k] = child(plan[k].of)
    BY <1>1, <2>1
  <2>5. \A id \in ids : \E k \in children : plan[k].of = id
    <3> SUFFICES ASSUME NEW id \in ids
                 PROVE  \E k \in children : plan[k].of = id
      OBVIOUS
    <3>1. PICK k \in 1..n : plan[k] = child(id)
      BY <2>1 DEF Lists, T
    <3>. QED
      BY <2>2, <3>1
  <2>6. shown = ids
    BY <2>4, <2>5
  <2>7. \A k, l \in children : plan[k].of = plan[l].of => k = l
    <3> SUFFICES ASSUME NEW k \in children, NEW l \in children, plan[k].of = plan[l].of
                 PROVE  k = l
      OBVIOUS
    <3>1. plan[k] = plan[l]
      BY <2>4
    <3>2. ~(k < l) /\ ~(l < k)
      BY <3>1 DEF Lists
    <3>. QED
      BY <1>1, <3>2
  <2>8. f \in Surjection(children, shown) /\ f \in Injection(children, shown)
    BY <2>7 DEF Surjection, Injection, IsInjective
  <2>9. IsFiniteSet(children)
    <3>1. IsFiniteSet(1..n)
      <4>1. 1 \in Int /\ n \in Int
        BY <1>1
      <4>. QED
        BY <4>1, FS_Interval
    <3>2. children \in SUBSET (1..n)
      OBVIOUS
    <3>. QED
      BY <3>1, <3>2, FS_Subset
  <2> HIDE DEF f, children, shown
  <2>10. Cardinality(children) = Cardinality(shown)
    BY <2>8, <2>9, FS_Surjection
  <2>. QED
    BY <2>3, <2>6, <2>10 DEF children, shown
<1> HIDE DEF T
<1>6. \A i \in DOMAIN ledger : ledger[i].round > 0 =>
         Cardinality({k \in {l \in 1..n : plan[l].under = <<ledger[i].round>>} :
                         plan[k].of = i}) = 1
  <2> SUFFICES ASSUME NEW i \in DOMAIN ledger, ledger[i].round > 0
               PROVE  Cardinality({k \in {l \in 1..n : plan[l].under = <<ledger[i].round>>} :
                         plan[k].of = i}) = 1
    OBVIOUS
  <2>1. {k \in {l \in 1..n : plan[l].under = <<ledger[i].round>>} : plan[k].of = i}
        = {k \in 1..n : plan[k].under = <<ledger[i].round>> /\ plan[k].of = i}
    OBVIOUS
  <2>. QED
    BY <1>2, <2>1
<1>7. \A type \in {"strategy", "finalize"} :
         Cardinality({k \in {l \in 1..n : plan[l].under = <<>>} :
                         plan[k].name # "round" /\ ledger[plan[k].of].type = type})
         = IF \E i \in DOMAIN ledger : ledger[i].type = type THEN 1 ELSE 0
  <2> SUFFICES ASSUME NEW type \in {"strategy", "finalize"}
               PROVE  Cardinality({k \in {l \in 1..n : plan[l].under = <<>>} :
                         plan[k].name # "round" /\ ledger[plan[k].of].type = type})
                      = IF \E i \in DOMAIN ledger : ledger[i].type = type THEN 1 ELSE 0
    OBVIOUS
  <2>1. {k \in {l \in 1..n : plan[l].under = <<>>} :
            plan[k].name # "round" /\ ledger[plan[k].of].type = type}
        = {k \in 1..n : /\ plan[k].under = <<>> /\ plan[k].name # "round"
                        /\ ledger[plan[k].of].type = type}
    OBVIOUS
  <2>. QED
    BY <1>4, <2>1
<1>. QED
  BY <1>3, <1>5, <1>6, <1>7 DEF Shows

-----------------------------------------------------------------------------
(* Texts, queries and the results of a catalogue.                          *)

\* The first words of a text are a sequence, empty only if the text is.
LEMMA FirstIsSequence ==
    ASSUME NEW s, IsSequence(s), NEW n \in Nat \ {0}
    PROVE  IsSequence(First(n, s)) /\ (First(n, s) = <<>> <=> s = <<>>)
<1> DEFINE m == IF Len(s) < n THEN Len(s) ELSE n
           T == {s[i] : i \in DOMAIN s}
           r == First(n, s)
<1>1. s \in Seq(T) /\ Len(s) \in Nat
  BY DEF IsSequence
<1>2. m \in 0..Len(s)
  BY <1>1
<1>3. r = SubSeq(s, 1, m)
  BY DEF First
<1> HIDE DEF T, m, r
<1>4. r \in Seq(T) /\ Len(r) = m
  BY <1>1, <1>2, <1>3, SubSeqProperties
<1>5. r = [k \in 1..m |-> r[k]] /\ m \in Nat
  BY <1>1, <1>2, <1>4
<1>6. IsSequence(r)
  BY <1>5, SequenceOf
<1>7. r = <<>> <=> m = 0
  BY <1>4
<1>8. m = 0 <=> Len(s) = 0
  BY <1>1 DEF m
<1>9. s = <<>> <=> Len(s) = 0
  BY <1>1
<1>. QED
  BY <1>6, <1>7, <1>8, <1>9 DEF r

\* The terms taken from a text.
LEMMA TermsAreSequences ==
    ASSUME NEW text \in Texts
    PROVE  /\ IsSequence(MustTerms(text)) /\ MustTerms(text) # <<>>
           /\ IsSequence(ShouldTerms(text))
<1>1. IsSequence(HighSignalTerms) /\ IsSequence(text.words)
  BY TermsAssumption, TextsAssumption DEF IsSequence, ToSet
<1>2. \A S : IsSequence(Signals(text, S))
  BY <1>1, AtIsSequence DEF Signals, Within
<1>3. IsSequence(LeadingWords(text.words))
  BY <1>1, AtIsSequence, FirstIsSequence DEF LeadingWords
<1>4. IsSequence(<<DefaultTerm>>) /\ <<DefaultTerm>> # <<>>
  <2>1. <<DefaultTerm>> = [k \in 1..1 |-> <<DefaultTerm>>[k]]
    OBVIOUS
  <2>. QED
    BY <2>1, SequenceOf
<1>5. IsSequence(First(4, Signals(text, MustSignals)))
  BY <1>2, FirstIsSequence
<1>6. IsSequence(ShouldTerms(text))
  BY <1>2, FirstIsSequence DEF ShouldTerms
<1>. QED
  BY <1>3, <1>4, <1>5, <1>6 DEF MustTerms

\* What is known of a query.
IsQuery(q) ==
    /\ q = [must |-> q.must, should |-> q.should, filters |-> q.filters]
    /\ IsSequence(q.must) /\ q.must # <<>> /\ IsSequence(q.should)

\* The strategy extracted from a text is a query.
LEMMA FirstQueryIsOne ==
    ASSUME NEW text \in Texts
    PROVE  IsQuery(FirstQuery(text))
BY TermsAreSequences DEF FirstQuery, IsQuery

\* The query with the first n should terms of q.
Shortened(q, n) ==
    [q EXCEPT !.should = SubSeq(@, 1, n),
              !.filters = IF n = Len(q.should) THEN q.filters ELSE DropWeakest(q).filters]

\* A query whose should terms and filters are replaced.
LEMMA QueryChanged ==
    ASSUME NEW q, IsQuery(q), NEW t, NEW g
    PROVE  [q EXCEPT !.should = t, !.filters = g]
           = [must |-> q.must, should |-> t, filters |-> g]
<1> DEFINE p == [q EXCEPT !.should = t, !.filters = g]
           h == [q EXCEPT !.should = t]
<1>1. DOMAIN q = {"must", "should", "filters"}
  <2> DEFINE m == q.must
             s == q.should
             f == q.filters
  <2>1. q = [must |-> m, should |-> s, filters |-> f]
    BY DEF IsQuery
  <2> HIDE DEF m, s, f
  <2>. QED
    BY <2>1
<1>2. h = [k \in DOMAIN q |-> IF k = "should" THEN t ELSE q[k]]
  OBVIOUS
<1>3. p = [h EXCEPT !.filters = g]
  OBVIOUS
<1>4. p = [k \in DOMAIN h |-> IF k = "filters" THEN g ELSE h[k]]
  BY <1>3
<1> HIDE DEF p, h
<1>5. DOMAIN h = {"must", "should", "filters"} /\ h["should"] = t /\ h["must"] = q["must"]
  BY <1>1, <1>2
<1>6. p = [k \in {"must", "should", "filters"} |-> IF k = "filters" THEN g ELSE h[k]]
  BY <1>4, <1>5
<1>. QED
  BY <1>5, <1>6 DEF p

\* The queries of a run are those of its texts with some of their last should terms
\* dropped.
LEMMA QueriesAre ==
    /\ \A q : q \in Queries <=>
          \E text \in Texts : \E n \in 0..Len(FirstQuery(text).should) :
              q = Shortened(FirstQuery(text), n)
    /\ \A text \in Texts : FirstQuery(text) \in Queries
<1>1. ASSUME NEW q
      PROVE  q \in Queries <=>
                \E text \in Texts : \E n \in 0..Len(FirstQuery(text).should) :
                    q = Shortened(FirstQuery(text), n)
  <2>1. \A p : Rewrites(p) = {Shortened(p, n) : n \in 0..Len(p.should)}
    BY DEF Rewrites, Shortened
  <2>. QED
    BY <2>1 DEF Queries
<1>2. ASSUME NEW text \in Texts
      PROVE  FirstQuery(text) \in Queries
  <2> DEFINE p == FirstQuery(text)
             n == Len(p.should)
  <2>1. IsQuery(p)
    BY FirstQueryIsOne
  <2>2. n \in 0..n
    <3>1. n \in Nat
      BY <2>1 DEF IsQuery, IsSequence
    <3>. QED
      BY <3>1
  <2>3. SubSeq(p.should, 1, n) = p.should
    BY <2>1, <2>2, PrefixIsSequence DEF IsQuery
  <2> HIDE DEF p
  <2>4. Shortened(p, n) = p
    BY <2>1, <2>3 DEF IsQuery, Shortened
  <2>. QED
    BY <1>1, <2>2, <2>4 DEF p
<1>. QED
  BY <1>1, <1>2

\* A query with fewer should terms is one, and dropping its weakest takes one more.
LEMMA ShortenedIs ==
    ASSUME NEW p, IsQuery(p), NEW n \in 0..Len(p.should)
    PROVE  /\ IsQuery(Shortened(p, n))
           /\ Shortened(p, n).should = SubSeq(p.should, 1, n)
           /\ Shortened(p, n).must = p.must
           /\ n # 0 => DropWeakest(Shortened(p, n)) = Shortened(p, n - 1)
<1> DEFINE q == Shortened(p, n)
           cut == DropWeakest(p).filters
<1>1. q = [must |-> p.must, should |-> SubSeq(p.should, 1, n),
           filters |-> IF n = Len(p.should) THEN p.filters ELSE cut]
  BY QueryChanged DEF Shortened
<1>2. cut = p.filters \ {"schoolType", "workExperienceRange", "degree"}
  <2>1. DropWeakest(p) = [must |-> p.must, should |-> Front(p.should),
                          filters |-> p.filters \ {"schoolType", "workExperienceRange", "degree"}]
    BY QueryChanged DEF DropWeakest
  <2>. QED
    BY <2>1
<1>3. IsSequence(SubSeq(p.should, 1, n)) /\ Len(p.should) \in Nat
  <2>1. IsSequence(p.should)
    BY DEF IsQuery
  <2>. QED
    BY <2>1, PrefixIsSequence, AppendKeeps
<1>4. IsQuery(q)
  <2> HIDE DEF q, cut
  <2>. QED
    BY <1>1, <1>3 DEF IsQuery
<1>5. ASSUME n # 0
      PROVE  DropWeakest(q) = Shortened(p, n - 1)
  <2>1. Front(q.should) = SubSeq(p.should, 1, n - 1)
    BY <1>1, <1>5, PrefixIsSequence DEF IsQuery
  <2>2. DropWeakest(q) = [must |-> p.must, should |-> SubSeq(p.should, 1, n - 1), filters |-> cut]
    <3>1. DropWeakest(q) = [must |-> q.must, should |-> Front(q.should),
                            filters |-> q.filters \ {"schoolType", "workExperienceRange", "degree"}]
      BY <1>4, QueryChanged DEF DropWeakest
    <3>2. q.filters \ {"schoolType", "workExperienceRange", "degree"} = cut
      BY <1>1, <1>2
    <3>3. q.must = p.must
      BY <1>1
    <3> HIDE DEF q, cut
    <3>. QED
      BY <2>1, <3>1, <3>2, <3>3
  <2>3. n - 1 # Len(p.should)
    BY <1>3
  <2>4. Shortened(p, n - 1) = [must |-> p.must, should |-> SubSeq(p.should, 1, n - 1),
                               filters |-> cut]
    BY <2>3, QueryChanged DEF Shortened
  <2>. QED
    BY <2>2, <2>4
<1>. QED
  BY <1>1, <1>4, <1>5

\* Dropping the weakest term of a query of the run gives another.
LEMMA QueriesClosed ==
    ASSUME NEW q \in Queries
    PROVE  IsQuery(q) /\ (q.should # <<>> => DropWeakest(q) \in Queries)
<1>1. PICK text \in Texts : \E n \in 0..Len(FirstQuery(text).should) :
                               q = Shortened(FirstQuery(text), n)
  BY QueriesAre
<1> DEFINE p == FirstQuery(text)
<1>2. PICK n \in 0..Len(p.should) : q = Shortened(p, n)
  BY <1>1
<1>0. IsQuery(p)
  BY FirstQueryIsOne
<1> HIDE DEF p
<1>3. IsQuery(q) /\ q.should = SubSeq(p.should, 1, n)
  BY <1>0, <1>2, ShortenedIs
<1>4. ASSUME q.should # <<>>
      PROVE  DropWeakest(q) \in Queries
  <2>1. Len(q.should) = n
    BY <1>0, <1>3, PrefixIsSequence DEF IsQuery
  <2>2. n # 0
    BY <1>3, <1>4, <2>1 DEF IsQuery, IsSequence
  <2>3. DropWeakest(q) = Shortened(p, n - 1)
    BY <1>0, <1>2, <2>2, ShortenedIs
  <2>0. n - 1 \in 0..Len(p.should)
    <3>1. Len(p.should) \in Nat
      BY <1>0 DEF IsQuery, IsSequence
    <3>. QED
      BY <2>2, <3>1
  <2>. QED
    BY <2>3, <2>0, QueriesAre DEF p
<1>. QED
  BY <1>3, <1>4

\* The number of terms found in a resume is a number.
LEMMA HitsTyped ==
    ASSUME NEW terms, IsSequence(terms), NEW haystack
    PROVE  Hits(terms, haystack) \in Nat
BY PositionsFinite, FS_CardinalityType DEF Hits

\* A score is a share of at most 1, in ten-thousandths.
LEMMA ScoreTyped ==
    ASSUME NEW q, IsQuery(q), NEW resume, resume.workYear \in Nat
    PROVE  MatchScore(resume, q) \in 0..10000
<1> DEFINE haystack == resume.terms \cup resume.more
           must == Len(q.must)
           should == IF q.should = <<>> THEN 1 ELSE Len(q.should)
           years == IF resume.workYear > 10 THEN 10 ELSE resume.workYear
           a == Hits(q.must, haystack)
           b == Hits(q.should, haystack)
           shares == 3500 * a * should + 2000 * b * must
           score == 3500 + 50 * years + (2 * shares + must * should) \div (2 * must * should)
<1>1. must \in Nat \ {0} /\ should \in Nat \ {0}
  BY DEF IsQuery, IsSequence
<1>2. years \in Nat
  OBVIOUS
<1>3. a \in Nat /\ b \in Nat
  BY HitsTyped DEF IsQuery
<1>4. MatchScore(resume, q) = IF score > 9900 THEN 9900 ELSE score
  BY DEF MatchScore
<1> HIDE DEF must, should, years, a, b
<1>5. must * should \in Nat \ {0}
  BY <1>1
<1>6. a * should \in Nat /\ b * must \in Nat
  BY <1>1, <1>3
<1>7. shares \in Nat
  <2>1. 3500 * a * should = 3500 * (a * should) /\ 2000 * b * must = 2000 * (b * must)
    BY <1>1, <1>3
  <2> DEFINE x == a * should
             y == b * must
  <2>2. shares = 3500 * x + 2000 * y
    BY <2>1
  <2> HIDE DEF x, y, shares
  <2>. QED
    BY <1>6, <2>2 DEF x, y
<1> HIDE DEF shares
<1>8. (2 * shares + must * should) \div (2 * must * should) \in Nat
  <2> DEFINE w == must * should
  <2>1. 2 * must * should = 2 * w
    BY <1>1
  <2>2. w \in Nat \ {0}
    BY <1>5
  <2> HIDE DEF w
  <2>3. 2 * shares + w \in Nat /\ 2 * w \in Nat /\ 2 * w > 0
    BY <1>7, <2>2
  <2>4. \A i \in Nat, j \in Nat : j > 0 => i \div j \in Nat
    OBVIOUS
  <2>5. (2 * shares + w) \div (2 * w) \in Nat
    BY <2>3, <2>4
  <2>. QED
    BY <2>1, <2>5 DEF w
<1>9. score \in Nat
  <2> DEFINE z == (2 * shares + must * should) \div (2 * must * should)
  <2>1. z \in Nat
    BY <1>8
  <2> HIDE DEF z
  <2>2. 3500 + 50 * years + z \in Nat
    BY <1>2, <2>1
  <2>. QED
    BY <2>2 DEF z
<1> HIDE DEF score
<1>. QED
  BY <1>4, <1>9

\* What a search for q finds in a catalogue.
FoundBy(catalogue, q) == {i \in DOMAIN catalogue : Found(catalogue[i], q)}

\* The results of a query are the positions of the resumes it finds, each once.
LEMMA ResultsAre ==
    ASSUME NEW catalogue, IsSequence(catalogue), Len(catalogue) <= MaxResumes, NEW q
    PROVE  LET found == Results(catalogue, q)
               n == Cardinality(FoundBy(catalogue, q))
           IN  /\ n \in 0..MaxResumes /\ Len(found) = n /\ DOMAIN found = 1..n
               /\ \A k \in 1..n : found[k] \in FoundBy(catalogue, q)
               /\ \A k, l \in 1..n : found[k] = found[l] => k = l
               /\ \A i \in FoundBy(catalogue, q) : \E k \in 1..n : found[k] = i
               /\ FoundBy(catalogue, q) \subseteq 1..MaxResumes
<1> DEFINE F == FoundBy(catalogue, q)
           n == Cardinality(F)
           found == Results(catalogue, q)
<1>1. F \in SUBSET Int /\ IsFiniteSet(F) /\ F \subseteq DOMAIN catalogue
  BY PositionsFinite DEF FoundBy
<1>2. found = Ascending(F)
  BY DEF Results, FoundBy
<1>3. DOMAIN catalogue = 1..Len(catalogue) /\ Len(catalogue) \in Nat
  BY AppendKeeps
<1> HIDE DEF F, n, found
<1>4. /\ n \in Nat /\ Len(found) = n /\ DOMAIN found = 1..n /\ found \in Seq(F)
      /\ \A i, j \in 1..n : i < j => found[i] < found[j]
      /\ \A x \in F : \E i \in 1..n : found[i] = x
  BY <1>1, <1>2, AscendingLists DEF n
<1>5. \A k \in 1..n : found[k] \in F
  BY <1>4
<1>6. n <= Len(catalogue)
  <2>1. IsFiniteSet(1..Len(catalogue)) /\ Cardinality(1..Len(catalogue)) = Len(catalogue)
    <3>1. 1 \in Int /\ Len(catalogue) \in Int
      BY <1>3
    <3>2. IsFiniteSet(1..Len(catalogue))
          /\ Cardinality(1..Len(catalogue)) = IF 1 > Len(catalogue) THEN 0 ELSE Len(catalogue) - 1 + 1
      BY <3>1, FS_Interval
    <3>. QED
      BY <1>3, <3>2
  <2>2. F \in SUBSET (1..Len(catalogue))
    BY <1>1, <1>3
  <2>. QED
    BY <2>1, <2>2, FS_Subset DEF n
<1>7. MaxResumes \in Nat
  BY ConfigAssumption
<1>8. ASSUME NEW k \in 1..n, NEW l \in 1..n, found[k] = found[l]
      PROVE  k = l
  <2>1. found[k] \in Int /\ found[l] \in Int
    BY <1>1, <1>5
  <2>2. ~(k < l) /\ ~(l < k)
    BY <1>4, <1>8, <2>1
  <2>. QED
    BY <1>4, <2>2
<1>9. F \subseteq 1..MaxResumes
  BY <1>1, <1>3, <1>7
<1>10. n \in 0..MaxResumes
  BY <1>3, <1>4, <1>6, <1>7
<1>. QED
  BY <1>4, <1>5, <1>8, <1>9, <1>10 DEF F, n, found

\* A query that lacks a should term of another finds a part of what that one finds.
LEMMA WeakerFindsLess ==
    ASSUME NEW q \in Queries, q.should # <<>>, NEW catalogue
    PROVE  FoundBy(catalogue, DropWeakest(q)) \subseteq FoundBy(catalogue, q)
<1>1. IsQuery(q)
  BY QueriesClosed
<1> DEFINE s == q.should
           f == Front(s)
<1>2. DropWeakest(q).must = q.must /\ DropWeakest(q).should = f
  BY <1>1 DEF DropWeakest, IsQuery
<1>3. ToSet(f) \subseteq ToSet(s)
  <2>1. IsSequence(s) /\ s # <<>>
    BY <1>1 DEF IsQuery
  <2> DEFINE n == Len(s)
             T == {s[i] : i \in DOMAIN s}
  <2>2. s \in Seq(T) /\ n \in Nat /\ n # 0 /\ DOMAIN s = 1..n
    BY <2>1 DEF IsSequence
  <2>3. n - 1 \in 0..n /\ f = SubSeq(s, 1, n - 1)
    BY <2>2 DEF Front
  <2> HIDE DEF f, s, n, T
  <2>4. f \in Seq(T) /\ Len(f) = n - 1 /\ \A i \in 1..(n - 1) : f[i] = s[i]
    BY <2>2, <2>3, SubSeqProperties DEF n
  <2>5. DOMAIN f = 1..(n - 1)
    BY <2>4
  <2>6. \A i \in DOMAIN f : i \in DOMAIN s /\ f[i] = s[i]
    BY <2>2, <2>4, <2>5
  <2>. QED
    BY <2>6 DEF ToSet
<1> HIDE DEF f, s
<1>. QED
  BY <1>2, <1>3 DEF FoundBy, Found, s

-----------------------------------------------------------------------------
(* Steps of the ledger: their types and their order.                       *)

\* The scenario is one of those given, its schedule normalised.
Given ==
    \E s \in Scenarios :
        scenario = [text |-> s.text, catalogue |-> s.catalogue, langfuse |-> s.langfuse,
                    plan |-> Paging!Normalized(s.schedule)]

\* What is assumed of a scenario, said of the one that is chosen.
LEMMA GivenIs ==
    ASSUME Given
    PROVE  /\ scenario.text \in Texts
           /\ IsSequence(scenario.catalogue) /\ Len(scenario.catalogue) <= MaxResumes
           /\ \A i \in DOMAIN scenario.catalogue : scenario.catalogue[i].workYear \in Nat
           /\ scenario.plan \in [1..MaxRounds -> Nat \ {0}]
<1>1. PICK s \in Scenarios :
         scenario = [text |-> s.text, catalogue |-> s.catalogue, langfuse |-> s.langfuse,
                     plan |-> Paging!Normalized(s.schedule)]
  BY DEF Given
<1>2. /\ scenario.text = s.text /\ scenario.catalogue = s.catalogue
      /\ scenario.plan = Paging!Normalized(s.schedule)
  BY <1>1
<1>3. /\ s.text \in Texts /\ s.schedule \in Seq(Nat \ {0}) \ {<<>>}
      /\ s.catalogue \in Seq(ToSet(s.catalogue)) /\ Len(s.catalogue) <= MaxResumes
      /\ \A resume \in ToSet(s.catalogue) : resume.workYear \in Nat
  BY ScenariosAssumption
<1>4. IsSequence(s.catalogue)
  BY <1>3 DEF IsSequence, ToSet
<1>5. Paging!Normalized(s.schedule) \in [1..MaxRounds -> Nat \ {0}]
  <2> DEFINE q == s.schedule
  <2>1. Len(q) \in Nat \ {0} /\ \A i \in 1..Len(q) : q[i] \in Nat \ {0}
    <3>1. q \in Seq(Nat \ {0}) /\ q # <<>>
      BY <1>3
    <3> HIDE DEF q
    <3>. QED
      BY <3>1
  <2> HIDE DEF q
  <2>2. \A r \in 1..MaxRounds : (IF r <= Len(q) THEN q[r] ELSE q[Len(q)]) \in Nat \ {0}
    BY <2>1, ConfigAssumption
  <2>. QED
    BY <2>2 DEF Paging!Normalized, q
<1>. QED
  BY <1>2, <1>3, <1>4, <1>5 DEF ToSet

\* A step that the loop makes is a step.
LEMMA NewStepsTyped ==
    ASSUME Loop!TypeOK, NEW type \in Loop!StepTypes
    PROVE  /\ Loop!NextStep(type) \in Loop!Step /\ Loop!SecondStep(type) \in Loop!Step
           /\ \A entries \in SUBSET Loop!Entry :
                /\ [Loop!NextStep(type) EXCEPT !.entries = entries] \in Loop!Step
                /\ [Loop!SecondStep(type) EXCEPT !.entries = entries] \in Loop!Step
           /\ \A query \in Queries : [Loop!NextStep(type) EXCEPT !.query = query] \in Loop!Step
           /\ \A source \in Loop!StopReasons \cup {"none"} :
                [Loop!NextStep(type) EXCEPT !.source = source] \in Loop!Step
<1>1. Len(steps) \in Nat /\ currentRound \in 0..MaxRounds
  BY DEF Loop!TypeOK
<1> DEFINE blank(no) == [no |-> no, round |-> currentRound, type |-> type,
                         query |-> NoStrategy, entries |-> {}, source |-> "none"]
<1>2. ASSUME NEW no \in Nat
      PROVE  blank(no) \in Loop!Step
  BY <1>1 DEF Loop!Step
<1>3. \A step \in Loop!Step :
        /\ \A entries \in SUBSET Loop!Entry : [step EXCEPT !.entries = entries] \in Loop!Step
        /\ \A query \in Queries : [step EXCEPT !.query = query] \in Loop!Step
        /\ \A source \in Loop!StopReasons \cup {"none"} :
              [step EXCEPT !.source = source] \in Loop!Step
  BY DEF Loop!Step
<1>4. Loop!NextStep(type) = blank(Len(steps) + 1) /\ Loop!SecondStep(type) = blank(Len(steps) + 2)
  BY DEF Loop!NextStep, Loop!SecondStep, Loop!BlankStep
<1> HIDE DEF blank
<1>5. Loop!NextStep(type) \in Loop!Step /\ Loop!SecondStep(type) \in Loop!Step
  BY <1>1, <1>2, <1>4
<1>. QED
  BY <1>3, <1>5, Zenon

\* What of a new step follows from where it is made.
LEMMA NewStepsSay ==
    ASSUME NEW type
    PROVE  /\ Loop!NextStep(type).round = currentRound /\ Loop!NextStep(type).type = type
           /\ \A entries : /\ [Loop!NextStep(type) EXCEPT !.entries = entries].round = currentRound
                           /\ [Loop!NextStep(type) EXCEPT !.entries = entries].type = type
                           /\ [Loop!NextStep(type) EXCEPT !.entries = entries].entries = entries
                           /\ [Loop!SecondStep(type) EXCEPT !.entries = entries].round = currentRound
                           /\ [Loop!SecondStep(type) EXCEPT !.entries = entries].type = type
           /\ \A query : /\ [Loop!NextStep(type) EXCEPT !.query = query].round = currentRound
                         /\ [Loop!NextStep(type) EXCEPT !.query = query].type = type
           /\ \A source : /\ [Loop!NextStep(type) EXCEPT !.source = source].round = currentRound
                          /\ [Loop!NextStep(type) EXCEPT !.source = source].type = type
BY DEF Loop!NextStep, Loop!SecondStep, Loop!BlankStep

\* The ledger is in the order of its rounds, none of them later than the current one, and
\* the strategy's steps are those of round 0.
Orderly(q, round) ==
    /\ q \in Seq(Loop!Step)
    /\ \A i \in DOMAIN q :
          q[i].round <= round /\ (q[i].type = "strategy" <=> q[i].round = 0)
    /\ \A i, j \in DOMAIN q : i < j => q[i].round <= q[j].round

\* A step that keeps q in order.
Fits(q, e, round) ==
    /\ e \in Loop!Step /\ e.round <= round
    /\ e.type = "strategy" <=> e.round = 0
    /\ \A i \in DOMAIN q : q[i].round <= e.round

\* Such a step keeps it.
LEMMA OrderlyAppend ==
    ASSUME NEW q, NEW e, NEW round, Orderly(q, round), Fits(q, e, round)
    PROVE  Orderly(Append(q, e), round)
<1>1. /\ Append(q, e) \in Seq(Loop!Step) /\ Len(q) \in Nat
      /\ DOMAIN q = 1..Len(q) /\ DOMAIN Append(q, e) = 1..(Len(q) + 1)
      /\ \A i \in 1..Len(q) : Append(q, e)[i] = q[i]
      /\ Append(q, e)[Len(q) + 1] = e
  BY AppendProperties DEF Orderly, Fits
<1>2. \A i \in 1..(Len(q) + 1) : i \in 1..Len(q) \/ i = Len(q) + 1
  BY <1>1
<1> DEFINE a == Append(q, e)
<1>3. \A i \in DOMAIN a : a[i].round <= round /\ (a[i].type = "strategy" <=> a[i].round = 0)
  BY <1>1, <1>2 DEF Orderly, Fits
<1>4. ASSUME NEW i \in DOMAIN a, NEW j \in DOMAIN a, i < j
      PROVE  a[i].round <= a[j].round
  <2>1. i \in 1..Len(q)
    BY <1>1, <1>2, <1>4
  <2>2. CASE j \in 1..Len(q)
    BY <1>1, <1>4, <2>1, <2>2 DEF Orderly
  <2>3. CASE j = Len(q) + 1
    BY <1>1, <2>1, <2>3 DEF Fits
  <2>. QED
    BY <1>1, <1>2, <2>2, <2>3
<1>. QED
  BY <1>1, <1>3, <1>4 DEF Orderly

\* A step of the current round fits ...
LEMMA CurrentFits ==
    ASSUME NEW q, NEW e, NEW round, Orderly(q, round), round \in Nat, e \in Loop!Step, e.round = round,
           e.type = "strategy" <=> round = 0
    PROVE  Fits(q, e, round)
BY DEF Orderly, Fits

\* ... and so does a copy of the last one.
LEMMA LastFits ==
    ASSUME NEW q, NEW round, Orderly(q, round), Len(q) # 0
    PROVE  Fits(q, q[Len(q)], round)
<1>1. DOMAIN q = 1..Len(q) /\ Len(q) \in DOMAIN q /\ Len(q) \in Nat
  BY DEF Orderly
<1>2. q[Len(q)] \in Loop!Step
  BY <1>1, ElementOfSeq DEF Orderly
<1>3. q[Len(q)].round \in Int
  BY <1>2 DEF Loop!Step
<1>. QED
  BY <1>1, <1>2, <1>3 DEF Orderly, Fits

\* At the judgement the last patch holds two steps.
JudgeInv ==
    pc = "judge" =>
        /\ Len(steps) >= 2
        /\ steps[Len(steps) - 1].round = currentRound /\ steps[Len(steps)].round = currentRound
        /\ steps[Len(steps) - 1].type = "analysis" /\ steps[Len(steps)].type = "shortlist"

\* What a repeated patch does to the ledger.
LEMMA PatchAppends ==
    ASSUME IsSequence(steps), EndedInv, LedgerInv, JudgeInv, PatchRepeated
    PROVE  /\ Len(steps) # 0
           /\ IF pc = "judge"
              THEN steps' = Append(Append(steps, steps[Len(steps) - 1]), steps[Len(steps)])
              ELSE steps' = Append(steps, steps[Len(steps)])
<1>1. steps' = steps \o LastPatch /\ LastPatch # <<>>
  BY DEF PatchRepeated
<1>2. Len(steps) \in Nat /\ DOMAIN steps = 1..Len(steps)
  BY AppendKeeps
<1> DEFINE T == {steps[i] : i \in DOMAIN steps}
           n == Len(steps)
<1>3. steps \in Seq(T)
  BY DEF IsSequence
<1>4. \A i \in 1..n : steps[i] \in T
  BY <1>2
<1>5. CASE pc = "judge"
  <2>1. n >= 2 /\ LastPatch = SubSeq(steps, n - 1, n)
    BY <1>5 DEF JudgeInv, LastPatch
  <2> DEFINE x == steps[n - 1]
             y == steps[n]
  <2>2. x \in T /\ y \in T
    <3>1. n - 1 \in 1..n /\ n \in 1..n
      BY <1>2, <2>1
    <3> HIDE DEF T, n
    <3>. QED
      BY <1>4, <3>1
  <2>3. SubSeq(steps, n - 1, n) = <<x, y>>
    <3> DEFINE s == SubSeq(steps, n - 1, n)
    <3>1. n \in Nat /\ n - 1 \in 1..n /\ n \in 0..n
      BY <1>2, <2>1
    <3> HIDE DEF T
    <3>2. s = [i \in 1..(n - (n - 1) + 1) |-> steps[(n - 1) + i - 1]]
      BY <3>1
    <3> HIDE DEF n, s
    <3>3. n - (n - 1) + 1 = 2 /\ (n - 1) + 1 - 1 = n - 1 /\ (n - 1) + 2 - 1 = n
      BY <3>1
    <3>4. s = [i \in 1..2 |-> steps[(n - 1) + i - 1]]
      BY <3>2, <3>3
    <3> DEFINE f == [i \in 1..2 |-> steps[(n - 1) + i - 1]]
    <3>5. f[1] = x /\ f[2] = y /\ f = [i \in 1..2 |-> f[i]]
      BY <3>3
    <3> HIDE DEF f, x, y
    <3>6. f = <<x, y>>
      BY <3>5
    <3>. QED
      BY <3>4, <3>6 DEF s, f
  <2> HIDE DEF T, n
  <2> HIDE DEF x, y
  <2>4. steps \o <<x, y>> = Append(Append(steps, x), y)
    BY <1>3, <2>2
  <2>. QED
    BY <1>1, <1>2, <1>5, <2>1, <2>3, <2>4 DEF n, x, y
<1>6. CASE pc # "judge"
  <2>1. LastPatch = <<Last(steps)>> /\ Recorded(steps, "strategy")
    BY <1>1, <1>6 DEF LastPatch, LedgerInv, Ended
  <2>2. n # 0
    BY <1>2, <2>1 DEF Recorded
  <2> DEFINE y == steps[n]
  <2>3. LastPatch = <<y>> /\ y \in T
    BY <1>2, <1>4, <2>1, <2>2 DEF Last
  <2> HIDE DEF T, n, y
  <2>4. steps \o <<y>> = Append(steps, y)
    BY <1>3, <2>3
  <2>. QED
    BY <1>1, <1>6, <2>2, <2>3, <2>4 DEF y, n
<1>. QED
  BY <1>2, <1>5, <1>6 DEF JudgeInv

-----------------------------------------------------------------------------
(* The workflow's data: the types of its memory and of the row, the        *)
(* queries and the offsets.                                                *)

\* How many searches have returned.
Searches == IF pc = "search" THEN currentRound - 1 ELSE currentRound

\* The types of the workflow, with what they rest on: a strategy exists while a round is
\* under way, who is looked at is in the catalogue, the ledger is in order, and an offset
\* has moved by at most the catalogue's size in each search.
DataInv ==
    /\ Loop!TypeOK /\ Given
    /\ pc \in InRounds => strategy \in Queries
    /\ page \cup admitted \subseteq DOMAIN scenario.catalogue
    /\ Orderly(steps, currentRound) /\ JudgeInv
    /\ offsets \in [Queries -> 0..(Searches * MaxResumes)]

\* A bound that grows by MaxResumes in each of at most five rounds.
LEMMA Products ==
    /\ \A c, d \in 0..5, m \in Nat : c <= d => c * m <= d * m /\ c * m \in Nat
    /\ \A c \in 1..5, m \in Nat : (c - 1) * m + m = c * m
<1>1. ASSUME NEW c \in 0..5, NEW d \in 0..5, NEW m \in Nat, c <= d
      PROVE  c * m <= d * m /\ c * m \in Nat
  <2>1. c \in {0, 1, 2, 3, 4, 5} /\ d \in {0, 1, 2, 3, 4, 5}
    OBVIOUS
  <2>. QED
    BY <1>1, <2>1
<1>2. ASSUME NEW c \in 1..5, NEW m \in Nat
      PROVE  (c - 1) * m + m = c * m
  <2>1. c \in {1, 2, 3, 4, 5}
    OBVIOUS
  <2>. QED
    BY <2>1
<1>. QED
  BY <1>1, <1>2

\* What a search returns: a part of the strategy's results, by their positions from 0.
LEMMA ReturnedIs ==
    ASSUME Given, NEW q \in Queries, currentRound \in Nat
    PROVE  LET n == Len(Results(scenario.catalogue, q))
               size == scenario.plan[currentRound]
               no == offsets[q] \div size + 1
           IN  /\ n \in 0..MaxResumes
               /\ Paging!Returned(q) = {i \in 0..(n - 1) : (no - 1) * size <= i /\ i < no * size}
<1> DEFINE total == [s \in Queries |-> Len(Results(scenario.catalogue, s))]
           n == Len(Results(scenario.catalogue, q))
           size == scenario.plan[currentRound]
           no == offsets[q] \div size + 1
<1>1. n \in 0..MaxResumes
  BY GivenIs, ResultsAre
<1>2. Paging!FetchSize = size
  <2>1. currentRound - 1 + 1 = currentRound
    OBVIOUS
  <2>. QED
    BY <2>1 DEF Paging!FetchSize
<1>3. Paging!PageNo(offsets[q]) = no
  BY <1>2 DEF Paging!PageNo
<1>4. total[q] = n
  OBVIOUS
<1> HIDE DEF n, size, no
<1>5. Paging!Returned(q)
      = {i \in 0..(total[q] - 1) : (no - 1) * size <= i /\ i < no * size}
  BY <1>2, <1>3 DEF Paging!Returned, Paging!Page
<1> HIDE DEF total
<1>. QED
  BY <1>1, <1>4, <1>5 DEF n, size, no

\* A search gives resumes of the catalogue, and as many as its offset moves.
LEMMA SearchGives ==
    ASSUME DataInv, pc = "search", currentRound # 0, SearchReturns
    PROVE  /\ page' \in SUBSET (1..MaxResumes) /\ page' \subseteq DOMAIN scenario.catalogue
           /\ offsets' \in [Queries -> 0..(currentRound * MaxResumes)]
<1> DEFINE q == strategy
           found == Results(scenario.catalogue, q)
           n == Len(found)
           R == Paging!Returned(q)
<1>1. q \in Queries /\ Given /\ currentRound \in 1..5 /\ MaxResumes \in Nat
  BY ConfigAssumption DEF DataInv, InRounds, Loop!TypeOK
<1>2. n \in 0..MaxResumes /\ R \subseteq 0..(n - 1)
  BY <1>1, ReturnedIs
<1>3. page' = {found[i + 1] : i \in R}
  BY DEF SearchReturns
<1>4. \A k \in 1..n : found[k] \in 1..MaxResumes /\ found[k] \in DOMAIN scenario.catalogue
  <2>1. IsSequence(scenario.catalogue) /\ Len(scenario.catalogue) <= MaxResumes
    BY <1>1, GivenIs
  <2>. QED
    <3>1. \A k \in 1..Cardinality(FoundBy(scenario.catalogue, q)) :
             found[k] \in FoundBy(scenario.catalogue, q)
      BY <2>1, ResultsAre
    <3>2. /\ n = Cardinality(FoundBy(scenario.catalogue, q))
          /\ FoundBy(scenario.catalogue, q) \subseteq 1..MaxResumes
      BY <2>1, ResultsAre
    <3>3. FoundBy(scenario.catalogue, q) \subseteq DOMAIN scenario.catalogue
      BY DEF FoundBy
    <3> HIDE DEF found, q, n
    <3>. QED
      BY <3>1, <3>2, <3>3
<1> DEFINE added == Paging!Cardinality(R)
<1>5. offsets' = [offsets EXCEPT ![q] = @ + added]
  BY DEF SearchReturns, Paging!Advance
<1>6. added = Cardinality(R)
  BY DEF Paging!Cardinality, Cardinality
<1> HIDE DEF q, found, n, R, added
<1>7. page' \in SUBSET (1..MaxResumes) /\ page' \subseteq DOMAIN scenario.catalogue
  <2>1. \A i \in R : i + 1 \in 1..n
    BY <1>1, <1>2
  <2>. QED
    BY <1>3, <1>4, <2>1
<1>8. added \in 0..MaxResumes
  <2>1. 0 \in Int /\ n - 1 \in Int /\ n \in Nat
    BY <1>1, <1>2
  <2>2. IsFiniteSet(0..(n - 1))
        /\ Cardinality(0..(n - 1)) = IF 0 > n - 1 THEN 0 ELSE (n - 1) - 0 + 1
    BY <2>1, FS_Interval
  <2>3. Cardinality(0..(n - 1)) = n
    BY <1>2, <2>1, <2>2
  <2>4. R \in SUBSET (0..(n - 1))
    BY <1>2
  <2>5. Cardinality(R) \in Nat /\ Cardinality(R) <= n
    BY <2>2, <2>3, <2>4, FS_Subset, FS_CardinalityType
  <2>. QED
    BY <1>1, <1>2, <1>6, <2>5
<1> DEFINE low == (currentRound - 1) * MaxResumes
           high == currentRound * MaxResumes
<1>9. low + MaxResumes = high /\ low \in Nat /\ high \in Nat
  <2>1. currentRound - 1 \in 0..5 /\ currentRound \in 0..5
    BY <1>1
  <2>. QED
    BY <1>1, <2>1, Products
<1>10. offsets \in [Queries -> 0..low]
  BY DEF DataInv, Searches
<1> HIDE DEF low, high
<1>11. \A s \in Queries : offsets[s] + added \in 0..high /\ offsets[s] \in 0..high
  BY <1>1, <1>8, <1>9, <1>10
<1>. QED
  BY <1>5, <1>7, <1>10, <1>11 DEF high

-----------------------------------------------------------------------------
(* Each step keeps them.                                                   *)

\* The reflector goes on with a query of the scenario's.
LEMMA ReflectionStays ==
    ASSUME NEW q \in Queries, NEW round, NEW max, NEW new
    PROVE  Reflection(q, round, max, new).nextQuery \in Queries
BY QueriesClosed DEF Reflection

\* The range of a score, a name the provers need not look into.
ScoreRange == 0..10000

\* The scores of the admitted resumes.
LEMMA ScoresTyped ==
    ASSUME DataInv, pc \in InRounds
    PROVE  Scores \in [admitted -> ScoreRange]
<1>1. /\ \A i \in DOMAIN scenario.catalogue : scenario.catalogue[i].workYear \in Nat
      /\ admitted \in SUBSET (DOMAIN scenario.catalogue)
  BY GivenIs DEF DataInv
<1>2. IsQuery(strategy)
  BY QueriesClosed DEF DataInv
<1>3. \A resume : resume.workYear \in Nat => MatchScore(resume, strategy) \in ScoreRange
  BY <1>2, ScoreTyped DEF ScoreRange
<1>4. ASSUME NEW r \in admitted
      PROVE  MatchScore(scenario.catalogue[r], strategy) \in ScoreRange
  BY <1>1, <1>3
<1>. QED
  BY <1>4, Zenon DEF Scores

\* What is recorded of an analysis are entries.
LEMMA ScoredEntries ==
    ASSUME Loop!TypeOK, NEW scores \in [admitted -> ScoreRange]
    PROVE  Loop!Analyses(scores) \in SUBSET Loop!Entry
<1>1. ASSUME NEW r \in admitted
      PROVE  Loop!Clamp(scores[r]) \in Nat
  <2> DEFINE score == scores[r]
  <2>1. score \in ScoreRange
    BY Zenon
  <2> HIDE DEF score
  <2>2. Loop!Clamp(score) \in Nat
    BY <2>1 DEF ScoreRange, Loop!Clamp, Loop!AtMost, Loop!AtLeast
  <2>. QED
    BY <2>2 DEF score
<1>2. currentRound \in Nat
  BY ConfigAssumption DEF Loop!TypeOK
<1>. QED
  BY <1>1, <1>2 DEF Loop!TypeOK, Loop!Analyses, Loop!Entry

\* The facts of the workflow's place that a new step of its ledger depends on.
AtPlace ==
    /\ pc = "extract" => currentRound = 0
    /\ pc \in (InRounds \ {"begin"}) \cup {"stop", "finalize"} => currentRound # 0

\* Round 0 is over once a round begins.
LEMMA PlaceIs ==
    ASSUME StageInv, ToldInv
    PROVE  AtPlace
<1>1. Loop!EffectiveMinRounds \in 3..MaxRounds /\ MaxRounds \in 3..5 /\ currentRound \in 0..MaxRounds
  BY MinRoundsFit, ConfigAssumption DEF StageInv
<1>. QED
  BY <1>1 DEF StageInv, ToldInv, AtPlace, InRounds

\* A step appends one entry to the ledger, or two, and they fit.
AppendsOne(e) == Fits(steps, e, currentRound) /\ steps' = Append(steps, e)

\* Two of them.
AppendsTwo(e, f) ==
    /\ Fits(steps, e, currentRound) /\ Fits(Append(steps, e), f, currentRound)
    /\ steps' = Append(Append(steps, e), f)

\* A new step of the current round fits.
LEMMA NewFits ==
    ASSUME DataInv, NEW e \in Loop!Step, e.round = currentRound,
           e.type = "strategy" <=> currentRound = 0, steps' = Append(steps, e)
    PROVE  AppendsOne(e)
<1>1. currentRound \in Nat
  BY ConfigAssumption DEF DataInv, Loop!TypeOK
<1>. QED
  BY <1>1, CurrentFits DEF DataInv, AppendsOne

\* The ranking appends its two steps.
Ranks(top) ==
    /\ top \in SUBSET (retained \cup Loop!Analyses(Scores))
    /\ retained' = top /\ finalShortlist' = top
    /\ steps' = Append(Append(steps,
                    [Loop!NextStep("analysis") EXCEPT !.entries = Loop!Analyses(Scores)]),
                    [Loop!SecondStep("shortlist") EXCEPT !.entries = top])
    /\ noProgress' = Loop!NoProgressAfter(top)
    /\ previousSignature' = Loop!IdsOf(top)

\* The ranking appends an analysis and a shortlist of the current round.
LEMMA RanksTyped ==
    ASSUME DataInv, AtPlace, Loop!AnalyseWith(Scores)
    PROVE  \E top \in SUBSET Loop!Entry :
              LET e == [Loop!NextStep("analysis") EXCEPT !.entries = Loop!Analyses(Scores)]
                  f == [Loop!SecondStep("shortlist") EXCEPT !.entries = top]
              IN  /\ Ranks(top) /\ AppendsTwo(e, f)
                  /\ e.type = "analysis" /\ e.round = currentRound
                  /\ f.type = "shortlist" /\ f.round = currentRound
<1>1. PICK top : Ranks(top)
  BY DEF Loop!AnalyseWith, Ranks
<1>2. pc = "analyse" /\ currentRound # 0 /\ currentRound \in Nat
  BY ConfigAssumption DEF Loop!AnalyseWith, DataInv, Loop!TypeOK, AtPlace, InRounds
<1>3. Loop!Analyses(Scores) \in SUBSET Loop!Entry
  <2>1. pc \in InRounds
    BY <1>2 DEF InRounds
  <2>2. Scores \in [admitted -> ScoreRange]
    BY <2>1, ScoresTyped, Zenon
  <2>3. Loop!TypeOK
    BY Zenon DEF DataInv
  <2>. QED
    BY <2>2, <2>3, ScoredEntries
<1>4. top \in SUBSET Loop!Entry
  BY <1>1, <1>3 DEF Ranks, DataInv, Loop!TypeOK
<1> DEFINE e == [Loop!NextStep("analysis") EXCEPT !.entries = Loop!Analyses(Scores)]
           f == [Loop!SecondStep("shortlist") EXCEPT !.entries = top]
<1>5. e \in Loop!Step /\ f \in Loop!Step
  <2>1. "analysis" \in Loop!StepTypes /\ "shortlist" \in Loop!StepTypes
    BY DEF Loop!StepTypes
  <2>. QED
    BY <1>3, <1>4, <2>1, NewStepsTyped DEF DataInv
<1>6. e.round = currentRound /\ e.type = "analysis" /\ f.round = currentRound /\ f.type = "shortlist"
  BY NewStepsSay
<1>7. steps' = Append(Append(steps, e), f)
  BY <1>1 DEF Ranks
<1> HIDE DEF e, f
<1>8. Fits(steps, e, currentRound) /\ Orderly(Append(steps, e), currentRound)
  BY <1>2, <1>5, <1>6, CurrentFits, OrderlyAppend DEF DataInv
<1>9. Fits(Append(steps, e), f, currentRound)
  BY <1>2, <1>5, <1>6, <1>8, CurrentFits
<1>. QED
  BY <1>1, <1>4, <1>6, <1>7, <1>8, <1>9 DEF AppendsTwo, e, f

\* Whatever happens appends steps that keep the ledger in order, or none.
LEMMA LedgerMoves ==
    ASSUME DataInv, AtPlace, EndedInv, LedgerInv, [Next]_vars
    PROVE  \/ UNCHANGED steps
           \/ \E e : AppendsOne(e)
           \/ \E e, f : AppendsTwo(e, f)
<1>0. /\ \A type \in Loop!StepTypes :
            Loop!NextStep(type) \in Loop!Step
            /\ Loop!NextStep(type).round = currentRound /\ Loop!NextStep(type).type = type
      /\ {"strategy", "search", "dedupe", "stop", "reflection", "finalize"} \subseteq Loop!StepTypes
  BY NewStepsTyped, NewStepsSay DEF DataInv, Loop!StepTypes
<1>stop. \A source \in Loop!StopReasons \cup {"none"} :
            LET e == [Loop!NextStep("stop") EXCEPT !.source = source]
            IN  e \in Loop!Step /\ e.round = currentRound /\ e.type = "stop"
  <2>1. Loop!TypeOK /\ "stop" \in Loop!StepTypes
    BY <1>0 DEF DataInv
  <2>2. \A source \in Loop!StopReasons \cup {"none"} :
           [Loop!NextStep("stop") EXCEPT !.source = source] \in Loop!Step
    BY <2>1, NewStepsTyped
  <2>3. \A source : /\ [Loop!NextStep("stop") EXCEPT !.source = source].round = currentRound
                    /\ [Loop!NextStep("stop") EXCEPT !.source = source].type = "stop"
    BY NewStepsSay
  <2>. QED
    BY <2>2, <2>3
<1>1. CASE ExtractStrategy
  <2>1. steps' = Append(steps, Loop!NextStep("strategy")) /\ currentRound = 0
    BY <1>1 DEF ExtractStrategy, Loop!ExtractStrategy, AtPlace
  <2>. QED
    BY <1>0, <2>1, NewFits
<1>2. CASE SearchReturns
  <2>1. steps' = Append(steps, Loop!SearchStep) /\ currentRound # 0 /\ strategy \in Queries
    BY <1>2 DEF SearchReturns, Loop!SearchReturns, AtPlace, InRounds, DataInv
  <2>2. /\ Loop!SearchStep \in Loop!Step /\ Loop!SearchStep.round = currentRound
        /\ Loop!SearchStep.type = "search"
    BY <1>0, <2>1, NewStepsTyped, NewStepsSay DEF DataInv, Loop!SearchStep
  <2>. QED
    BY <2>1, <2>2, NewFits
<1>3. CASE Loop!Dedupe
  <2>1. steps' = Append(steps, Loop!NextStep("dedupe")) /\ currentRound # 0
    BY <1>3 DEF Loop!Dedupe, AtPlace, InRounds
  <2>. QED
    BY <1>0, <2>1, NewFits
<1>4. CASE Loop!AnalyseWith(Scores)
  BY <1>4, RanksTyped
<1>5. CASE Loop!StopByRule
  <2> DEFINE e == [Loop!NextStep("stop") EXCEPT !.source = Loop!RuleStopReason]
  <2>1. steps' = Append(steps, e) /\ currentRound # 0
    BY <1>5 DEF Loop!StopByRule, AtPlace, InRounds
  <2>2. Loop!RuleStopReason \in Loop!StopReasons
    BY DEF Loop!RuleStopReason, Loop!StopReasons
  <2>3. e \in Loop!Step /\ e.round = currentRound /\ e.type = "stop"
    BY <1>stop, <2>2
  <2> HIDE DEF e
  <2>. QED
    BY <2>1, <2>3, NewFits
<1>6. CASE Reflect
  <2> DEFINE q == Reflection(strategy, currentRound, MaxRounds, Cardinality(admitted)).nextQuery
             e == Loop!ReflectionStep(q)
  <2>1. steps' = Append(steps, e) /\ currentRound # 0 /\ strategy \in Queries
    BY <1>6 DEF Reflect, Loop!ReflectWith, AtPlace, InRounds, DataInv
  <2>2. q \in Queries
    BY <2>1, ReflectionStays
  <2> HIDE DEF q
  <2>3. e \in Loop!Step /\ e.round = currentRound /\ e.type = "reflection"
    BY <1>0, <2>2, NewStepsTyped, NewStepsSay DEF DataInv, Loop!ReflectionStep
  <2> HIDE DEF e
  <2>. QED
    BY <2>1, <2>3, NewFits
<1>7. CASE Loop!RecordStop
  <2> DEFINE e == [Loop!NextStep("stop") EXCEPT !.source = stopReason]
  <2>1. steps' = Append(steps, e) /\ currentRound # 0
    BY <1>7 DEF Loop!RecordStop, AtPlace
  <2>2. stopReason \in Loop!StopReasons \cup {"none"}
    BY DEF DataInv, Loop!TypeOK
  <2>3. e \in Loop!Step /\ e.round = currentRound /\ e.type = "stop"
    BY <1>stop, <2>2
  <2> HIDE DEF e
  <2>. QED
    BY <2>1, <2>3, NewFits
<1>8. CASE Loop!Finalize
  <2>1. steps' = Append(steps, Loop!NextStep("finalize")) /\ currentRound # 0
    BY <1>8 DEF Loop!Finalize, AtPlace
  <2>. QED
    BY <1>0, <2>1, NewFits
<1>9. CASE PatchRepeated
  <2> DEFINE n == Len(steps)
             x == steps[n - 1]
             y == steps[n]
  <2>1. /\ n # 0
        /\ IF pc = "judge" THEN steps' = Append(Append(steps, x), y)
                           ELSE steps' = Append(steps, y)
    BY <1>9, PatchAppends DEF DataInv, LedgerInv
  <2>2. Orderly(steps, currentRound) /\ n \in Nat /\ DOMAIN steps = 1..n /\ currentRound \in Nat
    BY AppendKeeps, ConfigAssumption DEF DataInv, LedgerInv, Loop!TypeOK
  <2>3. Fits(steps, y, currentRound)
    BY <2>1, <2>2, LastFits
  <2>4. CASE pc = "judge"
    <3>1. n >= 2 /\ x.round = currentRound /\ y.round = currentRound
      BY <2>4 DEF DataInv, JudgeInv
    <3>2. n - 1 \in DOMAIN steps
      BY <2>2, <3>1
    <3>3. x \in Loop!Step /\ (x.type = "strategy" <=> x.round = 0)
      BY <2>2, <3>2, ElementOfSeq DEF Orderly
    <3>4. y \in Loop!Step /\ (y.type = "strategy" <=> y.round = 0)
      BY <2>3 DEF Fits
    <3> HIDE DEF x, y
    <3>5. Fits(steps, x, currentRound) /\ Orderly(Append(steps, x), currentRound)
      BY <2>2, <3>1, <3>3, CurrentFits, OrderlyAppend
    <3>6. Fits(Append(steps, x), y, currentRound)
      BY <2>2, <3>1, <3>4, <3>5, CurrentFits
    <3>. QED
      BY <2>1, <2>4, <3>5, <3>6 DEF AppendsTwo
  <2> HIDE DEF y
  <2>. QED
    BY <2>1, <2>3, <2>4 DEF AppendsOne
<1>10. CASE \/ Loop!MarkRunning \/ Loop!BeginRound \/ Loop!RecordFailure
           \/ ActivityRaises \/ Loop!PublishTrace
  BY <1>10
     DEF Loop!MarkRunning, Loop!BeginRound, Loop!RecordFailure, ActivityRaises,
         Loop!ActivityRaises, Loop!PublishTrace, Loop!record
<1>11. CASE UNCHANGED loopVars
  BY <1>11 DEF loopVars
<1>. QED
  BY <1>1, <1>2, <1>3, <1>4, <1>5, <1>6, <1>7, <1>8, <1>9, <1>10, <1>11, Zenon
     DEF Next, LoopStep, PublishTrace, Over, vars

\* The ledger stays in order.
LEMMA OrderlyStays ==
    ASSUME DataInv, AtPlace, EndedInv, LedgerInv, [Next]_vars
    PROVE  Orderly(steps', currentRound)
BY LedgerMoves, OrderlyAppend DEF DataInv, AppendsOne, AppendsTwo

\* The round is counted by nobody but the action that begins it.
LEMMA RoundMoves ==
    ASSUME [Next]_vars, currentRound \in 0..MaxRounds
    PROVE  \/ UNCHANGED currentRound
           \/ pc = "begin" /\ pc' = "search" /\ currentRound' = currentRound + 1 /\ UNCHANGED steps
              /\ currentRound' \in 0..MaxRounds
<1>1. CASE Loop!BeginRound
  BY <1>1, ConfigAssumption DEF Loop!BeginRound
<1>2. CASE \/ Loop!MarkRunning \/ ExtractStrategy \/ SearchReturns \/ Loop!Dedupe
           \/ Loop!AnalyseWith(Scores) \/ Loop!StopByRule \/ Reflect \/ Loop!RecordStop
           \/ Loop!Finalize \/ Loop!RecordFailure \/ Loop!PublishTrace \/ ActivityRaises
  BY <1>2
     DEF Loop!MarkRunning, ExtractStrategy, Loop!ExtractStrategy, SearchReturns,
         Loop!SearchReturns, Loop!Dedupe, Loop!AnalyseWith, Loop!StopByRule, Reflect,
         Loop!ReflectWith, Loop!RecordStop, Loop!Finalize, Loop!RecordFailure,
         Loop!PublishTrace, ActivityRaises, Loop!ActivityRaises, Loop!record
<1>3. CASE PatchRepeated \/ UNCHANGED loopVars
  BY <1>3 DEF PatchRepeated, loopVars
<1>. QED
  BY <1>1, <1>2, <1>3, Zenon DEF Next, LoopStep, PublishTrace, Over, vars

\* The offset moves in a search only, the scenario never.
LEMMA AsideMoves ==
    ASSUME [Next]_vars
    PROVE  UNCHANGED scenario /\ (SearchReturns \/ UNCHANGED offsets)
<1>1. ASSUME LoopStep
      PROVE  UNCHANGED scenario /\ (SearchReturns \/ UNCHANGED offsets)
  BY <1>1, Zenon DEF LoopStep, aside
<1>2. CASE ActivityRaises \/ PatchRepeated
  BY <1>2, Zenon DEF ActivityRaises, PatchRepeated
<1>3. CASE UNCHANGED aside \/ UNCHANGED vars
  BY <1>3 DEF aside, vars
<1>. QED
  BY <1>1, <1>2, <1>3, Zenon DEF Next, Over

\* The memory of the workflow and the rest of the row, but for the ledger.
RestTyped ==
    /\ status \in {"queued", "running", "completed", "failed"}
    /\ currentRound \in 0..MaxRounds
    /\ seen \in SUBSET (1..MaxResumes)
    /\ finalShortlist \in SUBSET Loop!Entry
    /\ errorCode \in {"none", "CTS_ERROR", "AGENT_RUN_FAILED"}
    /\ finished \in BOOLEAN /\ (finished <=> status \in {"completed", "failed"})
    /\ traced \in BOOLEAN
    /\ pc \in Loop!TryBody \cup {"start", "failing", "publish", "closed", "escaped"}
    /\ strategy \in Queries \cup {NoStrategy}
    /\ page \in SUBSET (1..MaxResumes)
    /\ admitted \in SUBSET (1..MaxResumes)
    /\ retained \in SUBSET Loop!Entry
    /\ noProgress \in Nat
    /\ previousSignature \in SUBSET (1..MaxResumes)
    /\ stopReason \in Loop!StopReasons \cup {"none"}
    /\ raised \in {"none", "CTS_ERROR", "AGENT_RUN_FAILED"}
    /\ pc \in InRounds => strategy \in Queries
    /\ page \cup admitted \subseteq DOMAIN scenario.catalogue

\* It is what is left of the types beside the ledger.
LEMMA RestIs ==
    /\ DataInv => RestTyped
    /\ (RestTyped /\ steps \in Seq(Loop!Step))' => Loop!TypeOK'
BY DEF DataInv, RestTyped, Loop!TypeOK

\* Every step keeps them.
LEMMA RestStays ==
    ASSUME DataInv, AtPlace, StageInv, EndedInv, [Next]_vars
    PROVE  RestTyped'
<1>0. RestTyped /\ UNCHANGED scenario
  BY RestIs, AsideMoves
<1>00. currentRound' \in 0..MaxRounds
  BY <1>0, RoundMoves DEF RestTyped
<1> USE <1>0, <1>00 DEF RestTyped, Loop!TryBody
<1>1. CASE Loop!MarkRunning
  BY <1>1 DEF Loop!MarkRunning, Loop!memory, StageInv, InRounds
<1>2. CASE ExtractStrategy
  <2>1. FirstQuery(scenario.text) \in Queries
    BY QueriesAre, GivenIs DEF DataInv
  <2>. QED
    BY <1>2, <2>1 DEF ExtractStrategy, Loop!ExtractStrategy
<1>3. CASE Loop!BeginRound
  BY <1>3 DEF Loop!BeginRound, Loop!memory, InRounds
<1>4. CASE SearchReturns
  <2>1. page' \in SUBSET (1..MaxResumes) /\ page' \subseteq DOMAIN scenario.catalogue
    <3>1. pc = "search" /\ currentRound # 0
      BY <1>4 DEF SearchReturns, AtPlace, InRounds
    <3>. QED
      BY <1>4, <3>1, SearchGives
  <2>. QED
    BY <1>4, <2>1 DEF SearchReturns, Loop!SearchReturns, InRounds
<1>5. CASE Loop!Dedupe
  BY <1>5 DEF Loop!Dedupe, Loop!SeenAfter, InRounds
<1>6. CASE Loop!AnalyseWith(Scores)
  <2>1. PICK top \in SUBSET Loop!Entry : Ranks(top)
    BY <1>6, RanksTyped
  <2>2. noProgress' \in Nat
    BY <2>1 DEF Ranks, Loop!NoProgressAfter
  <2>3. previousSignature' \in SUBSET (1..MaxResumes)
    BY <2>1 DEF Ranks, Loop!IdsOf, Loop!Entry
  <2>4. retained' \in SUBSET Loop!Entry /\ finalShortlist' \in SUBSET Loop!Entry
    BY <2>1 DEF Ranks
  <2>. QED
    BY <1>6, <2>2, <2>3, <2>4 DEF Loop!AnalyseWith, InRounds
<1>7. CASE Loop!StopByRule
  BY <1>7 DEF Loop!StopByRule, Loop!RuleStopReason, Loop!StopReasons, InRounds
<1>8. CASE Reflect
  <2> DEFINE answer == Reflection(strategy, currentRound, MaxRounds, Cardinality(admitted))
  <2>1. answer.nextQuery \in Queries
    <3>1. strategy \in Queries
      BY <1>8 DEF Reflect, Loop!ReflectWith, InRounds
    <3>. QED
      BY <3>1, ReflectionStays
  <2>2. Loop!ReflectWith(answer.continueSearch, answer.nextQuery)
    BY <1>8 DEF Reflect
  <2> HIDE DEF answer
  <2>3. /\ pc = "judge" /\ strategy \in Queries
        /\ pc' \in {"stop", "begin"} /\ strategy' \in Queries
        /\ stopReason' \in {stopReason, "reflection", "duplicate-strategy"}
    <3>1. pc = "judge"
      BY <2>2 DEF Loop!ReflectWith
    <3>2. strategy \in Queries
      BY <3>1 DEF InRounds
    <3>. QED
      BY <2>1, <2>2, <3>1, <3>2 DEF Loop!ReflectWith
  <2>4. UNCHANGED <<status, seen, finalShortlist, errorCode, finished, traced,
                    page, admitted, retained, noProgress, previousSignature, raised>>
    BY <2>2 DEF Loop!ReflectWith
  <2>5. /\ pc' \in Loop!TryBody /\ strategy' \in Queries
        /\ stopReason' \in Loop!StopReasons \cup {"none"}
    BY <2>3 DEF Loop!StopReasons
  <2>6. page' \cup admitted' \subseteq DOMAIN scenario'.catalogue
    BY <2>4
  <2>. QED
    BY <2>4, <2>5, <2>6
<1>9. CASE Loop!RecordStop
  BY <1>9 DEF Loop!RecordStop, Loop!memory, InRounds
<1>10. CASE Loop!Finalize
  BY <1>10 DEF Loop!Finalize, Loop!memory, InRounds
<1>11. CASE Loop!RecordFailure
  BY <1>11 DEF Loop!RecordFailure, Loop!memory, InRounds
<1>12. CASE ActivityRaises
  BY <1>12 DEF ActivityRaises, Loop!ActivityRaises, Loop!record, InRounds
<1>13. CASE Loop!PublishTrace
  BY <1>13 DEF Loop!PublishTrace, Loop!memory, InRounds
<1>14. CASE PatchRepeated \/ UNCHANGED loopVars
  <2>1. UNCHANGED <<status, currentRound, seen, finalShortlist, errorCode, finished, traced,
                    pc, strategy, page, admitted, retained, noProgress, previousSignature,
                    stopReason, raised>>
    BY <1>14 DEF PatchRepeated, loopVars
  <2>. QED
    BY <2>1
<1>. QED
  BY <1>1, <1>2, <1>3, <1>4, <1>5, <1>6, <1>7, <1>8, <1>9, <1>10, <1>11, <1>12, <1>13,
     <1>14, Zenon DEF Next, LoopStep, PublishTrace, Over, vars

\* Every step keeps what the judgement finds.
LEMMA JudgeStays ==
    ASSUME DataInv, AtPlace, EndedInv, LedgerInv, [Next]_vars
    PROVE  JudgeInv'
<1> SUFFICES ASSUME pc' = "judge"
             PROVE  JudgeInv'
  BY DEF JudgeInv
<1>1. CASE \E e, f : /\ AppendsTwo(e, f) /\ UNCHANGED currentRound
                     /\ e.round = currentRound /\ f.round = currentRound
                     /\ e.type = "analysis" /\ f.type = "shortlist"
  <2>1. PICK e, f : /\ AppendsTwo(e, f) /\ UNCHANGED currentRound
                    /\ e.round = currentRound /\ f.round = currentRound
                    /\ e.type = "analysis" /\ f.type = "shortlist"
    BY <1>1
  <2> DEFINE q == Append(steps, e)
             n == Len(steps)
  <2>2. IsSequence(q) /\ n \in Nat /\ Len(q) = n + 1 /\ q[n + 1] = e
    BY AppendKeeps DEF LedgerInv
  <2>3. steps' = Append(q, f)
    BY <2>1 DEF AppendsTwo
  <2> HIDE DEF q
  <2>4. Len(steps') = n + 2 /\ steps'[n + 2] = f /\ steps'[n + 1] = e
    <3>1. /\ Len(q) \in Nat /\ Len(Append(q, f)) = Len(q) + 1
          /\ \A i \in 1..Len(q) : Append(q, f)[i] = q[i]
          /\ Append(q, f)[Len(q) + 1] = f
      BY <2>2, AppendKeeps
    <3> HIDE DEF n
    <3>2. n + 1 \in 1..Len(q) /\ Len(q) + 1 = n + 2
      BY <2>2
    <3>. QED
      BY <2>2, <2>3, <3>1, <3>2
  <2> HIDE DEF n
  <2>5. Len(steps') >= 2 /\ Len(steps') - 1 = n + 1
    BY <2>2, <2>4
  <2>. QED
    BY <2>1, <2>4, <2>5 DEF JudgeInv
<1>2. CASE Loop!AnalyseWith(Scores)
  <2>1. UNCHANGED currentRound
    BY <1>2 DEF Loop!AnalyseWith
  <2>. QED
    BY <1>1, <1>2, <2>1, RanksTyped
<1>3. CASE PatchRepeated
  <2>1. pc = "judge" /\ UNCHANGED currentRound
    BY <1>3 DEF PatchRepeated
  <2> DEFINE x == steps[Len(steps) - 1]
             y == steps[Len(steps)]
  <2>2. steps' = Append(Append(steps, x), y)
    BY <1>3, <2>1, PatchAppends DEF DataInv, LedgerInv
  <2>3. /\ x.round = currentRound /\ y.round = currentRound
        /\ x.type = "analysis" /\ y.type = "shortlist"
    BY <2>1 DEF DataInv, JudgeInv
  <2>4. Fits(steps, x, currentRound) /\ Fits(Append(steps, x), y, currentRound)
    <3>1. Orderly(steps, currentRound) /\ Len(steps) \in Nat /\ DOMAIN steps = 1..Len(steps)
          /\ currentRound \in Nat /\ Len(steps) >= 2
      BY <2>1, AppendKeeps, ConfigAssumption DEF DataInv, JudgeInv, LedgerInv, Loop!TypeOK
    <3>2. Len(steps) - 1 \in DOMAIN steps /\ Len(steps) \in DOMAIN steps
      BY <3>1
    <3>3. /\ x \in Loop!Step /\ (x.type = "strategy" <=> x.round = 0)
          /\ y \in Loop!Step /\ (y.type = "strategy" <=> y.round = 0)
      BY <3>1, <3>2, ElementOfSeq DEF Orderly
    <3> HIDE DEF x, y
    <3>4. Fits(steps, x, currentRound) /\ Orderly(Append(steps, x), currentRound)
      BY <2>3, <3>1, <3>3, CurrentFits, OrderlyAppend
    <3>. QED
      BY <2>3, <3>1, <3>3, <3>4, CurrentFits
  <2> HIDE DEF x, y
  <2>5. AppendsTwo(x, y)
    BY <2>2, <2>4 DEF AppendsTwo
  <2>. QED
    BY <1>1, <2>1, <2>3, <2>5
<1>4. CASE \/ Loop!MarkRunning \/ ExtractStrategy \/ Loop!BeginRound \/ SearchReturns \/ Loop!Dedupe
           \/ Loop!StopByRule \/ Reflect \/ Loop!RecordStop \/ Loop!Finalize
           \/ Loop!RecordFailure \/ ActivityRaises \/ Loop!PublishTrace
  BY <1>4
     DEF Loop!MarkRunning, ExtractStrategy, Loop!ExtractStrategy, Loop!BeginRound,
         SearchReturns, Loop!SearchReturns, Loop!Dedupe, Loop!StopByRule, Reflect,
         Loop!ReflectWith, Loop!RecordStop, Loop!Finalize, Loop!RecordFailure, ActivityRaises,
         Loop!ActivityRaises, Loop!PublishTrace
<1>5. CASE UNCHANGED loopVars
  BY <1>5 DEF loopVars, DataInv, JudgeInv
<1>. QED
  BY <1>2, <1>3, <1>4, <1>5, Zenon DEF Next, LoopStep, PublishTrace, Over, vars

\* Every step keeps the offsets within what was searched.
LEMMA OffsetsStay ==
    ASSUME DataInv, AtPlace, [Next]_vars
    PROVE  (offsets \in [Queries -> 0..(Searches * MaxResumes)])'
<1>0. currentRound \in 0..MaxRounds /\ MaxRounds \in 3..5 /\ MaxResumes \in Nat
      /\ currentRound' \in 0..MaxRounds
  <2>1. currentRound \in 0..MaxRounds
    BY DEF DataInv, Loop!TypeOK
  <2>. QED
    BY <2>1, RoundMoves, ConfigAssumption
<1>1. CASE SearchReturns
  <2>1. pc = "search" /\ currentRound # 0 /\ pc' = "dedupe" /\ UNCHANGED currentRound
    BY <1>1 DEF SearchReturns, Loop!SearchReturns, AtPlace, InRounds
  <2>2. offsets' \in [Queries -> 0..(currentRound * MaxResumes)]
    BY <1>1, <2>1, SearchGives
  <2>. QED
    BY <2>1, <2>2 DEF Searches
<1>2. CASE UNCHANGED offsets
  <2> DEFINE low == Searches * MaxResumes
             high == Searches' * MaxResumes
  <2>1. Searches \in 0..5 /\ Searches' \in 0..5 /\ Searches <= Searches'
    <3>1. pc = "search" => currentRound # 0
      BY DEF AtPlace, InRounds
    <3>2. pc' = "search" => \/ pc = "search" /\ UNCHANGED currentRound
                            \/ pc = "begin" /\ currentRound' = currentRound + 1
      <4>1. CASE Loop!BeginRound
        BY <4>1 DEF Loop!BeginRound
      <4>2. CASE \/ Loop!MarkRunning \/ ExtractStrategy \/ SearchReturns \/ Loop!Dedupe
                 \/ Loop!AnalyseWith(Scores) \/ Loop!StopByRule \/ Reflect \/ Loop!RecordStop
                 \/ Loop!Finalize \/ Loop!RecordFailure \/ Loop!PublishTrace \/ ActivityRaises
        BY <4>2
           DEF Loop!MarkRunning, ExtractStrategy, Loop!ExtractStrategy, SearchReturns,
               Loop!SearchReturns, Loop!Dedupe, Loop!AnalyseWith, Loop!StopByRule, Reflect,
               Loop!ReflectWith, Loop!RecordStop, Loop!Finalize, Loop!RecordFailure,
               Loop!PublishTrace, ActivityRaises, Loop!ActivityRaises
      <4>3. CASE PatchRepeated \/ UNCHANGED loopVars
        BY <4>3 DEF PatchRepeated, loopVars
      <4>. QED
        BY <4>1, <4>2, <4>3, Zenon DEF Next, LoopStep, PublishTrace, Over, vars
    <3>3. \/ UNCHANGED currentRound
          \/ pc = "begin" /\ pc' = "search" /\ currentRound' = currentRound + 1
      BY <1>0, RoundMoves
    <3>4. currentRound \in 0..5 /\ currentRound' \in 0..5
      BY <1>0
    <3>5. CASE pc = "search"
      <4>1. Searches = currentRound - 1 /\ currentRound - 1 \in 0..5
        BY <3>1, <3>4, <3>5 DEF Searches
      <4>2. UNCHANGED currentRound
        BY <3>3, <3>5
      <4>. QED
        BY <3>4, <4>1, <4>2 DEF Searches
    <3>6. CASE pc # "search"
      <4>1. Searches = currentRound
        BY <3>6 DEF Searches
      <4>2. CASE pc' = "search"
        <5>0. currentRound' = currentRound + 1
          BY <3>2, <3>6, <4>2
        <5>1. Searches' = currentRound
          BY <3>4, <4>2, <5>0 DEF Searches
        <5>. QED
          BY <3>4, <4>1, <5>1
      <4>3. CASE pc' # "search"
        <5>1. Searches' = currentRound' /\ currentRound <= currentRound'
          BY <3>3, <3>4, <4>3 DEF Searches
        <5>. QED
          BY <3>4, <4>1, <5>1
      <4>. QED
        BY <4>2, <4>3
    <3>. QED
      BY <3>5, <3>6
  <2>2. low <= high /\ low \in Nat /\ high \in Nat
    <3>1. \A c, d \in 0..5 :
             c <= d => /\ c * MaxResumes <= d * MaxResumes
                       /\ c * MaxResumes \in Nat /\ d * MaxResumes \in Nat
      BY <1>0, Products
    <3>. QED
      BY <2>1, <3>1
  <2>3. offsets' \in [Queries -> 0..low]
    BY <1>2 DEF DataInv
  <2> HIDE DEF low, high
  <2>4. offsets' \in [Queries -> 0..high]
    BY <2>2, <2>3
  <2>. QED
    BY <2>4 DEF high
<1>. QED
  BY <1>1, <1>2, AsideMoves

\* Every step keeps the data's invariant.
LEMMA NextData ==
    ASSUME DataInv, AtPlace, StageInv, EndedInv, LedgerInv, [Next]_vars
    PROVE  DataInv'
<1>1. RestTyped'
  BY RestStays
<1>2. Orderly(steps', currentRound')
  <2>1. Orderly(steps', currentRound)
    BY OrderlyStays
  <2>2. currentRound \in 0..MaxRounds /\ MaxRounds \in 3..5
    BY ConfigAssumption DEF DataInv, Loop!TypeOK
  <2>3. \/ UNCHANGED currentRound
        \/ currentRound' = currentRound + 1
    BY <2>2, RoundMoves
  <2>4. \A i \in DOMAIN steps' : steps'[i].round \in Int
    <3>1. \A i \in DOMAIN steps' : steps'[i] \in Loop!Step
      BY <2>1, ElementOfSeq DEF Orderly
    <3>. QED
      BY <3>1 DEF Loop!Step
  <2>. QED
    BY <2>1, <2>2, <2>3, <2>4 DEF Orderly
<1>3. JudgeInv'
  BY JudgeStays
<1>4. Given'
  BY AsideMoves DEF DataInv, Given, Paging!Normalized
<1>5. Loop!TypeOK'
  BY <1>1, <1>2, RestIs DEF Orderly
<1>. QED
  BY <1>1, <1>2, <1>3, <1>4, <1>5, OffsetsStay DEF DataInv, RestTyped

\* It is true at first.
LEMMA InitData == Init => DataInv
<1> SUFFICES ASSUME Init
             PROVE  DataInv
  OBVIOUS
<1>1. Given
  BY DEF Init, Given
<1>2. steps = <<>> /\ currentRound = 0 /\ pc = "start" /\ page = {} /\ admitted = {}
  BY DEF Init, Loop!Init
<1>3. Orderly(steps, currentRound)
  BY <1>2 DEF Orderly
<1>4. Loop!TypeOK
  <2>1. steps \in Seq(Loop!Step) /\ currentRound \in 0..MaxRounds
    BY <1>2, ConfigAssumption
  <2>. QED
    BY <2>1 DEF Init, Loop!Init, Loop!TypeOK, Loop!TryBody
<1>5. offsets \in [Queries -> 0..(Searches * MaxResumes)]
  <2>1. Searches = 0 /\ 0 * MaxResumes = 0
    BY <1>2, ConfigAssumption DEF Searches
  <2>2. offsets \in [Queries -> 0..0]
    BY DEF Init
  <2>. QED
    BY <2>1, <2>2
<1>. QED
  BY <1>1, <1>2, <1>3, <1>4, <1>5 DEF DataInv, JudgeInv, InRounds

-----------------------------------------------------------------------------
(* Attempts to publish: what is sent is a part of what the ledger replays. *)

\* The ledger of a run is one that the replay needs.
LEMMA LedgerWellFormed == DataInv => WellFormed(steps)
<1> SUFFICES ASSUME DataInv
             PROVE  WellFormed(steps)
  OBVIOUS
<1>1. steps \in Seq(Loop!Step) /\ DOMAIN steps = 1..Len(steps) /\ Len(steps) \in Nat
  BY DEF DataInv, Loop!TypeOK
<1>2. IsSequence(steps)
  <2> DEFINE T == {steps[i] : i \in DOMAIN steps}
  <2>1. steps = [i \in 1..Len(steps) |-> steps[i]]
    BY <1>1
  <2>2. steps \in [1..Len(steps) -> T]
    BY <1>1, <2>1
  <2>. QED
    BY <1>1, <2>2, SeqDef DEF IsSequence
<1>3. ASSUME NEW i \in DOMAIN steps
      PROVE  /\ steps[i].no \in Nat /\ steps[i].round \in Nat
             /\ {e.id : e \in steps[i].entries} \in SUBSET Nat
             /\ IsFiniteSet({e.id : e \in steps[i].entries})
  <2>1. steps[i] \in Loop!Step
    BY <1>1, ElementOfSeq
  <2>2. steps[i].no \in Nat /\ steps[i].round \in Nat /\ steps[i].entries \in SUBSET Loop!Entry
    BY <2>1, ConfigAssumption DEF Loop!Step
  <2>3. {e.id : e \in steps[i].entries} \in SUBSET (1..MaxResumes)
    BY <2>2 DEF Loop!Entry
  <2>4. MaxResumes \in Nat /\ IsFiniteSet(1..MaxResumes)
    BY ConfigAssumption, FS_Interval
  <2>5. IsFiniteSet({e.id : e \in steps[i].entries})
    BY <2>3, <2>4, FS_Subset
  <2>6. {e.id : e \in steps[i].entries} \in SUBSET Nat
    BY <2>3, <2>4
  <2>. QED
    BY <2>2, <2>5, <2>6
<1>. QED
  BY <1>2, <1>3 DEF WellFormed, DataInv, Orderly

\* Every observation of a ledger has a text.
LEMMA TreeTexts ==
    ASSUME NEW ledger, WellFormed(ledger), NEW o \in Tree(ledger)
    PROVE  o.text \in Text
<1>1. \A u, n, of : Plain(u, n, of).text \in Text
  BY DEF Plain, Observation, Text, ForeignText
<1>2. \A u, n, of, p, t : Observation(u, n, of, p, t).text = t
  BY DEF Observation
<1>3. CASE o \in StrategyTree(ledger)
  <2>1. StrategyAt(ledger) # {} /\ o = StrategyRoot(ledger)
    BY <1>3 DEF StrategyTree
  <2> DEFINE i == Ascending(StrategyAt(ledger))[1]
  <2>2. i \in DOMAIN ledger
    BY <2>1, FirstOf, PositionsFinite DEF StrategyAt, WellFormed
  <2>3. <<ledger[i].no, 0>> \in Text
    BY <2>2 DEF WellFormed, Text
  <2>. QED
    BY <1>2, <2>1, <2>3 DEF StrategyRoot
<1>4. CASE o \in FinalizeTree(ledger)
  BY <1>1, <1>4 DEF FinalizeTree, FinalizeRoot
<1>5. CASE o \in AllRounds(ledger)
  <2>1. PICK round : o \in RoundTree(ledger, round)
    BY <1>5 DEF AllRounds
  <2>2. CASE o = Plain(<<>>, "round", round)
    BY <1>1, <2>2
  <2>3. ASSUME NEW i \in DOMAIN ledger, o \in StepTree(ledger, i, round)
        PROVE  o.text \in Text
    <3>1. ledger[i].no \in Nat /\ {e.id : e \in ledger[i].entries} \in SUBSET Nat
      BY DEF WellFormed
    <3>2. \A id \in {e.id : e \in ledger[i].entries} : <<ledger[i].no, id>> \in Text
      BY <3>1 DEF Text
    <3>3. <<ledger[i].no, 0>> \in Text
      BY <3>1 DEF Text
    <3>4. CASE ledger[i].type = "analysis"
      <4> DEFINE ids == {e.id : e \in ledger[i].entries}
                 child(id) == Observation(<<round, i>>, "analyze-resume", id, MatcherPrompt,
                                          <<ledger[i].no, id>>)
                 root == Plain(<<round>>, "analysis", i)
      <4>1. o \in {root} \cup {child(id) : id \in ids}
        BY <2>3, <3>4 DEF StepTree
      <4>2. root.text \in Text
        BY <1>1
      <4>3. \A id \in ids : child(id).text \in Text
        BY <1>2, <3>2
      <4> HIDE DEF ids, child, root
      <4>. QED
        BY <4>1, <4>2, <4>3
    <3>5. CASE ledger[i].type # "analysis"
      <4>1. \/ o = Observation(<<round>>, "reflect", i, ReflectorPrompt, <<ledger[i].no, 0>>)
            \/ o = Plain(<<round>>, StepName(ledger[i].type), i)
        BY <2>3, <3>5 DEF StepTree
      <4>. QED
        BY <1>1, <1>2, <3>3, <4>1
    <3>. QED
      BY <3>4, <3>5
  <2>. QED
    BY <2>1, <2>2, <2>3 DEF RoundTree, InRound
<1>. QED
  BY <1>3, <1>4, <1>5 DEF Tree

\* An attempt has taken its plan from the ledger and has sent a part of it: not all of it
\* before it creates another observation, all of it once it is done.
PlanInv ==
    /\ \A a \in Attempts :
          /\ publication[a].phase \in {"idle", "replaying", "creating", "raised", "done"}
          /\ publication[a].phase \in {"replaying", "creating", "raised"} => scenario.langfuse
          /\ publication[a].plan =
                IF scenario.langfuse /\ Started(a) THEN Replay(steps) ELSE <<>>
          /\ publication[a].sent \in 0..Len(publication[a].plan)
          /\ publication[a].phase = "creating" =>
                publication[a].sent < Len(publication[a].plan)
          /\ publication[a].phase = "done" =>
                publication[a].sent = Len(publication[a].plan)
          /\ publication[a].url \in BOOLEAN
    /\ registry \in [PromptNames -> Seq(Text)]
    /\ trace \in [id : BOOLEAN, url : BOOLEAN]

\* No attempt has started at first.
LEMMA InitPlan == Init => PlanInv
<1>1. Init => \A a \in Attempts :
         /\ publication[a].phase = "idle" /\ publication[a].plan = <<>>
         /\ publication[a].sent = 0 /\ publication[a].url = FALSE
  BY DEF Init, PublicationInit, IdleAttempt, Attempt
<1>2. Init => registry \in [PromptNames -> Seq(Text)] /\ trace \in [id : BOOLEAN, url : BOOLEAN]
  BY DEF Init, PublicationInit
<1>3. \A s : Len(<<>>) = 0 /\ 0 \in 0..0
  OBVIOUS
<1>. QED
  BY <1>1, <1>2, <1>3 DEF PlanInv, Started

\* The ledger is left alone once an attempt has started.
LEMMA LedgerStands ==
    ASSUME RowInv, PlanInv, [Next]_vars, NEW a \in Attempts, Started(a)
    PROVE  UNCHANGED steps
<1>1. pc \in Ended
  BY DEF RowInv
<1>2. ~LoopStep /\ ~ActivityRaises
  BY <1>1
     DEF LoopStep, ActivityRaises, Ended, Loop!TryBody,
         Loop!MarkRunning, ExtractStrategy, Loop!ExtractStrategy, Loop!BeginRound,
         SearchReturns, Loop!Dedupe, Loop!AnalyseWith, Loop!StopByRule, Reflect,
         Loop!ReflectWith, Loop!RecordStop, Loop!Finalize, Loop!RecordFailure,
         Loop!ActivityRaises
<1>3. ~PatchRepeated
  BY DEF PatchRepeated, Started
<1>4. CASE PublishTrace
  BY <1>4 DEF PublishTrace, Loop!PublishTrace
<1>5. CASE UNCHANGED loopVars
  BY <1>5 DEF loopVars
<1>. QED
  BY <1>2, <1>3, <1>4, <1>5, Zenon DEF Next, Over, vars

\* What an attempt looks like after a step of its own.
PlanOf(p) ==
    /\ p.phase \in {"replaying", "creating", "raised", "done"}
    /\ p.phase # "done" => scenario.langfuse
    /\ p.plan = IF scenario.langfuse THEN Replay(steps) ELSE <<>>
    /\ p.sent \in 0..Len(p.plan)
    /\ p.phase = "creating" => p.sent < Len(p.plan)
    /\ p.phase = "done" => p.sent = Len(p.plan)
    /\ p.url \in BOOLEAN

\* A step that gives one attempt such a shape and types the registry and the trace.
Plans(a) ==
    /\ PlanOf(publication'[a])
    /\ \A b \in Attempts \ {a} : publication'[b] = publication[b]
    /\ registry' \in [PromptNames -> Seq(Text)]
    /\ trace' \in [id : BOOLEAN, url : BOOLEAN]

\* An attempt that has started looks so.
LEMMA AttemptIsPlanned ==
    ASSUME PlanInv, NEW a \in Attempts, Started(a)
    PROVE  PlanOf(publication[a])
BY DEF PlanInv, Started, PlanOf

\* The next observation of an attempt is one of the plan's.
LEMMA PlanIsListed ==
    ASSUME DataInv, PlanInv, NEW a \in Attempts
    PROVE  /\ Len(Replay(steps)) \in Nat /\ Len(publication[a].plan) \in Nat
           /\ publication[a].sent \in Nat
           /\ ~AllSent(a) /\ Started(a) => NextObservation(a).text \in Text
<1>1. Lists(Replay(steps), Tree(steps)) /\ WellFormed(steps)
  BY LedgerWellFormed, ReplayLists
<1> DEFINE plan == Replay(steps)
<1>2. Len(plan) \in Nat /\ \A k \in 1..Len(plan) : plan[k] \in Tree(steps)
  <2> HIDE DEF plan
  <2>. QED
    BY <1>1 DEF Lists, plan
<1>3. /\ publication[a].plan \in {plan, <<>>}
      /\ publication[a].sent \in 0..Len(publication[a].plan)
  BY DEF PlanInv
<1> HIDE DEF plan
<1>4. Len(publication[a].plan) \in Nat /\ publication[a].sent \in Nat
  BY <1>2, <1>3
<1>5. ASSUME ~AllSent(a), Started(a)
      PROVE  NextObservation(a).text \in Text
  <2>1. publication[a].plan = plan
    <3>1. publication[a].plan # <<>>
      BY <1>3, <1>5 DEF AllSent
    <3>. QED
      BY <1>3, <3>1
  <2>2. publication[a].sent + 1 \in 1..Len(plan)
    BY <1>2, <1>3, <1>5, <2>1 DEF AllSent
  <2>3. NextObservation(a) \in Tree(steps)
    BY <1>2, <2>1, <2>2 DEF NextObservation
  <2>. QED
    BY <1>1, <2>3, TreeTexts
<1>. QED
  BY <1>2, <1>4, <1>5 DEF plan

\* A step of attempt a that keeps the registry's type.
LEMMA OnePlans ==
    ASSUME Shapes, PlanInv, NEW a \in Attempts, NEW p, PlanOf(p),
           publication' = [publication EXCEPT ![a] = p],
           registry' \in {registry} \cup [PromptNames -> Seq(Text)],
           trace' \in {trace} \cup [id : BOOLEAN, url : BOOLEAN]
    PROVE  Plans(a)
<1>1. publication'[a] = p /\ \A b \in Attempts \ {a} : publication'[b] = publication[b]
  BY OneAttemptMoves
<1>2. registry' \in [PromptNames -> Seq(Text)] /\ trace' \in [id : BOOLEAN, url : BOOLEAN]
  <2>1. registry \in [PromptNames -> Seq(Text)] /\ trace \in [id : BOOLEAN, url : BOOLEAN]
    BY DEF PlanInv
  <2>. QED
    BY <2>1, Zenon
<1>. QED
  BY <1>1, <1>2 DEF Plans

\* An attempt that resolves a prompt keeps to its plan.
LEMMA ResolvedPlans ==
    ASSUME Shapes, PlanInv, NEW a \in Attempts, NEW version, publication' = Resolved(a, version),
           publication[a].phase \in {"replaying", "creating"}, UNCHANGED trace,
           registry' \in [PromptNames -> Seq(Text)]
    PROVE  Plans(a)
<1> DEFINE o == NextObservation(a)
           new == [name |-> o.prompt, text |-> o.text, version |-> version]
           p == [publication[a] EXCEPT !.phase = "replaying", !.cache = @ \cup {new}]
<1>1. publication' = [publication EXCEPT ![a] = p]
  BY DEF Resolved, Shapes
<1>2. /\ p.phase = "replaying" /\ p.plan = publication[a].plan /\ p.sent = publication[a].sent
      /\ p.url = publication[a].url
  BY DEF Shapes, IsAttempt
<1>3. PlanOf(publication[a])
  BY AttemptIsPlanned DEF Started
<1> HIDE DEF p
<1>4. PlanOf(p)
  BY <1>2, <1>3, Zenon DEF PlanOf
<1>5. publication'[a] = p /\ \A b \in Attempts \ {a} : publication'[b] = publication[b]
  BY <1>1, OneAttemptMoves
<1>6. trace' \in [id : BOOLEAN, url : BOOLEAN]
  BY Zenon DEF PlanInv
<1>. QED
  BY <1>4, <1>5, <1>6, Zenon DEF Plans

\* An attempt begins with the plan of the ledger it reads.
LEMMA BeginPlans ==
    ASSUME Shapes, DataInv, PlanInv, NEW a \in Attempts, NEW url \in BOOLEAN, Begin(a, url),
           scenario.langfuse
    PROVE  Plans(a)
<1> DEFINE plan == Replay(steps)
           p == Attempt("replaying", plan, url)
<1>1. publication' = [publication EXCEPT ![a] = p] /\ UNCHANGED <<trace, registry>>
  BY DEF Begin
<1>2. p.phase = "replaying" /\ p.plan = plan /\ p.sent = 0 /\ p.url = url
  BY DEF Attempt
<1>3. Len(plan) \in Nat
  BY PlanIsListed
<1> HIDE DEF p
<1>4. PlanOf(p)
  <2> HIDE DEF plan
  <2>. QED
    BY <1>2, <1>3 DEF PlanOf, plan
<1>. QED
  BY <1>1, <1>4, OnePlans

\* Every step of an attempt.
LEMMA AttemptPlans ==
    ASSUME Shapes, DataInv, PlanInv, CreatingKnows, PublicationStep
    PROVE  \E a \in Attempts : Plans(a)
<1>1. ASSUME NEW a \in Attempts, BeginAttempt(a)
      PROVE  Plans(a)
  <2>1. CASE ~scenario.langfuse /\ PublishWithoutClient(a)
    <3> DEFINE p == Attempt("done", <<>>, FALSE)
    <3>1. /\ publication' = [publication EXCEPT ![a] = p] /\ UNCHANGED registry
          /\ trace' = [id |-> FALSE, url |-> FALSE]
      BY <2>1 DEF PublishWithoutClient
    <3>2. p.phase = "done" /\ p.plan = <<>> /\ p.sent = 0 /\ p.url = FALSE
      BY DEF Attempt
    <3> HIDE DEF p
    <3>3. Len(<<>>) = 0 /\ 0 \in 0..0 /\ FALSE \in BOOLEAN
      OBVIOUS
    <3>4. p.plan = IF scenario.langfuse THEN Replay(steps) ELSE <<>>
      BY <2>1, <3>2
    <3>5. p.sent \in 0..Len(p.plan) /\ p.sent = Len(p.plan) /\ p.url \in BOOLEAN
      BY <3>2, <3>3
    <3>6. PlanOf(p)
      BY <3>2, <3>4, <3>5, Zenon DEF PlanOf
    <3>7. trace' \in {trace} \cup [id : BOOLEAN, url : BOOLEAN]
      BY <3>1
    <3>. QED
      BY <3>1, <3>6, <3>7, OnePlans
  <2>2. CASE scenario.langfuse /\ (Begin(a, TRUE) \/ Begin(a, FALSE))
    BY <2>2, BeginPlans
  <2>. QED
    BY <1>1, <2>1, <2>2 DEF BeginAttempt
<1>2. ASSUME NEW a \in Attempts, AttemptTimesOut(a)
      PROVE  Plans(a)
  <2>1. scenario.langfuse /\ Begin(a, TRUE)
    BY <1>2 DEF AttemptTimesOut, PlanInv
  <2>. QED
    BY <2>1, BeginPlans
<1>3. ASSUME NEW a \in Attempts, HandOver(a)
      PROVE  Plans(a)
  <2>1. PICK n \in (publication[a].sent + 1)..Len(publication[a].plan) :
            publication' = [publication EXCEPT ![a].sent = n]
    BY <1>3 DEF HandOver
  <2> DEFINE p == [publication[a] EXCEPT !.sent = n]
  <2>2. publication' = [publication EXCEPT ![a] = p]
    BY <2>1 DEF Shapes
  <2>3. publication[a].phase = "replaying" /\ UNCHANGED <<trace, registry>>
    BY <1>3 DEF HandOver, Replaying
  <2>4. /\ p.phase = "replaying" /\ p.plan = publication[a].plan /\ p.sent = n
        /\ p.url = publication[a].url
    BY <2>3 DEF Shapes, IsAttempt
  <2>5. PlanOf(publication[a]) /\ n \in 0..Len(publication[a].plan)
    BY <2>3, AttemptIsPlanned, PlanIsListed DEF Started
  <2> HIDE DEF p
  <2>6. PlanOf(p)
    BY <2>3, <2>4, <2>5 DEF PlanOf
  <2>. QED
    BY <2>2, <2>3, <2>6, OnePlans
<1>4. ASSUME NEW a \in Attempts, NEW answers \in BOOLEAN, GetPrompt(a, answers)
      PROVE  Plans(a)
  <2> DEFINE o == NextObservation(a)
             versions == registry[o.prompt]
             p == [publication[a] EXCEPT !.phase = "creating"]
  <2>1. publication[a].phase = "replaying" /\ UNCHANGED <<trace, registry>> /\ ~AllSent(a)
    BY <1>4 DEF GetPrompt, NeedsPrompt, Replaying
  <2>2. CASE answers /\ PromptMatches(versions, o.text)
    <3>1. publication' = Resolved(a, Len(versions))
      BY <1>4, <2>2 DEF GetPrompt
    <3>2. registry' \in [PromptNames -> Seq(Text)]
      BY <2>1 DEF PlanInv
    <3>. QED
      BY <2>1, <3>1, <3>2, ResolvedPlans
  <2>3. CASE ~(answers /\ PromptMatches(versions, o.text))
    <3>1. publication' = [publication EXCEPT ![a] = p]
      BY <1>4, <2>3 DEF GetPrompt, Shapes
    <3>2. /\ p.phase = "creating" /\ p.plan = publication[a].plan
          /\ p.sent = publication[a].sent /\ p.url = publication[a].url
      BY DEF Shapes, IsAttempt
    <3>3. PlanOf(publication[a]) /\ publication[a].sent < Len(publication[a].plan)
      BY <2>1, AttemptIsPlanned, PlanIsListed DEF Started, AllSent, PlanOf
    <3> HIDE DEF p
    <3>4. PlanOf(p)
      BY <2>1, <3>2, <3>3 DEF PlanOf
    <3>. QED
      BY <2>1, <3>1, <3>4, OnePlans
  <2>. QED
    BY <2>2, <2>3
<1>5. ASSUME NEW a \in Attempts, CreatePrompt(a) \/ CreateRaises(a) \/ CreateEscapes(a)
      PROVE  Plans(a)
  <2> DEFINE o == NextObservation(a)
             p == [publication[a] EXCEPT !.phase = "raised"]
  <2>1. publication[a].phase = "creating" /\ UNCHANGED trace
    BY <1>5 DEF CreatePrompt, CreateRaises, CreateEscapes
  <2>2. o.text \in Text
    <3>1. ~AllSent(a) /\ Started(a)
      BY <2>1, PlanIsListed DEF PlanInv, AllSent, Started
    <3>. QED
      BY <3>1, PlanIsListed
  <2>3. o.prompt \in PromptNames
    BY <2>1 DEF CreatingKnows
  <2>4. registry' \in {registry, [registry EXCEPT ![o.prompt] = Append(@, o.text)]}
    BY <1>5 DEF CreatePrompt, CreateRaises, CreateEscapes, CreateMayCount
  <2> HIDE DEF o
  <2>5. registry' \in [PromptNames -> Seq(Text)]
    <3>1. registry \in [PromptNames -> Seq(Text)]
      BY DEF PlanInv
    <3>2. Append(registry[o.prompt], o.text) \in Seq(Text)
      BY <2>2, <2>3, <3>1
    <3>. QED
      BY <2>4, <3>1, <3>2
  <2>6. CASE CreatePrompt(a) \/ CreateRaises(a)
    <3>1. PICK version : publication' = Resolved(a, version)
      BY <2>6 DEF CreatePrompt, CreateRaises
    <3>. QED
      BY <2>1, <2>5, <3>1, ResolvedPlans
  <2>7. CASE CreateEscapes(a)
    <3>1. publication' = [publication EXCEPT ![a] = p]
      BY <2>7 DEF CreateEscapes, Shapes
    <3>2. /\ p.phase = "raised" /\ p.plan = publication[a].plan
          /\ p.sent = publication[a].sent /\ p.url = publication[a].url
      BY DEF Shapes, IsAttempt
    <3>3. PlanOf(publication[a])
      BY <2>1, AttemptIsPlanned DEF Started
    <3> HIDE DEF p
    <3>4. PlanOf(p)
      BY <2>1, <3>2, <3>3 DEF PlanOf
    <3>. QED
      BY <2>1, <2>5, <3>1, <3>4, OnePlans
  <2>. QED
    BY <1>5, <2>6, <2>7
<1>6. ASSUME NEW a \in Attempts, ReplayRaises(a) \/ SaveTrace(a)
      PROVE  Plans(a)
  <2>1. PICK phase \in {"raised", "done"} :
           /\ publication' = [publication EXCEPT ![a].phase = phase] /\ UNCHANGED registry
           /\ phase = "done" => publication[a].sent = Len(publication[a].plan)
    BY <1>6 DEF ReplayRaises, SaveTrace, AllSent
  <2> DEFINE p == [publication[a] EXCEPT !.phase = phase]
  <2>2. publication' = [publication EXCEPT ![a] = p]
    BY <2>1 DEF Shapes
  <2>3. publication[a].phase = "replaying"
    BY <1>6 DEF ReplayRaises, SaveTrace, Replaying
  <2>4. /\ p.phase = phase /\ p.plan = publication[a].plan
        /\ p.sent = publication[a].sent /\ p.url = publication[a].url
    BY DEF Shapes, IsAttempt
  <2>5. PlanOf(publication[a])
    BY <2>3, AttemptIsPlanned DEF Started
  <2> HIDE DEF p
  <2>6. PlanOf(p)
    BY <2>1, <2>3, <2>4, <2>5 DEF PlanOf
  <2>7. trace' \in {trace} \cup [id : BOOLEAN, url : BOOLEAN]
    <3> DEFINE url == publication[a].url
    <3>1. url \in BOOLEAN
      BY DEF PlanInv
    <3>2. trace' = trace \/ trace' = [id |-> TRUE, url |-> url]
      BY <1>6 DEF ReplayRaises, SaveTrace
    <3> HIDE DEF url
    <3>3. [id |-> TRUE, url |-> url] \in [id : BOOLEAN, url : BOOLEAN]
      BY <3>1, Zenon
    <3>. QED
      BY <3>2, <3>3, Zenon
  <2>. QED
    BY <2>1, <2>2, <2>6, <2>7, OnePlans
<1>. QED
  BY <1>1, <1>2, <1>3, <1>4, <1>5, <1>6 DEF PublicationStep

\* Every step of the stack: the others' attempts are left alone, and so is the ledger
\* that a started attempt has read.
LEMMA NextPlan ==
    ASSUME Shapes, CreatingKnows, DataInv, RowInv, PlanInv, [Next]_vars
    PROVE  PlanInv'
<1>1. UNCHANGED scenario
  BY AsideMoves
<1>2. ASSUME publication' = publication, UNCHANGED trace,
             registry' \in [PromptNames -> Seq(Text)]
      PROVE  PlanInv'
  <2>1. trace' \in [id : BOOLEAN, url : BOOLEAN]
    BY <1>2, Zenon DEF PlanInv
  <2>2. ASSUME NEW a \in Attempts
        PROVE  publication[a].plan =
                  IF scenario.langfuse /\ Started(a) THEN Replay(steps') ELSE <<>>
    <3>1. CASE Started(a)
      BY <3>1, LedgerStands DEF PlanInv
    <3>2. CASE ~Started(a)
      BY <3>2 DEF PlanInv
    <3>. QED
      BY <3>1, <3>2
  <2>. QED
    BY <1>1, <1>2, <2>1, <2>2 DEF PlanInv, Started
<1>3. CASE PublicationStep /\ UNCHANGED <<loopVars, offsets, scenario, suite>>
  <2>1. PICK a \in Attempts : Plans(a)
    BY <1>3, AttemptPlans
  <2>2. UNCHANGED steps
    BY <1>3 DEF loopVars
  <2> DEFINE Planned(p) ==
                 /\ p.phase \in {"idle", "replaying", "creating", "raised", "done"}
                 /\ p.phase \in {"replaying", "creating", "raised"} => scenario.langfuse
                 /\ p.plan = IF scenario.langfuse /\ p.phase # "idle" THEN Replay(steps) ELSE <<>>
                 /\ p.sent \in 0..Len(p.plan)
                 /\ p.phase = "creating" => p.sent < Len(p.plan)
                 /\ p.phase = "done" => p.sent = Len(p.plan)
                 /\ p.url \in BOOLEAN
  <2>3. ASSUME NEW b \in Attempts \ {a}
        PROVE  Planned(publication'[b])
    <3>1. publication'[b] = publication[b]
      BY <2>1 DEF Plans
    <3>2. Planned(publication[b])
      BY DEF PlanInv, Started
    <3> HIDE DEF Planned
    <3>. QED
      BY <3>1, <3>2
  <2>4. Planned(publication'[a])
    <3> DEFINE p == publication'[a]
    <3>1. PlanOf(p)
      BY <2>1 DEF Plans
    <3> HIDE DEF p
    <3>2. /\ p.phase \in {"idle", "replaying", "creating", "raised", "done"} /\ p.phase # "idle"
          /\ p.phase \in {"replaying", "creating", "raised"} => p.phase # "done"
      BY <3>1 DEF PlanOf
    <3>3. Planned(p)
      BY <3>1, <3>2, Zenon DEF PlanOf
    <3> HIDE DEF Planned
    <3>. QED
      BY <3>3 DEF p
  <2>5. registry' \in [PromptNames -> Seq(Text)] /\ trace' \in [id : BOOLEAN, url : BOOLEAN]
    BY <2>1 DEF Plans
  <2>6. \A b \in Attempts : Planned(publication'[b])
    <3> HIDE DEF Planned
    <3>. QED
      BY <2>3, <2>4
  <2>. QED
    BY <1>1, <2>2, <2>5, <2>6, Zenon DEF PlanInv, Started
<1>4. CASE OtherRuns
  <2>1. PICK name \in PromptNames : OtherRunCreates(name)
    BY <1>4 DEF OtherRuns
  <2>2. registry \in [PromptNames -> Seq(Text)] /\ ForeignText \in Text
    <3>1. registry \in [PromptNames -> Seq(Text)]
      BY Zenon DEF PlanInv
    <3>2. ForeignText \in Text
      BY DEF ForeignText, Text
    <3>. QED
      BY <3>1, <3>2, Zenon
  <2>3. /\ registry' = [registry EXCEPT ![name] = Append(@, ForeignText)]
        /\ UNCHANGED <<trace, publication>>
    BY <2>1 DEF OtherRunCreates
  <2>4. registry[name] \in Seq(Text)
    BY <2>2
  <2> DEFINE T == Text
             t == ForeignText
  <2> HIDE DEF T, t
  <2>5. Append(registry[name], t) \in Seq(T)
    BY <2>2, <2>4 DEF T, t
  <2>6. registry' \in [PromptNames -> Seq(Text)]
    BY <2>2, <2>3, <2>5 DEF T, t
  <2>. QED
    BY <1>2, <2>3, <2>6
<1>5. CASE UNCHANGED publicationVars
  <2>1. publication' = publication /\ UNCHANGED <<trace, registry>>
    BY <1>5 DEF publicationVars
  <2>2. registry' \in [PromptNames -> Seq(Text)]
    BY <2>1 DEF PlanInv
  <2>. QED
    BY <1>2, <2>1, <2>2
<1>. QED
  BY <1>3, <1>4, <1>5, Zenon DEF Next, Over, vars

-----------------------------------------------------------------------------
(* The invariant of the stack, its types, and the tree that shows the      *)
(* ledger.                                                                 *)

\* The invariant of the stack: the parts proved in DeterministicRunProofs, the data of
\* the workflow and the plans of the attempts.
StackInv ==
    /\ LinkInv /\ RowInv
    /\ EndedInv /\ LedgerInv /\ StageInv /\ ToldInv
    /\ DataInv /\ PlanInv

\* It is true at first ...
LEMMA InitInv == Init => StackInv
BY InitLinkInv, InitRow, InitOutcome, InitStage, InitTold, InitData, InitPlan
   DEF Init, OutcomeInv, StackInv

\* ... and every step keeps it.
LEMMA NextInv == StackInv /\ [Next]_vars => StackInv'
<1> SUFFICES ASSUME StackInv, [Next]_vars
             PROVE  StackInv'
  OBVIOUS
<1>1. /\ LinkInv /\ RowInv /\ EndedInv /\ LedgerInv /\ StageInv /\ ToldInv
      /\ DataInv /\ PlanInv
  BY DEF StackInv
<1>2. Shapes /\ CreatingKnows
  BY <1>1 DEF LinkInv
<1>3. AtPlace
  BY <1>1, PlaceIs
<1>4. LinkInv' /\ RowInv'
  BY <1>1, <1>2, PublicationMoves, NextLinkInv, NextRow
<1>5. EndedInv' /\ LedgerInv' /\ StageInv' /\ ToldInv'
  BY <1>1, NextLedger, NextStage, NextTold
<1>6. DataInv' /\ PlanInv'
  BY <1>1, <1>2, <1>3, NextData, NextPlan
<1>. QED
  BY <1>4, <1>5, <1>6 DEF StackInv

\* An offset stays within the bound of the type.
LEMMA OffsetsFit ==
    ASSUME DataInv, AtPlace
    PROVE  offsets \in [Queries -> 0..(MaxRounds * MaxResumes)]
<1>1. currentRound \in 0..MaxRounds /\ MaxRounds \in 3..5 /\ MaxResumes \in Nat
  BY ConfigAssumption DEF DataInv, Loop!TypeOK
<1> DEFINE low == Searches * MaxResumes
           high == MaxRounds * MaxResumes
<1>2. \A q \in Queries : offsets[q] \in Nat /\ offsets[q] \in 0..low
  BY DEF DataInv
<1>3. offsets \in [Queries -> 0..low]
  BY DEF DataInv
<1>4. Searches \in 0..5 /\ Searches <= MaxRounds
  BY <1>1 DEF Searches, AtPlace, InRounds
<1>5. low <= high /\ low \in Nat /\ high \in Nat
  <2>1. MaxRounds \in 0..5
    BY <1>1
  <2>. QED
    BY <1>1, <1>4, <2>1, Products
<1> HIDE DEF low, high
<1>6. \A q \in Queries : offsets[q] \in 0..high
  BY <1>2, <1>5
<1>7. offsets \in [Queries -> 0..high]
  BY <1>3, <1>6
<1>. QED
  BY <1>7 DEF high

\* The row, the workflow's memory, the queries, the offsets, the registry of prompts, the
\* trace and the attempts to publish have their types, whatever the catalogue, the texts,
\* the schedule, the faults and the number of attempts (agent_runs.py, workflows.py,
\* agents.py, agent_tracing.py).
THEOREM StackAlwaysTyped == Spec => []TypeOK
<1>1. StackInv => TypeOK
  <2> SUFFICES ASSUME StackInv
               PROVE  TypeOK
    OBVIOUS
  <2>1. Loop!TypeOK /\ offsets \in [Queries -> 0..(MaxRounds * MaxResumes)]
    BY OffsetsFit, PlaceIs DEF StackInv, DataInv
  <2>2. PlanInv
    BY DEF StackInv
  <2>. QED
    BY <2>1, <2>2, Zenon DEF PlanInv, TypeOK
<1>. QED
  BY InitInv, NextInv, <1>1, PTL DEF Spec

\* A finished attempt has sent its whole plan, which lists the tree of the ledger.
LEMMA MirrorIs == DataInv /\ PlanInv => TreeMirrorsLedger
<1> SUFFICES ASSUME DataInv, PlanInv, NEW a \in Attempts, scenario.langfuse,
                    publication[a].phase = "done"
             PROVE  Shows(publication[a].plan, publication[a].sent, steps)
  BY DEF TreeMirrorsLedger, Shows
<1>1. publication[a].plan = Replay(steps) /\ publication[a].sent = Len(publication[a].plan)
  BY DEF PlanInv, Started
<1>2. WellFormed(steps) /\ \A i \in DOMAIN steps : steps[i].type = "strategy" <=> steps[i].round = 0
  BY LedgerWellFormed DEF DataInv, Orderly
<1>3. Lists(publication[a].plan, Tree(steps))
  BY <1>1, <1>2, ReplayLists
<1>4. Shows(publication[a].plan, Len(publication[a].plan), steps)
  BY <1>2, <1>3, TreeShows
<1>. QED
  BY <1>1, <1>4

\* The trace of a finished attempt shows the recorded ledger: every step of a round once
\* under its round and in the ledger's order, the strategy and the final step at the
\* root, each analysed resume once under its analysis - also where a repeated patch
\* recorded a step twice (agent_tracing.py, publish_agent_run_trace).
THEOREM TreeAlwaysMirrorsLedger == Spec => []TreeMirrorsLedger
<1>1. StackInv => TreeMirrorsLedger
  BY MirrorIs DEF StackInv
<1>. QED
  BY InitInv, NextInv, <1>1, PTL DEF Spec

-----------------------------------------------------------------------------
(* Reading on: a query is read from its first result without a gap.        *)

\* The first o results of a query.
Reads(catalogue, q, o) ==
    LET found == Results(catalogue, q)
    IN  {found[k] : k \in {i \in DOMAIN found : i <= o}}

\* They are some of what the query finds, and all of it at last.
LEMMA ReadsAre ==
    ASSUME NEW catalogue, IsSequence(catalogue), Len(catalogue) <= MaxResumes, NEW q, NEW o \in Nat
    PROVE  LET found == Results(catalogue, q)
               n == Cardinality(FoundBy(catalogue, q))
           IN  /\ n \in Nat /\ Len(found) = n
               /\ Reads(catalogue, q, o) = {found[k] : k \in {i \in 1..n : i <= o}}
               /\ Reads(catalogue, q, o) \subseteq FoundBy(catalogue, q)
               /\ n <= o => Reads(catalogue, q, o) = FoundBy(catalogue, q)
               /\ Reads(catalogue, q, 0) = {}
<1> DEFINE found == Results(catalogue, q)
           n == Cardinality(FoundBy(catalogue, q))
<1>1. /\ n \in Nat /\ Len(found) = n /\ DOMAIN found = 1..n
      /\ \A k \in 1..n : found[k] \in FoundBy(catalogue, q)
      /\ \A i \in FoundBy(catalogue, q) : \E k \in 1..n : found[k] = i
  BY ResultsAre
<1> HIDE DEF n
<1>2. \A m : Reads(catalogue, q, m) = {found[k] : k \in {i \in 1..n : i <= m}}
  BY <1>1 DEF Reads
<1> HIDE DEF found
<1>3. Reads(catalogue, q, o) \subseteq FoundBy(catalogue, q)
  BY <1>1, <1>2
<1>4. ASSUME n <= o
      PROVE  FoundBy(catalogue, q) \subseteq Reads(catalogue, q, o)
  <2>1. \A k \in 1..n : k <= o
    BY <1>1, <1>4
  <2>. QED
    BY <1>1, <1>2, <2>1
<1>5. Reads(catalogue, q, 0) = {}
  BY <1>1, <1>2
<1>. QED
  BY <1>1, <1>2, <1>3, <1>4, <1>5 DEF n, found

\* A search whose page begins at the offset, or behind the end of the list, reads on
\* from where the last one ended, and brings nothing only when there is nothing left.
LEMMA SearchReads ==
    ASSUME NEW catalogue, IsSequence(catalogue), Len(catalogue) <= MaxResumes, NEW q, NEW o \in Nat, NEW z \in Nat \ {0},
           o < Cardinality(FoundBy(catalogue, q)) => o % z = 0
    PROVE  LET found == Results(catalogue, q)
               p == Slice(o, z, Cardinality(FoundBy(catalogue, q)))
               returned == {found[i + 1] : i \in p}
           IN  /\ Reads(catalogue, q, o) \cup returned = Reads(catalogue, q, o + Cardinality(p))
               /\ returned \subseteq Reads(catalogue, q, o) => FoundBy(catalogue, q) \subseteq Reads(catalogue, q, o)
<1> DEFINE found == Results(catalogue, q)
           n == Cardinality(FoundBy(catalogue, q))
           p == Slice(o, z, n)
           c == Cardinality(p)
           returned == {found[i + 1] : i \in p}
<1>1. n \in Nat
  BY ReadsAre
<1>2. /\ c \in Nat /\ (o < n => o \in p) /\ p \subseteq 0..(n - 1)
      /\ o % z = 0 => p = {i \in 0..(n - 1) : o <= i /\ i < o + c}
  <2>1. SliceFits(o, z, n, p)
    BY <1>1, SlicesFit
  <2>2. p \subseteq 0..(n - 1)
    BY DEF Slice
  <2>. QED
    BY <2>1, <2>2 DEF SliceFits
<1>3. /\ Reads(catalogue, q, o) = {found[k] : k \in {i \in 1..n : i <= o}}
      /\ Reads(catalogue, q, o + c) = {found[k] : k \in {i \in 1..n : i <= o + c}}
      /\ n <= o => Reads(catalogue, q, o) = FoundBy(catalogue, q)
      /\ n <= o + c => Reads(catalogue, q, o + c) = FoundBy(catalogue, q)
      /\ \A k \in 1..n : found[k] \in FoundBy(catalogue, q)
      /\ \A k, l \in 1..n : found[k] = found[l] => k = l
  <2>1. o + c \in Nat
    BY <1>2
  <2>3. /\ \A k \in 1..n : found[k] \in FoundBy(catalogue, q)
        /\ \A k, l \in 1..n : found[k] = found[l] => k = l
    BY ResultsAre
  <2> HIDE DEF c
  <2>. QED
    BY <2>1, <2>3, ReadsAre
<1> HIDE DEF found, n, p, c
<1>4. CASE n <= o
  <2>1. n <= o + c
    BY <1>1, <1>2, <1>4
  <2>2. returned \subseteq FoundBy(catalogue, q)
    <3>1. \A i \in p : i + 1 \in 1..n
      BY <1>1, <1>2
    <3>. QED
      BY <1>3, <3>1
  <2>. QED
    BY <1>3, <1>4, <2>1, <2>2 DEF found, n, p, c
<1>5. CASE o < n
  <2>1. o % z = 0
    BY <1>5 DEF n
  <2>2. \A i : i \in p <=> i \in 0..(n - 1) /\ o <= i /\ i < o + c
    BY <1>2, <2>1
  <2>3. ASSUME NEW x \in returned
        PROVE  x \in Reads(catalogue, q, o + c)
    <3>1. PICK i \in p : x = found[i + 1]
      OBVIOUS
    <3>2. i + 1 \in 1..n /\ i + 1 <= o + c
      BY <1>1, <1>2, <2>2
    <3>. QED
      BY <1>3, <3>1, <3>2
  <2>4. Reads(catalogue, q, o) \subseteq Reads(catalogue, q, o + c)
    <3>1. \A k \in 1..n : k <= o => k <= o + c
      BY <1>1, <1>2
    <3>. QED
      BY <1>3, <3>1
  <2>5. ASSUME NEW x \in Reads(catalogue, q, o + c)
        PROVE  x \in Reads(catalogue, q, o) \cup returned
    <3>1. PICK k \in 1..n : k <= o + c /\ x = found[k]
      BY <1>3, <2>5
    <3>2. CASE k <= o
      BY <1>3, <3>1, <3>2
    <3>3. CASE o < k
      <4>1. k - 1 \in p /\ (k - 1) + 1 = k
        BY <1>1, <1>2, <2>2, <3>1, <3>3
      <4>. QED
        BY <3>1, <4>1
    <3>. QED
      BY <1>1, <3>2, <3>3
  <2>6. ~(returned \subseteq Reads(catalogue, q, o))
    <3>1. o \in p /\ o + 1 \in 1..n
      BY <1>1, <1>2, <1>5
    <3>2. found[o + 1] \notin Reads(catalogue, q, o)
      <4> SUFFICES ASSUME found[o + 1] \in Reads(catalogue, q, o)
                   PROVE  FALSE
        OBVIOUS
      <4>1. PICK k \in 1..n : k <= o /\ found[k] = found[o + 1]
        BY <1>3
      <4>. QED
        BY <1>3, <3>1, <4>1
    <3>3. found[o + 1] \in returned
      BY <3>1
    <3>. QED
      BY <3>2, <3>3
  <2>. QED
    BY <2>3, <2>4, <2>5, <2>6 DEF found, n, p, c
<1>. QED
  BY <1>1, <1>4, <1>5

-----------------------------------------------------------------------------
(* Rounds that admitted nobody.                                            *)

\* An analysis of a round that admitted no resume.
EmptyAnalysis(e) == e.type = "analysis" /\ e.entries = {}

\* The ledger records such a round.
HasEmpty(ledger) == \E i \in DOMAIN ledger : EmptyAnalysis(ledger[i])

\* After one that is empty every analysis is.
EmptyIsFinal(ledger) ==
    \A i, j \in DOMAIN ledger :
        i < j /\ EmptyAnalysis(ledger[i]) /\ ledger[j].type = "analysis" => ledger[j].entries = {}

\* What an appended step changes in that.
LEMMA EmptyAppends ==
    ASSUME NEW s, IsSequence(s), NEW e
    PROVE  /\ HasEmpty(Append(s, e)) <=> HasEmpty(s) \/ EmptyAnalysis(e)
           /\ EmptyIsFinal(s) /\ (e.type = "analysis" /\ HasEmpty(s) => e.entries = {})
              => EmptyIsFinal(Append(s, e))
<1> DEFINE n == Len(s)
           t == Append(s, e)
<1>1. /\ n \in Nat /\ DOMAIN s = 1..n /\ DOMAIN t = 1..(n + 1)
      /\ (\A i \in 1..n : t[i] = s[i]) /\ t[n + 1] = e
  BY AppendKeeps
<1> HIDE DEF n, t
<1>2. \A i \in 1..(n + 1) : i \in 1..n \/ i = n + 1
  BY <1>1
<1>3. HasEmpty(t) <=> HasEmpty(s) \/ EmptyAnalysis(e)
  <2>1. \A i \in 1..n : i \in 1..(n + 1)
    BY <1>1
  <2>2. n + 1 \in 1..(n + 1)
    BY <1>1
  <2>. QED
    BY <1>1, <1>2, <2>1, <2>2 DEF HasEmpty
<1>4. ASSUME EmptyIsFinal(s), e.type = "analysis" /\ HasEmpty(s) => e.entries = {}
      PROVE  EmptyIsFinal(t)
  <2> SUFFICES ASSUME NEW i \in DOMAIN t, NEW j \in DOMAIN t, i < j, EmptyAnalysis(t[i]),
                      t[j].type = "analysis"
               PROVE  t[j].entries = {}
    BY DEF EmptyIsFinal
  <2>1. i \in 1..n
    BY <1>1
  <2>2. CASE j \in 1..n
    BY <1>1, <1>4, <2>1, <2>2 DEF EmptyIsFinal
  <2>3. CASE j = n + 1
    <3>1. HasEmpty(s)
      BY <1>1, <2>1 DEF HasEmpty
    <3>. QED
      BY <1>1, <1>4, <2>3, <3>1
  <2>. QED
    BY <1>1, <1>2, <2>2, <2>3
<1>. QED
  BY <1>3, <1>4 DEF t

\* A copy of the last step, or of the last two where the second is no analysis, shows
\* nothing that is not shown.
LEMMA EmptyCopies ==
    ASSUME NEW s, IsSequence(s), EmptyIsFinal(s), NEW k \in DOMAIN s,
           \A i \in DOMAIN s : k < i => s[i].type # "analysis"
    PROVE  /\ HasEmpty(Append(s, s[k])) <=> HasEmpty(s)
           /\ EmptyIsFinal(Append(s, s[k]))
<1>1. DOMAIN s = 1..Len(s) /\ Len(s) \in Nat
  BY AppendKeeps
<1>2. EmptyAnalysis(s[k]) => HasEmpty(s)
  BY DEF HasEmpty
<1>3. ASSUME s[k].type = "analysis", HasEmpty(s)
      PROVE  s[k].entries = {}
  <2>1. PICK i \in DOMAIN s : EmptyAnalysis(s[i])
    BY <1>3 DEF HasEmpty
  <2>2. ~(k < i)
    BY <2>1 DEF EmptyAnalysis
  <2>3. i < k \/ i = k
    BY <1>1, <2>2
  <2>. QED
    BY <1>3, <2>1, <2>3 DEF EmptyIsFinal, EmptyAnalysis
<1>. QED
  BY <1>2, <1>3, EmptyAppends

\* The ledger shows as many empty rounds as before.
Quiet == (EmptyIsFinal(steps) => EmptyIsFinal(steps') /\ (HasEmpty(steps') <=> HasEmpty(steps)))

\* A step that is no analysis changes nothing in that.
LEMMA QuietAppend ==
    ASSUME LedgerInv, NEW e, e.type # "analysis", steps' = Append(steps, e)
    PROVE  Quiet
BY EmptyAppends DEF LedgerInv, EmptyAnalysis, Quiet

\* Only the ranking does, the repeated patch included.
LEMMA QuietLedger ==
    ASSUME DataInv, EndedInv, LedgerInv, [Next]_vars
    PROVE  Quiet \/ Loop!AnalyseWith(Scores)
<1>0. \A type \in Loop!StepTypes : Loop!NextStep(type).type = type
  BY NewStepsSay
<1>1. CASE ExtractStrategy
  <2>1. steps' = Append(steps, Loop!NextStep("strategy"))
    BY <1>1 DEF ExtractStrategy, Loop!ExtractStrategy
  <2>2. Loop!NextStep("strategy").type = "strategy"
    BY NewStepsSay
  <2>. QED
    BY <2>1, <2>2, QuietAppend
<1>2. CASE SearchReturns
  <2>1. steps' = Append(steps, Loop!SearchStep)
    BY <1>2 DEF SearchReturns, Loop!SearchReturns
  <2>2. Loop!SearchStep.type = "search"
    BY NewStepsSay DEF Loop!SearchStep
  <2>. QED
    BY <2>1, <2>2, QuietAppend
<1>3. CASE Loop!Dedupe
  <2>1. steps' = Append(steps, Loop!NextStep("dedupe"))
    BY <1>3 DEF Loop!Dedupe
  <2>2. Loop!NextStep("dedupe").type = "dedupe"
    BY NewStepsSay
  <2>. QED
    BY <2>1, <2>2, QuietAppend
<1>4. CASE Loop!StopByRule \/ Loop!RecordStop
  <2>1. \E source : steps' = Append(steps, [Loop!NextStep("stop") EXCEPT !.source = source])
    BY <1>4 DEF Loop!StopByRule, Loop!RecordStop
  <2>2. \A source : [Loop!NextStep("stop") EXCEPT !.source = source].type = "stop"
    BY NewStepsSay
  <2>. QED
    BY <2>1, <2>2, QuietAppend
<1>5. CASE Reflect
  <2>1. \E q : steps' = Append(steps, Loop!ReflectionStep(q))
    BY <1>5 DEF Reflect, Loop!ReflectWith
  <2>2. \A q : Loop!ReflectionStep(q).type = "reflection"
    BY NewStepsSay DEF Loop!ReflectionStep
  <2>. QED
    BY <2>1, <2>2, QuietAppend
<1>6. CASE Loop!Finalize
  <2>1. steps' = Append(steps, Loop!NextStep("finalize"))
    BY <1>6 DEF Loop!Finalize
  <2>2. Loop!NextStep("finalize").type = "finalize"
    BY NewStepsSay
  <2>. QED
    BY <2>1, <2>2, QuietAppend
<1>7. CASE PatchRepeated
  <2> SUFFICES ASSUME EmptyIsFinal(steps)
               PROVE  EmptyIsFinal(steps') /\ (HasEmpty(steps') <=> HasEmpty(steps))
    BY DEF Quiet
  <2> DEFINE n == Len(steps)
             x == steps[n - 1]
             y == steps[n]
  <2>1. /\ n # 0
        /\ IF pc = "judge" THEN steps' = Append(Append(steps, x), y)
                           ELSE steps' = Append(steps, y)
    BY <1>7, PatchAppends DEF DataInv, LedgerInv
  <2>2. IsSequence(steps) /\ n \in Nat /\ DOMAIN steps = 1..n
    BY AppendKeeps DEF LedgerInv
  <2>3. n \in DOMAIN steps /\ \A i \in DOMAIN steps : ~(n < i)
    BY <2>1, <2>2
  <2>4. CASE pc # "judge"
    <3>1. steps' = Append(steps, y)
      BY <2>1, <2>4
    <3>. QED
      BY <2>2, <2>3, <3>1, EmptyCopies
  <2>5. CASE pc = "judge"
    <3>1. n >= 2 /\ y.type = "shortlist"
      BY <2>5 DEF DataInv, JudgeInv
    <3>2. n - 1 \in DOMAIN steps /\ \A i \in DOMAIN steps : n - 1 < i => i = n
      BY <2>2, <3>1
    <3>3. steps' = Append(Append(steps, x), y)
      BY <2>1, <2>5
    <3>4. /\ HasEmpty(Append(steps, x)) <=> HasEmpty(steps)
          /\ EmptyIsFinal(Append(steps, x))
      BY <2>2, <3>1, <3>2, EmptyCopies
    <3>5. IsSequence(Append(steps, x))
      BY <2>2, AppendKeeps
    <3> HIDE DEF x, y
    <3>. QED
      BY <3>1, <3>3, <3>4, <3>5, EmptyAppends DEF EmptyAnalysis
  <2>. QED
    BY <2>4, <2>5
<1>8. CASE \/ Loop!MarkRunning \/ Loop!BeginRound \/ Loop!RecordFailure
           \/ ActivityRaises \/ Loop!PublishTrace \/ UNCHANGED loopVars
  <2>1. UNCHANGED steps
    BY <1>8
       DEF Loop!MarkRunning, Loop!BeginRound, Loop!RecordFailure, ActivityRaises,
           Loop!ActivityRaises, Loop!PublishTrace, Loop!record, loopVars
  <2>. QED
    BY <2>1 DEF Quiet
<1>. QED
  BY <1>1, <1>2, <1>3, <1>4, <1>5, <1>6, <1>7, <1>8, Zenon
     DEF Next, LoopStep, PublishTrace, Over, vars

\* Ranking records an empty round if none was admitted.
LEMMA AnalysisRecords ==
    ASSUME DataInv, AtPlace, LedgerInv, Loop!AnalyseWith(Scores)
    PROVE  /\ HasEmpty(steps') <=> HasEmpty(steps) \/ admitted = {}
           /\ EmptyIsFinal(steps) /\ (HasEmpty(steps) => admitted = {}) => EmptyIsFinal(steps')
<1>1. PICK top \in SUBSET Loop!Entry :
         LET e == [Loop!NextStep("analysis") EXCEPT !.entries = Loop!Analyses(Scores)]
             f == [Loop!SecondStep("shortlist") EXCEPT !.entries = top]
         IN  AppendsTwo(e, f) /\ e.type = "analysis" /\ f.type = "shortlist"
  BY RanksTyped
<1> DEFINE e == [Loop!NextStep("analysis") EXCEPT !.entries = Loop!Analyses(Scores)]
           f == [Loop!SecondStep("shortlist") EXCEPT !.entries = top]
<1>2. e.entries = Loop!Analyses(Scores)
  BY NewStepsSay DEF Loop!NextStep, Loop!BlankStep
<1>3. Loop!Analyses(Scores) = {} <=> admitted = {}
  BY DEF Loop!Analyses
<1> HIDE DEF e, f
<1>4. /\ steps' = Append(Append(steps, e), f) /\ e.type = "analysis" /\ f.type = "shortlist"
  BY <1>1 DEF e, f, AppendsTwo
<1>5. IsSequence(steps) /\ IsSequence(Append(steps, e))
  BY AppendKeeps DEF LedgerInv
<1>. QED
  BY <1>2, <1>3, <1>4, <1>5, EmptyAppends DEF EmptyAnalysis

-----------------------------------------------------------------------------
(* A round that admits nobody has seen all that its query finds.           *)

\* While every round admitted somebody: what was seen is what the query has been read
\* to, and a page begins where the last one ended.
ReadOnInv ==
    /\ (IF pc = "dedupe" THEN seen \cup page ELSE seen) = Reads(scenario.catalogue, strategy, offsets[strategy])
    /\ \A r \in 1..MaxRounds :
          Searches < r /\ offsets[strategy] < Cardinality(FoundBy(scenario.catalogue, strategy))
          => offsets[strategy] % scenario.plan[r] = 0
    /\ pc = "dedupe" /\ page \subseteq seen => FoundBy(scenario.catalogue, strategy) \subseteq seen
    /\ pc = "analyse" /\ admitted = {} => FoundBy(scenario.catalogue, strategy) \subseteq seen
    /\ pc = "judge" => admitted # {}

\* Once a round admitted nobody, the query finds nobody else.
DryInv ==
    /\ FoundBy(scenario.catalogue, strategy) \subseteq seen
    /\ pc = "dedupe" => page \subseteq seen
    /\ pc \in {"analyse", "judge"} => admitted = {}

\* If every later page size divides the earlier ones, then an empty round is followed by
\* empty rounds only: before the first one the query is read on without a gap, after it
\* there is nothing left to find.
FruitInv ==
    Paging!Aligned =>
        /\ EmptyIsFinal(steps)
        /\ pc \in InRounds => IF HasEmpty(steps) THEN DryInv ELSE ReadOnInv

\* What DataInv says of the numbers of a search.
LEMMA OffsetsTyped ==
    ASSUME DataInv, pc \in InRounds
    PROVE  /\ strategy \in Queries /\ Given
           /\ offsets[strategy] \in Nat /\ DOMAIN offsets = Queries
           /\ MaxRounds \in 3..5 /\ currentRound \in 0..MaxRounds
           /\ Searches \in Int
           /\ \A r \in 1..MaxRounds : scenario.plan[r] \in Nat \ {0}
           /\ IsFiniteSet(admitted)
<1>1. strategy \in Queries /\ Given /\ currentRound \in 0..MaxRounds /\ MaxRounds \in 3..5
      /\ MaxResumes \in Nat /\ admitted \in SUBSET (1..MaxResumes)
  BY ConfigAssumption DEF DataInv, Loop!TypeOK
<1> DEFINE high == Searches * MaxResumes
<1>2. offsets \in [Queries -> 0..high]
  BY DEF DataInv
<1> HIDE DEF high
<1>3. offsets[strategy] \in Nat /\ DOMAIN offsets = Queries
  BY <1>1, <1>2
<1>4. IsFiniteSet(admitted)
  <2>1. IsFiniteSet(1..MaxResumes)
    <3>1. 1 \in Int /\ MaxResumes \in Int
      BY <1>1
    <3>. QED
      BY <3>1, FS_Interval
  <2>. QED
    BY <1>1, <2>1, FS_Subset
<1>5. \A r \in 1..MaxRounds : scenario.plan[r] \in Nat \ {0}
  BY <1>1, GivenIs
<1>6. Searches \in Int
  BY <1>1 DEF Searches
<1>. QED
  BY <1>1, <1>3, <1>4, <1>5, <1>6

\* It is true at first.
LEMMA InitFruit == Init => FruitInv
<1> SUFFICES ASSUME Init
             PROVE  FruitInv
  OBVIOUS
<1>1. steps = <<>> /\ pc = "start"
  BY DEF Init, Loop!Init
<1>2. EmptyIsFinal(steps)
  BY <1>1 DEF EmptyIsFinal
<1>. QED
  BY <1>1, <1>2 DEF FruitInv, InRounds

\* A search while every round so far admitted somebody.
LEMMA SearchReadsOn ==
    ASSUME DataInv, AtPlace, Paging!Aligned, ReadOnInv, SearchReturns, UNCHANGED scenario
    PROVE  ReadOnInv'
<1> DEFINE catalogue == scenario.catalogue
           q == strategy
           o == offsets[q]
           z == scenario.plan[currentRound]
           n == Cardinality(FoundBy(catalogue, q))
           found == Results(catalogue, q)
           p == Slice(o, z, n)
           c == Cardinality(p)
<1>1. pc = "search" /\ pc' = "dedupe" /\ UNCHANGED <<strategy, seen, currentRound>>
  BY DEF SearchReturns, Loop!SearchReturns
<1>2. pc \in InRounds /\ currentRound # 0
  BY <1>1 DEF AtPlace, InRounds
<1>3. /\ q \in Queries /\ Given /\ o \in Nat /\ DOMAIN offsets = Queries
      /\ MaxRounds \in 3..5 /\ currentRound \in 1..MaxRounds
      /\ \A r \in 1..MaxRounds : scenario.plan[r] \in Nat \ {0}
  BY <1>2, OffsetsTyped
<1>00. IsSequence(catalogue) /\ Len(catalogue) <= MaxResumes
  BY <1>3, GivenIs
<1>4. z \in Nat \ {0} /\ n \in Nat /\ Len(found) = n
  BY <1>00, <1>3, ReadsAre
<1>5. Paging!Returned(q) = p
  <2>1. /\ Len(found) \in 0..MaxResumes
        /\ Paging!Returned(q)
           = {i \in 0..(Len(found) - 1) : ((o \div z + 1) - 1) * z <= i /\ i < (o \div z + 1) * z}
    BY <1>3, ReturnedIs
  <2>. QED
    BY <1>4, <2>1 DEF Slice
<1>6. page' = {found[i + 1] : i \in p}
  BY <1>5 DEF SearchReturns
<1>7. offsets' = [offsets EXCEPT ![q] = @ + c]
  <2>1. Paging!Cardinality(p) = c
    BY DEF Paging!Cardinality, Cardinality
  <2>2. offsets' = [offsets EXCEPT ![q] = @ + Paging!Cardinality(Paging!Returned(q))]
    BY DEF SearchReturns, Paging!Advance
  <2> HIDE DEF c, p, q
  <2>. QED
    BY <1>5, <2>1, <2>2
<1>8. Searches = currentRound - 1 /\ Searches' = currentRound
  BY <1>1 DEF Searches
<1>9. o < n => o % z = 0
  <2>1. currentRound \in 1..MaxRounds /\ Searches < currentRound
    BY <1>3, <1>8
  <2>. QED
    BY <2>1 DEF ReadOnInv
<1>10. seen = Reads(catalogue, q, o)
  BY <1>1 DEF ReadOnInv
<1>11. /\ Reads(catalogue, q, o) \cup page' = Reads(catalogue, q, o + c)
       /\ page' \subseteq Reads(catalogue, q, o) => FoundBy(catalogue, q) \subseteq Reads(catalogue, q, o)
  BY <1>00, <1>3, <1>4, <1>6, <1>9, SearchReads
<1>12. /\ c \in Nat
       /\ o < n => c = z \/ n <= o + c
  <2>1. SliceFits(o, z, n, p)
    BY <1>3, <1>4, SlicesFit
  <2>. QED
    BY <2>1 DEF SliceFits
<1>13. offsets'[q] = o + c
  <2> HIDE DEF c, q
  <2>. QED
    BY <1>3, <1>7
<1>14. Reads(catalogue, q, o + c) = Reads(scenario'.catalogue, strategy', offsets'[strategy'])
  BY <1>1, <1>13
<1> HIDE DEF c, p, found
<1>15. seen' \cup page' = Reads(scenario'.catalogue, strategy', offsets'[strategy'])
  BY <1>1, <1>10, <1>11, <1>14
<1>16. page' \subseteq seen' => FoundBy(scenario'.catalogue, strategy') \subseteq seen'
  BY <1>1, <1>10, <1>11
<1>17. ASSUME NEW r \in 1..MaxRounds, currentRound < r, o + c < n
       PROVE  (o + c) % scenario.plan[r] = 0
  <2> DEFINE d == scenario.plan[r]
  <2>1. d \in Nat \ {0}
    BY <1>3
  <2>2. z % d = 0
    BY <1>3, <1>17 DEF Paging!Aligned
  <2>3. o < n
    BY <1>3, <1>4, <1>12, <1>17
  <2>4. c = z
    BY <1>3, <1>4, <1>12, <1>17, <2>3
  <2>5. o % d = 0
    <3>1. Searches < r
      BY <1>3, <1>8, <1>17
    <3>. QED
      BY <2>3, <3>1 DEF ReadOnInv
  <2> HIDE DEF d, o, z
  <2>6. o \in Nat /\ z \in Nat
    BY <1>3, <1>4
  <2>7. (o + z) % d = 0
    BY <2>1, <2>2, <2>5, <2>6, ModuloOfSum
  <2>. QED
    BY <2>4, <2>7 DEF d
<1>18. ASSUME NEW r \in 1..MaxRounds, Searches' < r,
              offsets'[strategy'] < Cardinality(FoundBy(scenario'.catalogue, strategy'))
       PROVE  offsets'[strategy'] % scenario'.plan[r] = 0
  <2>1. currentRound < r /\ o + c < n
    BY <1>1, <1>8, <1>13, <1>18
  <2>2. (o + c) % scenario.plan[r] = 0
    BY <1>17, <2>1
  <2>. QED
    BY <1>1, <1>13, <2>2
<1>. QED
  BY <1>1, <1>15, <1>16, <1>18 DEF ReadOnInv

\* A round that admitted nobody is followed by a query that finds nothing else.
LEMMA ReflectedFindsLess ==
    ASSUME NEW q \in Queries, NEW catalogue, NEW round, NEW max, NEW new
    PROVE  LET next == Reflection(q, round, max, new).nextQuery
           IN  /\ FoundBy(catalogue, next) \subseteq FoundBy(catalogue, q)
               /\ new # 0 => next = q
BY WeakerFindsLess DEF Reflection

\* The reflector drops a term or keeps the query, and so keeps either part.
LEMMA ReflectKeepsFruit ==
    ASSUME DataInv, Reflect, UNCHANGED <<offsets, scenario>>, pc' \in InRounds
    PROVE  (DryInv => DryInv') /\ (ReadOnInv => ReadOnInv')
<1> DEFINE answer == Reflection(strategy, currentRound, MaxRounds, Cardinality(admitted))
           next == answer.nextQuery
<1>1. Loop!ReflectWith(answer.continueSearch, next)
  BY DEF Reflect
<1>2. strategy \in Queries /\ IsFiniteSet(admitted) /\ pc = "judge"
  <2>1. pc = "judge"
    BY <1>1 DEF Loop!ReflectWith
  <2>. QED
    BY <2>1, OffsetsTyped DEF InRounds
<1>3. /\ FoundBy(scenario.catalogue, next) \subseteq FoundBy(scenario.catalogue, strategy)
      /\ Cardinality(admitted) # 0 => next = strategy
  BY <1>2, ReflectedFindsLess
<1>4. Cardinality(admitted) = 0 => admitted = {}
  BY <1>2, FS_EmptySet
<1> HIDE DEF answer, next
<1>5. /\ pc' = "begin" /\ strategy' = next
      /\ UNCHANGED <<currentRound, seen, page, admitted>>
  BY <1>1 DEF Loop!ReflectWith, InRounds
<1>6. DryInv => DryInv'
  BY <1>3, <1>5 DEF DryInv
<1>7. ASSUME ReadOnInv
      PROVE  ReadOnInv'
  <2>1. strategy' = strategy
    BY <1>2, <1>3, <1>4, <1>5, <1>7 DEF ReadOnInv
  <2>. QED
    BY <1>2, <1>5, <1>7, <2>1 DEF ReadOnInv, Searches
<1>. QED
  BY <1>6, <1>7

\* What a search returns the query finds.
LEMMA PageIsFound ==
    ASSUME DataInv, pc = "search", currentRound # 0, SearchReturns
    PROVE  page' \subseteq FoundBy(scenario.catalogue, strategy)
<1> DEFINE found == Results(scenario.catalogue, strategy)
           n == Len(found)
<1>1. strategy \in Queries /\ Given /\ currentRound \in Nat
  BY ConfigAssumption DEF DataInv, InRounds, Loop!TypeOK
<1>2. n \in Nat /\ Paging!Returned(strategy) \subseteq 0..(n - 1)
  <2>1. n \in 0..MaxResumes /\ MaxResumes \in Nat
    BY <1>1, ReturnedIs, ConfigAssumption
  <2>2. Paging!Returned(strategy) \subseteq 0..(n - 1)
    BY <1>1, ReturnedIs
  <2>. QED
    BY <2>1, <2>2
<1>3. \A k \in 1..n : found[k] \in FoundBy(scenario.catalogue, strategy)
  BY <1>1, GivenIs, ResultsAre
<1>4. page' = {found[i + 1] : i \in Paging!Returned(strategy)}
  BY DEF SearchReturns
<1> HIDE DEF found, n
<1>5. \A i \in Paging!Returned(strategy) : i + 1 \in 1..n
  BY <1>2
<1>. QED
  BY <1>3, <1>4, <1>5

\* Every step keeps the invariant.
LEMMA NextFruit ==
    ASSUME DataInv, AtPlace, EndedInv, LedgerInv, ToldInv, FruitInv, [Next]_vars
    PROVE  FruitInv'
<1>0. UNCHANGED scenario /\ (SearchReturns \/ UNCHANGED offsets)
  BY AsideMoves
<1> SUFFICES ASSUME Paging!Aligned
             PROVE  FruitInv'
  <2>1. Paging!Aligned' => Paging!Aligned
    BY <1>0 DEF Paging!Aligned
  <2>. QED
    BY <2>1 DEF FruitInv
<1>1. /\ EmptyIsFinal(steps)
      /\ pc \in InRounds => IF HasEmpty(steps) THEN DryInv ELSE ReadOnInv
  BY DEF FruitInv
<1>2. ASSUME Loop!AnalyseWith(Scores)
      PROVE  FruitInv'
  <2>1. /\ pc = "analyse" /\ pc' = "judge"
        /\ UNCHANGED <<currentRound, seen, strategy, page, admitted>>
    BY <1>2 DEF Loop!AnalyseWith
  <2>2. UNCHANGED offsets
    BY <1>0, <2>1 DEF SearchReturns
  <2>3. pc \in InRounds
    BY <2>1 DEF InRounds
  <2>4. HasEmpty(steps) => admitted = {}
    BY <1>1, <2>1, <2>3 DEF DryInv
  <2>5. /\ HasEmpty(steps') <=> HasEmpty(steps) \/ admitted = {}
        /\ EmptyIsFinal(steps')
    BY <1>1, <1>2, <2>4, AnalysisRecords
  <2>6. CASE admitted = {}
    <3>1. FoundBy(scenario.catalogue, strategy) \subseteq seen
      BY <1>1, <2>1, <2>3, <2>6 DEF DryInv, ReadOnInv
    <3>2. DryInv'
      BY <1>0, <2>1, <2>6, <3>1 DEF DryInv
    <3>. QED
      BY <2>5, <2>6, <3>2 DEF FruitInv
  <2>7. CASE admitted # {}
    <3>1. ReadOnInv /\ ~HasEmpty(steps')
      BY <1>1, <2>3, <2>4, <2>5, <2>7
    <3>2. ReadOnInv'
      BY <1>0, <2>1, <2>2, <2>7, <3>1 DEF ReadOnInv, Searches
    <3>. QED
      BY <2>5, <3>1, <3>2 DEF FruitInv
  <2>. QED
    BY <2>6, <2>7
<1> SUFFICES ASSUME ~Loop!AnalyseWith(Scores)
             PROVE  FruitInv'
  BY <1>2
<1>3. EmptyIsFinal(steps') /\ (HasEmpty(steps') <=> HasEmpty(steps))
  BY <1>1, QuietLedger DEF Quiet
<1>4. SUFFICES ASSUME pc' \in InRounds
               PROVE  IF HasEmpty(steps) THEN DryInv' ELSE ReadOnInv'
  BY <1>3 DEF FruitInv
<1>5. CASE ExtractStrategy
  <2>1. /\ pc = "extract" /\ pc' = "begin" /\ strategy' = FirstQuery(scenario.text)
        /\ UNCHANGED <<currentRound, seen>>
    BY <1>5 DEF ExtractStrategy, Loop!ExtractStrategy
  <2>2. UNCHANGED offsets
    BY <1>0, <2>1 DEF SearchReturns
  <2>3. seen = {} /\ steps = <<>> /\ currentRound = 0
    BY <2>1 DEF ToldInv
  <2>4. ~HasEmpty(steps)
    BY <2>3 DEF HasEmpty
  <2>5. strategy' \in Queries /\ offsets[strategy'] = 0
    <3>1. FirstQuery(scenario.text) \in Queries
      BY QueriesAre, GivenIs DEF DataInv
    <3>2. 0 * MaxResumes = 0
      BY ConfigAssumption
    <3>3. Searches = 0
      BY <2>1, <2>3 DEF Searches
    <3>4. offsets \in [Queries -> 0..(Searches * MaxResumes)]
      BY DEF DataInv
    <3>5. offsets \in [Queries -> 0..0]
      BY <3>2, <3>3, <3>4
    <3>. QED
      BY <2>1, <3>1, <3>5
  <2>6. Reads(scenario.catalogue, strategy', 0) = {}
    BY GivenIs, ReadsAre DEF DataInv
  <2>7. \A r \in 1..MaxRounds : 0 % scenario.plan[r] = 0
    <3>1. scenario.plan \in [1..MaxRounds -> Nat \ {0}]
      BY GivenIs DEF DataInv
    <3>2. \A d \in Nat \ {0} : 0 % d = 0
      OBVIOUS
    <3>. QED
      BY <3>1, <3>2
  <2>8. ReadOnInv'
    BY <1>0, <2>1, <2>2, <2>3, <2>5, <2>6, <2>7 DEF ReadOnInv
  <2>. QED
    BY <2>4, <2>8
<1>6. CASE Loop!BeginRound
  <2>1. /\ pc = "begin" /\ pc' = "search" /\ currentRound' = currentRound + 1
        /\ UNCHANGED <<seen, strategy>>
    BY <1>6 DEF Loop!BeginRound, Loop!memory
  <2>2. UNCHANGED offsets
    BY <1>0, <2>1 DEF SearchReturns
  <2>3. Searches' = Searches /\ pc \in InRounds
    <3>1. currentRound \in Nat
      BY ConfigAssumption DEF DataInv, Loop!TypeOK
    <3>. QED
      BY <2>1, <3>1 DEF Searches, InRounds
  <2>4. DryInv => DryInv'
    BY <1>0, <2>1 DEF DryInv
  <2>5. ReadOnInv => ReadOnInv'
    BY <1>0, <2>1, <2>2, <2>3 DEF ReadOnInv
  <2>. QED
    BY <1>1, <2>3, <2>4, <2>5
<1>7. CASE SearchReturns
  <2>1. pc = "search" /\ pc' = "dedupe" /\ UNCHANGED <<strategy, seen>>
    BY <1>7 DEF SearchReturns, Loop!SearchReturns
  <2>2. pc \in InRounds
    BY <2>1 DEF InRounds
  <2>3. ReadOnInv => ReadOnInv'
    BY <1>0, <1>7, SearchReadsOn
  <2>4. page' \subseteq FoundBy(scenario.catalogue, strategy)
    <3>1. currentRound # 0
      BY <2>1 DEF AtPlace, InRounds
    <3>. QED
      BY <1>7, <2>1, <2>2, <3>1, PageIsFound
  <2>5. DryInv => DryInv'
    BY <1>0, <2>1, <2>4 DEF DryInv
  <2>. QED
    BY <1>1, <2>2, <2>3, <2>5
<1>8. CASE Loop!Dedupe
  <2>1. /\ pc = "dedupe" /\ pc' = "analyse" /\ seen' = seen \cup page
        /\ admitted' = page \ seen /\ UNCHANGED <<currentRound, strategy>>
    BY <1>8 DEF Loop!Dedupe, Loop!SeenAfter
  <2>2. UNCHANGED offsets /\ pc \in InRounds
    BY <1>0, <2>1 DEF SearchReturns, InRounds
  <2>3. DryInv => DryInv'
    BY <1>0, <2>1 DEF DryInv
  <2>4. ReadOnInv => ReadOnInv'
    BY <1>0, <2>1, <2>2 DEF ReadOnInv, Searches
  <2>. QED
    BY <1>1, <2>2, <2>3, <2>4
<1>9. CASE Reflect
  <2>1. pc = "judge"
    BY <1>9 DEF Reflect, Loop!ReflectWith
  <2>2. UNCHANGED offsets /\ pc \in InRounds
    BY <1>0, <2>1 DEF SearchReturns, InRounds
  <2>. QED
    BY <1>0, <1>1, <1>4, <1>9, <2>2, ReflectKeepsFruit
<1>10. CASE \/ Loop!MarkRunning \/ Loop!StopByRule \/ Loop!RecordStop \/ Loop!Finalize
            \/ Loop!RecordFailure \/ ActivityRaises \/ Loop!PublishTrace
  <2>1. pc' \notin InRounds
    BY <1>10
       DEF Loop!MarkRunning, Loop!StopByRule, Loop!RecordStop, Loop!Finalize,
           Loop!RecordFailure, ActivityRaises, Loop!ActivityRaises, Loop!PublishTrace, InRounds
  <2>. QED
    BY <1>4, <2>1
<1>11. CASE (PatchRepeated \/ UNCHANGED loopVars) /\ UNCHANGED offsets
  <2>1. UNCHANGED <<pc, currentRound, seen, strategy, page, admitted>>
    BY <1>11 DEF PatchRepeated, loopVars
  <2>2. DryInv => DryInv'
    BY <1>0, <2>1 DEF DryInv
  <2>3. ReadOnInv => ReadOnInv'
    BY <1>0, <1>11, <2>1 DEF ReadOnInv, Searches
  <2>4. pc \in InRounds
    BY <1>4, <2>1
  <2>. QED
    BY <1>1, <2>2, <2>3, <2>4
<1>. QED
  BY <1>0, <1>5, <1>6, <1>7, <1>8, <1>9, <1>10, <1>11, Zenon
     DEF Next, LoopStep, PublishTrace, Over, vars

\* It is about the ledger that FruitlessIsFinal is about.
LEMMA FruitImplies == FruitInv => FruitlessIsFinal
BY DEF FruitInv, FruitlessIsFinal, EmptyIsFinal, EmptyAnalysis

\* If every later page size divides the earlier ones, a round that admits no new resume
\* is followed by rounds that admit none: what the reflector asks next finds nothing that
\* was not seen (workflows.py, the search, the deduplication and the reflection;
\* agents.py, the reflector of the deterministic stack).
THEOREM FruitlessAlwaysFinal == Spec => []FruitlessIsFinal
<1> DEFINE Inv == StackInv /\ FruitInv
<1>1. Init => Inv
  BY InitInv, InitFruit
<1>2. Inv /\ [Next]_vars => Inv'
  <2>1. StackInv => DataInv /\ AtPlace /\ EndedInv /\ LedgerInv /\ ToldInv
    BY PlaceIs DEF StackInv
  <2>. QED
    BY <2>1, NextInv, NextFruit
<1>3. Inv => FruitlessIsFinal
  BY FruitImplies
<1>. QED
  BY <1>1, <1>2, <1>3, PTL DEF Spec
=============================================================================
