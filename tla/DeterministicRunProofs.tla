----------------------- MODULE DeterministicRunProofs -----------------------
(***************************************************************************)
(* A whole run of the local stack, for any catalogue, texts, schedule and  *)
(* faults and any number of attempts to publish.                           *)
(*                                                                         *)
(* Three orders carry the proofs.  The status becomes terminal with the    *)
(* patch that ends the ledger, and no patch but a repeated one follows.    *)
(* An attempt to publish starts only then, so that the row it reads is the *)
(* row for good.  And the row's trace is set after the last observation.   *)
(*                                                                         *)
(* What the reflector is told does not depend on an order at all: the      *)
(* invariant is about the set of the recorded steps, which a repeated      *)
(* patch leaves as it is.                                                  *)
(***************************************************************************)
EXTENDS DeterministicRun, EnumerationProofs

-----------------------------------------------------------------------------
(* Publications on their own: a linked prompt is the agent's, for any      *)
(* number of attempts, any ledger and any publications of other runs.      *)
(*                                                                         *)
(* The registry only grows, so a version that was the prompt's text when   *)
(* an attempt resolved it stays so; the attempt's cache is keyed by name   *)
(* and text, so what it answers later was resolved for the same text.      *)

IsAttempt(p) ==
    p = [phase |-> p.phase, plan |-> p.plan, root |-> p.root, sent |-> p.sent,
         cache |-> p.cache, url |-> p.url]

Shapes ==
    /\ registry = [name \in PromptNames |-> registry[name]]
    /\ \A name \in PromptNames : IsSequence(registry[name])
    /\ publication = [a \in Attempts |-> publication[a]]
    /\ \A a \in Attempts : IsAttempt(publication[a])

\* In the registry reg, version v of the prompt called name has this text.
IsVersion(reg, name, v, text) ==
    name \in PromptNames /\ v \in 1..Len(reg[name]) /\ reg[name][v] = text

CacheIsTrue ==
    \A a \in Attempts : \A c \in publication[a].cache :
        c.version # 0 => IsVersion(registry, c.name, c.version, c.text)

CreatingKnows ==
    \A a \in Attempts :
        publication[a].phase = "creating" => NextObservation(a).prompt \in PromptNames

LinkInv == Shapes /\ CacheIsTrue /\ CreatingKnows

\* The invariant is what the property says of every observation, handed over or not.
LEMMA LinkInvImplies == LinkInv => LinkedPromptIsOwn
<1> SUFFICES ASSUME LinkInv, NEW a \in Attempts, NEW k \in 1..publication[a].sent,
                    VersionIn(publication[a], publication[a].plan[k]) # 0
             PROVE  LET o == publication[a].plan[k]
                        v == VersionIn(publication[a], o)
                    IN  v \in DOMAIN registry[o.prompt] /\ registry[o.prompt][v] = o.text
  BY DEF LinkedPromptIsOwn
<1> DEFINE p == publication[a]
           o == p.plan[k]
           c == CHOOSE d \in p.cache : d.name = o.prompt /\ d.text = o.text
<1>1. Cached(p, o)
  BY DEF VersionIn
<1>2. c \in p.cache /\ c.name = o.prompt /\ c.text = o.text
  BY <1>1 DEF Cached
<1>3. VersionIn(p, o) = c.version
  BY <1>1 DEF VersionIn
<1>4. IsVersion(registry, o.prompt, c.version, o.text)
  BY <1>2, <1>3 DEF LinkInv, CacheIsTrue
<1>5. DOMAIN registry[o.prompt] = 1..Len(registry[o.prompt])
  BY <1>4, AppendKeeps DEF LinkInv, Shapes, IsVersion
<1>. QED
  BY <1>3, <1>4, <1>5 DEF IsVersion

LEMMA InitLinkInv == PublicationInit => LinkInv
<1> SUFFICES ASSUME PublicationInit
             PROVE  LinkInv
  OBVIOUS
<1>1. IsSequence(<<>>)
  BY DEF IsSequence
<1>2. Shapes
  BY <1>1 DEF PublicationInit, Shapes, IsAttempt, IdleAttempt, Attempt
<1>3. CacheIsTrue /\ CreatingKnows
  BY DEF PublicationInit, CacheIsTrue, CreatingKnows, IdleAttempt, Attempt
<1>. QED
  BY <1>2, <1>3 DEF LinkInv

\* What a version says it goes on saying when another version is added, and the text
\* added is the last version's.
LEMMA RegistryGrows ==
    ASSUME Shapes, NEW name \in PromptNames, NEW text,
           registry' = [registry EXCEPT ![name] = Append(@, text)]
    PROVE  /\ registry' = [n \in PromptNames |-> registry'[n]]
           /\ \A n \in PromptNames : IsSequence(registry'[n])
           /\ \A n, v, t : IsVersion(registry, n, v, t) => IsVersion(registry', n, v, t)
           /\ IsVersion(registry', name, Len(registry[name]) + 1, text)
           /\ Len(registry[name]) + 1 # 0
<1>1. IsSequence(registry[name])
  BY DEF Shapes
<1>2. /\ registry'[name] = Append(registry[name], text)
      /\ \A n \in PromptNames \ {name} : registry'[n] = registry[n]
      /\ registry' = [n \in PromptNames |-> registry'[n]]
  BY DEF Shapes
<1>3. /\ IsSequence(registry'[name])
      /\ Len(registry[name]) \in Nat /\ Len(registry'[name]) = Len(registry[name]) + 1
      /\ \A i \in 1..Len(registry[name]) : registry'[name][i] = registry[name][i]
      /\ registry'[name][Len(registry[name]) + 1] = text
  BY <1>1, <1>2, AppendKeeps
<1>4. \A n \in PromptNames : IsSequence(registry'[n])
  BY <1>2, <1>3 DEF Shapes
<1>5. ASSUME NEW n, NEW v, NEW t, IsVersion(registry, n, v, t)
      PROVE  IsVersion(registry', n, v, t)
  <2>1. CASE n = name
    BY <1>3, <1>5, <2>1 DEF IsVersion
  <2>2. CASE n # name
    BY <1>2, <1>5, <2>2 DEF IsVersion
  <2>. QED
    BY <2>1, <2>2
<1>6. IsVersion(registry', name, Len(registry[name]) + 1, text)
  BY <1>3 DEF IsVersion
<1>7. Len(registry[name]) + 1 # 0
  BY <1>3
<1>. QED
  BY <1>2, <1>4, <1>5, <1>6, <1>7, Zenon

\* An attempt that puts a prompt into its cache, with version 0 or a version that has its
\* text, keeps the invariant.
LEMMA ResolvedKeeps ==
    ASSUME LinkInv, NEW a \in Attempts, NEW version,
           publication' = Resolved(a, version),
           registry' = [name \in PromptNames |-> registry'[name]],
           \A name \in PromptNames : IsSequence(registry'[name]),
           \A n, v, t : IsVersion(registry, n, v, t) => IsVersion(registry', n, v, t),
           version # 0 =>
               IsVersion(registry', NextObservation(a).prompt, version, NextObservation(a).text)
    PROVE  LinkInv'
<1> DEFINE o == NextObservation(a)
           new == [name |-> o.prompt, text |-> o.text, version |-> version]
<1>1. /\ publication' = [b \in Attempts |-> publication'[b]]
      /\ \A b \in Attempts \ {a} : publication'[b] = publication[b]
      /\ publication'[a] = [publication[a] EXCEPT !.phase = "replaying",
                                                  !.cache = @ \cup {new}]
  BY DEF LinkInv, Shapes, Resolved
<1>2. /\ IsAttempt(publication'[a])
      /\ publication'[a].cache = publication[a].cache \cup {new}
      /\ publication'[a].phase = "replaying"
  BY <1>1 DEF LinkInv, Shapes, IsAttempt
<1>3. Shapes'
  BY <1>1, <1>2 DEF LinkInv, Shapes
<1>4. CacheIsTrue'
  <2> SUFFICES ASSUME NEW b \in Attempts, NEW c \in publication'[b].cache, c.version # 0
               PROVE  IsVersion(registry', c.name, c.version, c.text)
    BY DEF CacheIsTrue
  <2>1. CASE c \in publication[b].cache
    BY <2>1 DEF LinkInv, CacheIsTrue
  <2>2. CASE c \notin publication[b].cache
    <3>1. c = new
      BY <1>1, <1>2, <2>2
    <3>2. c.name = o.prompt /\ c.text = o.text /\ c.version = version
      BY <3>1
    <3>. QED
      BY <3>2
  <2>. QED
    BY <2>1, <2>2
<1>5. CreatingKnows'
  <2> SUFFICES ASSUME NEW b \in Attempts, publication'[b].phase = "creating"
               PROVE  NextObservation(b)'.prompt \in PromptNames
    BY DEF CreatingKnows
  <2>1. publication'[b] = publication[b]
    BY <1>1, <1>2
  <2>. QED
    BY <2>1 DEF LinkInv, CreatingKnows, NextObservation
<1>. QED
  BY <1>3, <1>4, <1>5 DEF LinkInv

\* An attempt that leaves its cache alone, while the registry keeps what it has, keeps the
\* invariant, if it starts creating only a prompt it needs.
LEMMA AttemptMoves ==
    ASSUME LinkInv, NEW a \in Attempts, NEW p, IsAttempt(p),
           registry' = [n \in PromptNames |-> registry'[n]],
           \A n \in PromptNames : IsSequence(registry'[n]),
           \A n, v, t : IsVersion(registry, n, v, t) => IsVersion(registry', n, v, t),
           publication' = [publication EXCEPT ![a] = p],
           p.cache \in {{}, publication[a].cache},
           p.phase = "creating" => p.plan[p.sent + 1].prompt \in PromptNames
    PROVE  LinkInv'
<1>1. /\ publication' = [b \in Attempts |-> publication'[b]]
      /\ \A b \in Attempts \ {a} : publication'[b] = publication[b]
      /\ publication'[a] = p
  BY DEF LinkInv, Shapes
<1>2. Shapes'
  BY <1>1 DEF LinkInv, Shapes
<1>3. CacheIsTrue'
  BY <1>1 DEF LinkInv, CacheIsTrue
<1>4. CreatingKnows'
  BY <1>1 DEF LinkInv, CreatingKnows, NextObservation
<1>. QED
  BY <1>2, <1>3, <1>4 DEF LinkInv

\* It does so if the registry is left alone.
LEMMA AttemptMovesAlone ==
    ASSUME LinkInv, UNCHANGED registry, NEW a \in Attempts, NEW p, IsAttempt(p),
           publication' = [publication EXCEPT ![a] = p],
           p.cache \in {{}, publication[a].cache},
           p.phase = "creating" => p.plan[p.sent + 1].prompt \in PromptNames
    PROVE  LinkInv'
<1>1. /\ registry' = [n \in PromptNames |-> registry'[n]]
      /\ \A n \in PromptNames : IsSequence(registry'[n])
      /\ \A n, v, t : IsVersion(registry, n, v, t) => IsVersion(registry', n, v, t)
  BY DEF LinkInv, Shapes, IsVersion
<1>. QED
  BY <1>1, AttemptMoves

\* So does an attempt that begins anew, or is over at once.
LEMMA AttemptBegins ==
    ASSUME LinkInv, UNCHANGED registry, NEW a \in Attempts, NEW plan, NEW url \in BOOLEAN,
           NEW phase \in {"replaying", "done"},
           publication' = [publication EXCEPT ![a] = Attempt(phase, plan, url)]
    PROVE  LinkInv'
<1> DEFINE p == Attempt(phase, plan, url)
<1>1. IsAttempt(p) /\ p.cache = {} /\ p.phase # "creating"
  BY DEF IsAttempt, Attempt
<1>2. publication' = [publication EXCEPT ![a] = p] /\ UNCHANGED registry
  OBVIOUS
<1> HIDE DEF p
<1>. QED
  BY <1>1, <1>2, AttemptMovesAlone

LEMMA NextLinkInv == LinkInv /\ [PublicationNext]_publicationVars => LinkInv'
<1> SUFFICES ASSUME LinkInv, [PublicationNext]_publicationVars
             PROVE  LinkInv'
  OBVIOUS
<1>1. CASE UNCHANGED publicationVars
  BY <1>1 DEF publicationVars, LinkInv, Shapes, CacheIsTrue, CreatingKnows, IsVersion,
              NextObservation
<1>2. ASSUME NEW a \in Attempts, NEW url \in BOOLEAN, Begin(a, url)
      PROVE  LinkInv'
  <2> DEFINE plan == Replay(steps)
  <2>1. publication' = [publication EXCEPT ![a] = Attempt("replaying", plan, url)]
    BY <1>2 DEF Begin
  <2>2. UNCHANGED registry
    BY <1>2 DEF Begin
  <2> HIDE DEF plan
  <2>. QED
    BY <2>1, <2>2, AttemptBegins
<1>3. ASSUME NEW a \in Attempts, PublishWithoutClient(a)
      PROVE  LinkInv'
  BY <1>3, AttemptBegins DEF PublishWithoutClient
<1>4. ASSUME NEW a \in Attempts, HandOver(a)
      PROVE  LinkInv'
  <2>1. PICK n : publication' = [publication EXCEPT ![a].sent = n] /\ UNCHANGED registry
    BY <1>4 DEF HandOver
  <2> DEFINE p == [publication[a] EXCEPT !.sent = n]
  <2>2. IsAttempt(p) /\ p.cache = publication[a].cache /\ p.phase = "replaying"
    BY <1>4 DEF HandOver, Replaying, LinkInv, Shapes, IsAttempt
  <2>3. publication' = [publication EXCEPT ![a] = p]
    BY <2>1 DEF LinkInv, Shapes
  <2> HIDE DEF p
  <2>. QED
    BY <2>1, <2>2, <2>3, AttemptMovesAlone
<1>5. ASSUME NEW a \in Attempts, NEW answers \in BOOLEAN, GetPrompt(a, answers)
      PROVE  LinkInv'
  <2> DEFINE o == NextObservation(a)
             versions == registry[o.prompt]
  <2>1. o.prompt \in PromptNames /\ UNCHANGED registry
    BY <1>5 DEF GetPrompt, NeedsPrompt, Waiting, NextObservation
  <2>2. CASE answers /\ PromptMatches(versions, o.text)
    <3>1. publication' = Resolved(a, Len(versions))
      BY <1>5, <2>2 DEF GetPrompt
    <3>2. Len(versions) \in Nat /\ DOMAIN versions = 1..Len(versions) /\ IsSequence(versions)
      BY <2>1, AppendKeeps DEF LinkInv, Shapes
    <3>3. Len(versions) # 0
      BY <2>2, <3>2, EmptySeq DEF PromptMatches, IsSequence
    <3>4. IsVersion(registry, o.prompt, Len(versions), o.text)
      BY <2>1, <2>2, <3>2, <3>3 DEF IsVersion, PromptMatches, Last
    <3>5. \A n, v, t : IsVersion(registry, n, v, t) => IsVersion(registry', n, v, t)
      BY <2>1 DEF IsVersion
    <3>6. IsVersion(registry', o.prompt, Len(versions), o.text)
      BY <2>1, <3>4, <3>1 DEF IsVersion
    <3>. QED
      BY <2>1, <3>1, <3>5, <3>6, ResolvedKeeps DEF LinkInv, Shapes
  <2>3. CASE ~(answers /\ PromptMatches(versions, o.text))
    <3> DEFINE p == [publication[a] EXCEPT !.phase = "creating"]
    <3>1. publication' = [publication EXCEPT ![a] = p]
      BY <1>5, <2>3 DEF GetPrompt, LinkInv, Shapes
    <3>2. /\ IsAttempt(p) /\ p.cache = publication[a].cache
          /\ p.plan[p.sent + 1].prompt \in PromptNames
      BY <2>1 DEF LinkInv, Shapes, IsAttempt, NextObservation
    <3> HIDE DEF p
    <3>. QED
      BY <2>1, <3>1, <3>2, AttemptMovesAlone
  <2>. QED
    BY <2>2, <2>3
<1>6. ASSUME NEW a \in Attempts, CreatePrompt(a)
      PROVE  LinkInv'
  <2> DEFINE o == NextObservation(a)
  <2>1. o.prompt \in PromptNames
    BY <1>6 DEF CreatePrompt, LinkInv, CreatingKnows
  <2>2. /\ registry' = [registry EXCEPT ![o.prompt] = Append(@, o.text)]
        /\ publication' = Resolved(a, Len(registry[o.prompt]) + 1)
    BY <1>6 DEF CreatePrompt
  <2>. QED
    BY <2>1, <2>2, RegistryGrows, ResolvedKeeps DEF LinkInv
<1>7. ASSUME NEW a \in Attempts, CreateRaises(a)
      PROVE  LinkInv'
  <2> DEFINE o == NextObservation(a)
  <2>1. o.prompt \in PromptNames
    BY <1>7 DEF CreateRaises, LinkInv, CreatingKnows
  <2>2. publication' = Resolved(a, 0)
    BY <1>7 DEF CreateRaises
  <2>3. CASE UNCHANGED registry
    BY <2>2, <2>3, ResolvedKeeps DEF LinkInv, Shapes, IsVersion
  <2>4. CASE registry' = [registry EXCEPT ![o.prompt] = Append(@, o.text)]
    BY <2>1, <2>2, <2>4, RegistryGrows, ResolvedKeeps DEF LinkInv
  <2>. QED
    BY <1>7, <2>3, <2>4 DEF CreateRaises, CreateMayCount
<1>8. ASSUME NEW a \in Attempts, CreateEscapes(a)
      PROVE  LinkInv'
  <2> DEFINE o == NextObservation(a)
             p == [publication[a] EXCEPT !.phase = "raised"]
  <2>1. o.prompt \in PromptNames
    BY <1>8 DEF CreateEscapes, LinkInv, CreatingKnows
  <2>2. publication' = [publication EXCEPT ![a] = p]
    BY <1>8 DEF CreateEscapes, LinkInv, Shapes
  <2>3. IsAttempt(p) /\ p.cache = publication[a].cache /\ p.phase = "raised"
    BY DEF LinkInv, Shapes, IsAttempt
  <2>4. /\ registry' = [n \in PromptNames |-> registry'[n]]
        /\ \A n \in PromptNames : IsSequence(registry'[n])
        /\ \A n, v, t : IsVersion(registry, n, v, t) => IsVersion(registry', n, v, t)
    <3>1. CASE UNCHANGED registry
      BY <3>1 DEF LinkInv, Shapes, IsVersion
    <3>2. CASE registry' = [registry EXCEPT ![o.prompt] = Append(@, o.text)]
      BY <2>1, <3>2, RegistryGrows DEF LinkInv
    <3>. QED
      BY <1>8, <3>1, <3>2 DEF CreateEscapes, CreateMayCount
  <2> HIDE DEF p, o
  <2>. QED
    BY <2>2, <2>3, <2>4, AttemptMoves
<1>9. ASSUME NEW a \in Attempts, ReplayRaises(a) \/ SaveTrace(a)
      PROVE  LinkInv'
  <2>1. PICK phase \in {"raised", "done"} :
           publication' = [publication EXCEPT ![a].phase = phase] /\ UNCHANGED registry
    BY <1>9 DEF ReplayRaises, SaveTrace
  <2> DEFINE p == [publication[a] EXCEPT !.phase = phase]
  <2>2. IsAttempt(p) /\ p.cache = publication[a].cache /\ p.phase = phase
    BY DEF LinkInv, Shapes, IsAttempt
  <2>3. publication' = [publication EXCEPT ![a] = p]
    BY <2>1 DEF LinkInv, Shapes
  <2> HIDE DEF p
  <2>. QED
    BY <2>1, <2>2, <2>3, AttemptMovesAlone
<1>10. ASSUME NEW name \in PromptNames, OtherRunCreates(name)
       PROVE  LinkInv'
  <2>1. /\ registry' = [registry EXCEPT ![name] = Append(@, ForeignText)]
        /\ UNCHANGED publication
    BY <1>10 DEF OtherRunCreates
  <2>2. /\ registry' = [n \in PromptNames |-> registry'[n]]
        /\ \A n \in PromptNames : IsSequence(registry'[n])
        /\ \A n, v, t : IsVersion(registry, n, v, t) => IsVersion(registry', n, v, t)
    BY <2>1, RegistryGrows DEF LinkInv
  <2>. QED
    BY <2>1, <2>2 DEF LinkInv, Shapes, CacheIsTrue, CreatingKnows, NextObservation
<1>. QED
  BY <1>1, <1>2, <1>3, <1>4, <1>5, <1>6, <1>7, <1>8, <1>9, <1>10 DEF PublicationNext

\* Every observation that is linked to a version of a prompt is linked to one that has the
\* text its agent was given: for any ledger, any number of attempts one after another or
\* at once, and whatever the publications of other runs create in between.
THEOREM LinkedAlwaysOwn == PublicationSpec => []LinkedPromptIsOwn
<1>. QED
  BY InitLinkInv, NextLinkInv, LinkInvImplies, PTL DEF PublicationSpec

-----------------------------------------------------------------------------
(* What the steps of the composition are to the publication. *)

Terminal == {"completed", "failed"}
Ended == {"publish", "closed"}

\* A step of the composition is one of the publication's, or leaves it alone.
LEMMA PublicationMoves == [Next]_vars => [PublicationNext]_publicationVars
<1> SUFFICES ASSUME [Next]_vars
             PROVE  [PublicationNext]_publicationVars
  OBVIOUS
<1>1. ASSUME NEW a \in Attempts,
             \/ BeginAttempt(a) \/ AttemptTimesOut(a)
             \/ HandOver(a) \/ GetPrompt(a, TRUE) \/ CreatePrompt(a) \/ SaveTrace(a)
             \/ GetPrompt(a, FALSE) \/ CreateRaises(a) \/ CreateEscapes(a) \/ ReplayRaises(a)
      PROVE  PublicationNext
  <2>1. CASE BeginAttempt(a) \/ AttemptTimesOut(a)
    BY <2>1 DEF BeginAttempt, AttemptTimesOut, PublicationNext
  <2>2. CASE GetPrompt(a, TRUE) \/ GetPrompt(a, FALSE)
    BY <2>2 DEF PublicationNext
  <2>3. CASE \/ HandOver(a) \/ CreatePrompt(a) \/ SaveTrace(a)
             \/ CreateRaises(a) \/ CreateEscapes(a) \/ ReplayRaises(a)
    BY <2>3 DEF PublicationNext
  <2>. QED
    BY <1>1, <2>1, <2>2, <2>3
<1>2. CASE PublicationStep
  BY <1>1, <1>2 DEF PublicationStep
<1>3. CASE OtherRuns
  BY <1>3 DEF OtherRuns, PublicationNext
<1>4. CASE UNCHANGED publicationVars
  BY <1>4
<1>. QED
  BY <1>2, <1>3, <1>4 DEF Next, Over, vars

\* Every observation that is linked to a version of a prompt is linked to one that has the
\* text its agent was given, whatever the run's faults and its overlapping attempts.
THEOREM LinkedOwnInTheStack == Spec => []LinkedPromptIsOwn
<1>1. Init => LinkInv
  BY InitLinkInv DEF Init
<1>2. LinkInv /\ [Next]_vars => LinkInv'
  BY PublicationMoves, NextLinkInv
<1>. QED
  BY <1>1, <1>2, LinkInvImplies, PTL DEF Spec

-----------------------------------------------------------------------------
(* The ledger only grows. *)

\* A sequence that another one is appended to keeps its elements where they are.
LEMMA ConcatKeeps ==
    ASSUME NEW s, NEW t, IsSequence(s), IsSequence(t)
    PROVE  /\ IsSequence(s \o t)
           /\ Len(s) <= Len(s \o t)
           /\ \A i \in 1..Len(s) : (s \o t)[i] = s[i]
<1> DEFINE S == {s[i] : i \in DOMAIN s}
           T == {t[i] : i \in DOMAIN t}
           U == S \cup T
           r == s \o t
<1>1. s \in Seq(U) /\ t \in Seq(U)
  <2>1. s \in Seq(S) /\ t \in Seq(T)
    BY DEF IsSequence
  <2> HIDE DEF S, T
  <2>. QED
    BY <2>1, SeqDef
<1>2. /\ r \in Seq(U) /\ Len(r) = Len(s) + Len(t)
      /\ \A i \in 1..(Len(s) + Len(t)) : r[i] = IF i <= Len(s) THEN s[i] ELSE t[i - Len(s)]
      /\ Len(s) \in Nat /\ Len(t) \in Nat /\ DOMAIN s = 1..Len(s) /\ DOMAIN r = 1..Len(r)
  <2> HIDE DEF U
  <2>. QED
    BY <1>1, ConcatProperties, LenProperties
<1>3. IsSequence(r)
  <2> DEFINE V == {r[i] : i \in DOMAIN r}
  <2>1. Len(r) \in Nat /\ r = [i \in 1..Len(r) |-> r[i]]
    <3> HIDE DEF U, r
    <3>. QED
      BY <1>2, LenProperties
  <2>2. r \in [1..Len(r) -> V]
    <3> HIDE DEF U, r
    <3>. QED
      BY <1>2, <2>1
  <2>3. r \in Seq(V)
    <3> HIDE DEF r, V
    <3>. QED
      BY <2>1, <2>2, SeqDef
  <2>. QED
    BY <2>3 DEF IsSequence
<1>. QED
  <2> HIDE DEF U, r
  <2>. QED
    BY <1>2, <1>3 DEF r

\* A step of this type is in the ledger q.
Recorded(q, type) == \E i \in DOMAIN q : q[i].type = type

\* r is q with zero or more steps appended.
Keeps(q, r) ==
    /\ IsSequence(r)
    /\ Len(q) <= Len(r)
    /\ \A i \in 1..Len(q) : r[i] = q[i]

LEMMA KeepsIsOrder ==
    /\ \A q : IsSequence(q) => Keeps(q, q)
    /\ \A q, r, s : IsSequence(q) /\ Keeps(q, r) /\ Keeps(r, s) => Keeps(q, s)
<1>1. \A q : IsSequence(q) => Len(q) \in Nat
  BY AppendKeeps
<1>. QED
  BY <1>1 DEF Keeps

\* What is recorded stays so.
LEMMA KeepsRecorded ==
    ASSUME NEW q, NEW r, IsSequence(q), Keeps(q, r), NEW type, Recorded(q, type)
    PROVE  Recorded(r, type)
<1>1. PICK i \in DOMAIN q : q[i].type = type
  BY DEF Recorded
<1>2. /\ Len(q) \in Nat /\ DOMAIN q = 1..Len(q)
      /\ Len(r) \in Nat /\ DOMAIN r = 1..Len(r)
  BY AppendKeeps DEF Keeps
<1>. QED
  BY <1>1, <1>2 DEF Keeps, Recorded

LEMMA AppendRecords ==
    ASSUME NEW q, NEW step, IsSequence(q)
    PROVE  Keeps(q, Append(q, step)) /\ Recorded(Append(q, step), step.type)
<1> DEFINE r == Append(q, step)
<1>1. /\ IsSequence(r) /\ Len(q) \in Nat /\ Len(r) = Len(q) + 1
      /\ DOMAIN q = 1..Len(q) /\ DOMAIN r = 1..(Len(q) + 1)
      /\ \A i \in 1..Len(q) : r[i] = q[i]
      /\ r[Len(q) + 1] = step
  BY AppendKeeps
<1> HIDE DEF r
<1>2. Recorded(r, step.type)
  BY <1>1 DEF Recorded
<1>. QED
  BY <1>1, <1>2 DEF Keeps, r

\* A patch that is applied once more is a sequence, of whatever steps.
LEMMA LastPatchIsSequence == IsSequence(steps) => IsSequence(LastPatch)
<1> SUFFICES ASSUME IsSequence(steps)
             PROVE  IsSequence(LastPatch)
  OBVIOUS
<1>1. IsSequence(<<>>)
  BY DEF IsSequence
<1>2. IsSequence(<<Last(steps)>>)
  <2> DEFINE x == Last(steps)
             r == Append(<<>>, x)
  <2>1. IsSequence(r)
    BY <1>1, AppendKeeps
  <2>2. r = <<x>>
    <3> HIDE DEF x
    <3>. QED
      OBVIOUS
  <2>. QED
    BY <2>1, <2>2
<1>3. IsSequence(SubSeq(steps, Len(steps) - 1, Len(steps)))
  BY DEF IsSequence
<1>. QED
  BY <1>1, <1>2, <1>3 DEF LastPatch

LEMMA LedgerGrows ==
    ASSUME IsSequence(steps), [Next]_vars
    PROVE  Keeps(steps, steps')
<1>1. ASSUME UNCHANGED steps
      PROVE  Keeps(steps, steps')
  BY <1>1, KeepsIsOrder
<1>2. ASSUME NEW step, steps' = Append(steps, step)
      PROVE  Keeps(steps, steps')
  BY <1>2, AppendRecords
<1>3. CASE Loop!AnalyseWith(Scores)
  <2>1. PICK one, two : steps' = Append(Append(steps, one), two)
    BY <1>3, Zenon DEF Loop!AnalyseWith
  <2>2. Keeps(steps, Append(steps, one))
    BY AppendRecords
  <2>3. Keeps(Append(steps, one), steps')
    BY <2>1, <2>2, AppendRecords DEF Keeps
  <2>. QED
    BY <2>2, <2>3, KeepsIsOrder
<1>4. CASE PatchRepeated
  <2>1. steps' = steps \o LastPatch /\ IsSequence(LastPatch)
    BY <1>4, LastPatchIsSequence DEF PatchRepeated
  <2>. QED
    BY <2>1, ConcatKeeps DEF Keeps
<1>5. CASE \/ ExtractStrategy \/ SearchReturns \/ Loop!Dedupe \/ Loop!StopByRule \/ Reflect
           \/ Loop!RecordStop \/ Loop!Finalize
  <2>1. PICK step : steps' = Append(steps, step)
    BY <1>5, Zenon
       DEF ExtractStrategy, Loop!ExtractStrategy, SearchReturns, Loop!SearchReturns,
           Loop!Dedupe, Loop!StopByRule, Reflect, Loop!ReflectWith, Loop!RecordStop,
           Loop!Finalize
  <2>. QED
    BY <2>1, <1>2
<1>6. CASE \/ Loop!MarkRunning \/ Loop!BeginRound \/ Loop!RecordFailure
           \/ ActivityRaises \/ Loop!PublishTrace
  <2>1. UNCHANGED steps
    BY <1>6
       DEF Loop!MarkRunning, Loop!BeginRound, Loop!RecordFailure, ActivityRaises,
           Loop!ActivityRaises, Loop!PublishTrace, Loop!record
  <2>. QED
    BY <2>1, <1>1
<1>7. CASE UNCHANGED loopVars
  BY <1>7, <1>1 DEF loopVars
<1>. QED
  BY <1>3, <1>4, <1>5, <1>6, <1>7, Zenon DEF Next, LoopStep, PublishTrace, Over, vars

-----------------------------------------------------------------------------
(* What the suite reads. *)

\* The status is terminal once the workflow has nothing left but to publish.
EndedInv == status \in Terminal <=> pc \in Ended

\* Who has left the extraction behind, and has not failed, has recorded the strategy.
LedgerInv ==
    /\ IsSequence(steps)
    /\ pc \notin {"start", "extract", "failing"} \cup Ended => Recorded(steps, "strategy")
    /\ status = "completed" => Recorded(steps, "strategy") /\ Recorded(steps, "finalize")

SuiteInv ==
    /\ suite # {} => status \in Terminal
    /\ SuiteReadsOutcome

OutcomeInv == EndedInv /\ LedgerInv /\ SuiteInv

LEMMA InitOutcome == Init => OutcomeInv
<1> SUFFICES ASSUME Init
             PROVE  OutcomeInv
  OBVIOUS
<1>1. status = "queued" /\ pc = "start" /\ steps = <<>> /\ suite = {}
  BY DEF Init, Loop!Init
<1>2. IsSequence(steps)
  BY <1>1 DEF IsSequence
<1>. QED
  BY <1>1, <1>2 DEF OutcomeInv, EndedInv, LedgerInv, SuiteInv, SuiteReadsOutcome, Terminal, Ended

\* Once the run has ended, a step leaves the status, the shortlist and the rest of the
\* row's facts alone.
LEMMA EndedStays ==
    ASSUME [Next]_vars, pc \in Ended
    PROVE  pc' \in Ended /\ UNCHANGED <<status, currentRound, finalShortlist, errorCode>>
<1>1. CASE Loop!PublishTrace
  BY <1>1 DEF Loop!PublishTrace, Ended
<1>2. CASE PatchRepeated
  BY <1>2 DEF PatchRepeated, Ended
<1>3. CASE UNCHANGED loopVars
  BY <1>3 DEF loopVars
<1>4. ~LoopStep /\ ~ActivityRaises
  BY DEF LoopStep, ActivityRaises, Ended, Loop!TryBody,
         Loop!MarkRunning, ExtractStrategy, Loop!ExtractStrategy, Loop!BeginRound,
         SearchReturns, Loop!Dedupe, Loop!AnalyseWith, Loop!StopByRule, Reflect,
         Loop!ReflectWith, Loop!RecordStop, Loop!Finalize, Loop!RecordFailure,
         Loop!ActivityRaises
<1>. QED
  BY <1>1, <1>2, <1>3, <1>4 DEF Next, PublishTrace, Over, vars

\* Before that, only the patch that ends the ledger and the one that reports a failure
\* make the status terminal, and the workflow has then nothing left but to publish.
LEMMA EndedAtOnce ==
    ASSUME [Next]_vars, pc \notin Ended, status \notin Terminal
    PROVE  \/ pc' \in Ended /\ status' = "completed" /\ pc = "finalize" /\ Loop!Finalize
           \/ pc' \in Ended /\ status' = "failed"
           \/ pc' \notin Ended /\ status' \notin Terminal
<1>1. CASE Loop!Finalize
  BY <1>1 DEF Loop!Finalize, Ended
<1>2. CASE Loop!RecordFailure
  BY <1>2 DEF Loop!RecordFailure, Ended
<1>3. CASE \/ Loop!MarkRunning \/ ExtractStrategy \/ Loop!BeginRound \/ SearchReturns
           \/ Loop!Dedupe \/ Loop!AnalyseWith(Scores) \/ Loop!StopByRule \/ Reflect
           \/ Loop!RecordStop \/ ActivityRaises
  BY <1>3
     DEF Loop!MarkRunning, ExtractStrategy, Loop!ExtractStrategy, Loop!BeginRound,
         SearchReturns, Loop!SearchReturns, Loop!Dedupe, Loop!AnalyseWith, Loop!StopByRule,
         Reflect, Loop!ReflectWith, Loop!RecordStop, ActivityRaises, Loop!ActivityRaises,
         Loop!record, Ended, Terminal
<1>4. CASE PatchRepeated
  BY <1>4 DEF PatchRepeated
<1>5. CASE UNCHANGED loopVars
  BY <1>5 DEF loopVars
<1>6. ~Loop!PublishTrace
  BY DEF Loop!PublishTrace, Ended
<1>. QED
  BY <1>1, <1>2, <1>3, <1>4, <1>5, <1>6, Zenon DEF Next, LoopStep, PublishTrace, Over, vars

\* A step to where the strategy must have been recorded comes from there, or records it.
LEMMA StrategyFirst ==
    ASSUME [Next]_vars, IsSequence(steps),
           pc' \notin {"start", "extract", "failing"} \cup Ended
    PROVE  \/ pc \notin {"start", "extract", "failing"} \cup Ended
           \/ Recorded(steps', "strategy")
<1>1. CASE ExtractStrategy
  <2> DEFINE step == Loop!NextStep("strategy")
  <2>1. steps' = Append(steps, step)
    BY <1>1 DEF ExtractStrategy, Loop!ExtractStrategy
  <2>2. step.type = "strategy"
    BY DEF Loop!NextStep, Loop!BlankStep
  <2> HIDE DEF step
  <2>. QED
    BY <2>1, <2>2, AppendRecords
<1>2. CASE \/ Loop!MarkRunning \/ Loop!BeginRound \/ SearchReturns \/ Loop!Dedupe
           \/ Loop!AnalyseWith(Scores) \/ Loop!StopByRule \/ Reflect \/ Loop!RecordStop
           \/ Loop!Finalize \/ Loop!RecordFailure \/ ActivityRaises \/ Loop!PublishTrace
  BY <1>2
     DEF Loop!MarkRunning, Loop!BeginRound, SearchReturns, Loop!Dedupe, Loop!AnalyseWith,
         Loop!StopByRule, Reflect, Loop!ReflectWith, Loop!RecordStop, Loop!Finalize,
         Loop!RecordFailure, ActivityRaises, Loop!ActivityRaises, Loop!PublishTrace,
         Loop!TryBody, Ended
<1>3. CASE PatchRepeated \/ UNCHANGED loopVars
  BY <1>3 DEF PatchRepeated, loopVars
<1>. QED
  BY <1>1, <1>2, <1>3, Zenon DEF Next, LoopStep, PublishTrace, Over, vars

LEMMA NextLedger ==
    ASSUME EndedInv, LedgerInv, [Next]_vars
    PROVE  EndedInv' /\ LedgerInv'
<1>1. /\ IsSequence(steps')
      /\ \A type : Recorded(steps, type) => Recorded(steps', type)
  <2>1. IsSequence(steps) /\ Keeps(steps, steps')
    BY LedgerGrows DEF LedgerInv
  <2>. QED
    BY <2>1, KeepsRecorded DEF Keeps
<1>2. EndedInv'
  BY EndedStays, EndedAtOnce DEF EndedInv, Terminal
<1>3. pc' \notin {"start", "extract", "failing"} \cup Ended => Recorded(steps', "strategy")
  BY <1>1, StrategyFirst DEF LedgerInv
<1>4. ASSUME status' = "completed"
      PROVE  Recorded(steps', "strategy") /\ Recorded(steps', "finalize")
  <2>1. CASE pc \in Ended
    BY <1>1, <1>4, <2>1, EndedStays DEF LedgerInv
  <2>2. CASE pc \notin Ended
    <3>1. pc = "finalize" /\ Loop!Finalize
      BY <1>4, <2>2, EndedAtOnce DEF EndedInv, Terminal
    <3>2. Recorded(steps', "strategy")
      BY <1>1, <3>1 DEF LedgerInv, Ended
    <3> DEFINE step == Loop!NextStep("finalize")
    <3>3. steps' = Append(steps, step)
      BY <3>1 DEF Loop!Finalize
    <3>4. step.type = "finalize"
      BY DEF Loop!NextStep, Loop!BlankStep
    <3> HIDE DEF step
    <3>5. Recorded(steps', "finalize")
      BY <3>3, <3>4, AppendRecords DEF LedgerInv
    <3>. QED
      BY <3>2, <3>5
  <2>. QED
    BY <2>1, <2>2
<1>. QED
  BY <1>1, <1>2, <1>3, <1>4 DEF LedgerInv

LEMMA NextSuite ==
    ASSUME EndedInv, LedgerInv, SuiteInv, [Next]_vars
    PROVE  SuiteInv'
<1>1. CASE SuiteReads /\ UNCHANGED loopVars
  <2> DEFINE strategyRecorded == \E i \in DOMAIN steps : steps[i].type = "strategy"
             finalizeRecorded == \E i \in DOMAIN steps : steps[i].type = "finalize"
             read == [status |-> status, shortlistCount |-> Cardinality(finalShortlist),
                      strategyRecorded |-> strategyRecorded,
                      finalizeRecorded |-> finalizeRecorded, traceAvailable |-> trace.url]
  <2>1. suite' = {read} /\ status \in Terminal
    BY <1>1 DEF SuiteReads, Terminal
  <2>2. status' = status /\ finalShortlist' = finalShortlist
    BY <1>1 DEF loopVars
  <2>3. status = "completed" => strategyRecorded /\ finalizeRecorded
    BY DEF LedgerInv, Recorded
  <2> HIDE DEF strategyRecorded, finalizeRecorded
  <2>4. /\ read.status = status /\ read.shortlistCount = Cardinality(finalShortlist)
        /\ status = "completed" => read.strategyRecorded /\ read.finalizeRecorded
    BY <2>3
  <2> HIDE DEF read
  <2>. QED
    BY <2>1, <2>2, <2>4 DEF SuiteInv, SuiteReadsOutcome
<1>2. CASE UNCHANGED suite /\ suite # {}
  <2>1. pc \in Ended
    BY <1>2 DEF EndedInv, SuiteInv
  <2>2. UNCHANGED <<status, finalShortlist, suite>>
    BY <1>2, <2>1, EndedStays
  <2>. QED
    BY <2>2 DEF SuiteInv, SuiteReadsOutcome
<1>3. CASE UNCHANGED suite /\ suite = {}
  BY <1>3 DEF SuiteInv, SuiteReadsOutcome
<1>4. (SuiteReads /\ UNCHANGED loopVars) \/ UNCHANGED suite
  <2>1. LoopStep => UNCHANGED suite
    BY DEF LoopStep, aside
  <2>2. ActivityRaises => UNCHANGED suite
    BY DEF ActivityRaises
  <2>3. PatchRepeated => UNCHANGED suite
    BY DEF PatchRepeated
  <2>4. UNCHANGED vars => UNCHANGED suite
    BY DEF vars, aside
  <2>5. PublishTrace /\ UNCHANGED aside => UNCHANGED suite
    BY DEF aside
  <2>6. SuiteReads /\ UNCHANGED <<loopVars, publicationVars, offsets, scenario, faultsLeft>>
        => UNCHANGED loopVars
    OBVIOUS
  <2>. QED
    BY <2>1, <2>2, <2>3, <2>4, <2>5, <2>6 DEF Next, Over
<1>. QED
  BY <1>1, <1>2, <1>3, <1>4

\* Whenever the suite looks at the row of a run that is over, it sees the outcome the run
\* has in the end, and of a completed run the first and the last step.
THEOREM SuiteAlwaysReadsOutcome == Spec => []SuiteReadsOutcome
<1>1. OutcomeInv /\ [Next]_vars => OutcomeInv'
  BY NextLedger, NextSuite DEF OutcomeInv
<1>2. OutcomeInv => SuiteReadsOutcome
  BY DEF OutcomeInv, SuiteInv
<1>. QED
  BY InitOutcome, <1>1, <1>2, PTL DEF Spec

-----------------------------------------------------------------------------
(* The trace the row names. *)

\* An attempt reads the row of a run that is over; the row's trace is set by one that has
\* handed over everything; and an attempt done with Langfuse has set it.
RowInv ==
    /\ \A a \in Attempts :
          Started(a) => pc \in Ended /\ publication[a].root = RootFacts
    /\ trace.id => \E a \in Attempts : publication[a].phase = "done" /\ AllSent(a)
    /\ \A a \in Attempts : scenario.langfuse /\ publication[a].phase = "done" => trace.id
    /\ pc = "closed" /\ scenario.langfuse => trace.id

LEMMA RowInvImplies == RowInv => RowTraceIsComplete
<1> SUFFICES ASSUME RowInv
             PROVE  RowTraceIsComplete
  OBVIOUS
<1>1. ASSUME trace.id
      PROVE  \E a \in Attempts : /\ publication[a].phase = "done" /\ AllSent(a)
                                  /\ publication[a].root = RootFacts
  <2>1. PICK a \in Attempts : publication[a].phase = "done" /\ AllSent(a)
    BY <1>1 DEF RowInv
  <2>2. Started(a)
    BY <2>1 DEF Started
  <2>. QED
    BY <2>1, <2>2 DEF RowInv
<1>. QED
  BY <1>1 DEF RowInv, RowTraceIsComplete

LEMMA InitRow == Init => RowInv
BY DEF Init, Loop!Init, PublicationInit, IdleAttempt, Attempt, RowInv, Started

\* Whatever is done to attempt a leaves the others alone.
LEMMA OneAttemptMoves ==
    ASSUME Shapes, NEW a \in Attempts, NEW p, publication' = [publication EXCEPT ![a] = p]
    PROVE  publication'[a] = p /\ \A b \in Attempts \ {a} : publication'[b] = publication[b]
BY DEF Shapes

\* The steps of an attempt: it begins, with or without a client, it goes on, or it saves.
Begins(a) ==
    /\ pc = "publish" /\ UNCHANGED trace
    /\ publication[a].phase = "idle" /\ publication'[a].phase = "replaying"
    /\ publication'[a].root = RootFacts

IsOver(a) ==
    /\ pc = "publish" /\ ~scenario.langfuse /\ trace' = [id |-> FALSE, url |-> FALSE]
    /\ publication'[a].root = RootFacts

GoesOn(a) ==
    /\ publication[a].phase \in {"replaying", "creating"} /\ UNCHANGED trace
    /\ publication'[a].phase \in {"replaying", "creating", "raised"}
    /\ publication'[a].root = publication[a].root

Saves(a) ==
    /\ publication[a].phase = "replaying" /\ trace'.id = TRUE
    /\ publication[a].sent = Len(publication[a].plan)
    /\ publication'[a] = [publication[a] EXCEPT !.phase = "done"]

Kinds(a) ==
    /\ \A b \in Attempts \ {a} : publication'[b] = publication[b]
    /\ Begins(a) \/ IsOver(a) \/ GoesOn(a) \/ Saves(a)

LEMMA ResolvedGoesOn ==
    ASSUME Shapes, NEW a \in Attempts, NEW version, publication' = Resolved(a, version),
           publication[a].phase \in {"replaying", "creating"}, UNCHANGED trace
    PROVE  Kinds(a)
<1> DEFINE o == NextObservation(a)
           new == [name |-> o.prompt, text |-> o.text, version |-> version]
           p == [publication[a] EXCEPT !.phase = "replaying", !.cache = @ \cup {new}]
<1>1. publication' = [publication EXCEPT ![a] = p]
  BY DEF Resolved, Shapes
<1>2. p.phase = "replaying" /\ p.root = publication[a].root
  BY DEF Shapes, IsAttempt
<1> HIDE DEF p
<1>. QED
  BY <1>1, <1>2, OneAttemptMoves DEF Kinds, GoesOn

LEMMA AttemptKinds ==
    ASSUME Shapes, PublicationStep
    PROVE  \E a \in Attempts : Kinds(a)
<1>1. ASSUME NEW a \in Attempts, NEW url \in BOOLEAN, Begin(a, url), pc = "publish"
      PROVE  Kinds(a)
  <2> DEFINE plan == Replay(steps)
             p == Attempt("replaying", plan, url)
  <2>1. publication' = [publication EXCEPT ![a] = p]
    BY <1>1 DEF Begin
  <2>2. p.phase = "replaying" /\ p.root = RootFacts
    BY DEF Attempt
  <2>3. publication[a].phase = "idle" /\ UNCHANGED trace
    BY <1>1 DEF Begin
  <2> HIDE DEF p
  <2>. QED
    BY <1>1, <2>1, <2>2, <2>3, OneAttemptMoves DEF Kinds, Begins
<1>2. ASSUME NEW a \in Attempts, BeginAttempt(a)
      PROVE  Kinds(a)
  <2>1. CASE ~scenario.langfuse /\ Due(a) /\ PublishWithoutClient(a)
    <3> DEFINE p == Attempt("done", <<>>, FALSE)
    <3>1. publication' = [publication EXCEPT ![a] = p] /\ trace' = [id |-> FALSE, url |-> FALSE]
      BY <2>1 DEF PublishWithoutClient
    <3>2. p.root = RootFacts
      BY DEF Attempt
    <3>3. pc = "publish" /\ ~scenario.langfuse
      BY <2>1 DEF Due
    <3> HIDE DEF p
    <3>. QED
      BY <3>1, <3>2, <3>3, OneAttemptMoves DEF Kinds, IsOver
  <2>2. CASE Due(a) /\ (Begin(a, TRUE) \/ Begin(a, FALSE))
    BY <2>2, <1>1 DEF Due
  <2>. QED
    BY <1>2, <2>1, <2>2 DEF BeginAttempt
<1>3. ASSUME NEW a \in Attempts, AttemptTimesOut(a)
      PROVE  Kinds(a)
  BY <1>1, <1>3 DEF AttemptTimesOut
<1>4. ASSUME NEW a \in Attempts, HandOver(a)
      PROVE  Kinds(a)
  <2>1. PICK n : publication' = [publication EXCEPT ![a].sent = n] /\ UNCHANGED trace
    BY <1>4 DEF HandOver
  <2> DEFINE p == [publication[a] EXCEPT !.sent = n]
  <2>2. publication' = [publication EXCEPT ![a] = p]
    BY <2>1 DEF Shapes
  <2>3. publication[a].phase = "replaying" /\ p.phase = "replaying" /\ p.root = publication[a].root
    BY <1>4 DEF HandOver, Replaying, Shapes, IsAttempt
  <2> HIDE DEF p
  <2>. QED
    BY <2>1, <2>2, <2>3, OneAttemptMoves DEF Kinds, GoesOn
<1>5. ASSUME NEW a \in Attempts, NEW answers \in BOOLEAN, GetPrompt(a, answers)
      PROVE  Kinds(a)
  <2> DEFINE o == NextObservation(a)
             versions == registry[o.prompt]
             p == [publication[a] EXCEPT !.phase = "creating"]
  <2>1. publication[a].phase = "replaying" /\ UNCHANGED trace
    BY <1>5 DEF GetPrompt, NeedsPrompt, Replaying
  <2>2. CASE answers /\ PromptMatches(versions, o.text)
    <3>1. publication' = Resolved(a, Len(versions))
      BY <1>5, <2>2 DEF GetPrompt
    <3>. QED
      BY <2>1, <3>1, ResolvedGoesOn
  <2>3. CASE ~(answers /\ PromptMatches(versions, o.text))
    <3>1. publication' = [publication EXCEPT ![a] = p]
      BY <1>5, <2>3 DEF GetPrompt, Shapes
    <3>2. p.phase = "creating" /\ p.root = publication[a].root
      BY DEF Shapes, IsAttempt
    <3> HIDE DEF p
    <3>. QED
      BY <2>1, <3>1, <3>2, OneAttemptMoves DEF Kinds, GoesOn
  <2>. QED
    BY <2>2, <2>3
<1>6. ASSUME NEW a \in Attempts, CreatePrompt(a) \/ CreateRaises(a)
      PROVE  Kinds(a)
  <2>1. publication[a].phase = "creating" /\ UNCHANGED trace
    BY <1>6 DEF CreatePrompt, CreateRaises
  <2>2. PICK version : publication' = Resolved(a, version)
    BY <1>6 DEF CreatePrompt, CreateRaises
  <2>. QED
    BY <2>1, <2>2, ResolvedGoesOn
<1>7. ASSUME NEW a \in Attempts, CreateEscapes(a) \/ ReplayRaises(a)
      PROVE  Kinds(a)
  <2> DEFINE p == [publication[a] EXCEPT !.phase = "raised"]
  <2>1. publication' = [publication EXCEPT ![a] = p] /\ UNCHANGED trace
    BY <1>7 DEF CreateEscapes, ReplayRaises, Shapes
  <2>2. /\ publication[a].phase \in {"replaying", "creating"}
        /\ p.phase = "raised" /\ p.root = publication[a].root
    BY <1>7 DEF CreateEscapes, ReplayRaises, Replaying, Shapes, IsAttempt
  <2> HIDE DEF p
  <2>. QED
    BY <2>1, <2>2, OneAttemptMoves DEF Kinds, GoesOn
<1>8. ASSUME NEW a \in Attempts, SaveTrace(a)
      PROVE  Kinds(a)
  <2> DEFINE p == [publication[a] EXCEPT !.phase = "done"]
  <2>1. publication' = [publication EXCEPT ![a] = p] /\ trace'.id = TRUE
    BY <1>8 DEF SaveTrace, Shapes
  <2>2. publication[a].phase = "replaying" /\ publication[a].sent = Len(publication[a].plan)
    BY <1>8 DEF SaveTrace, Replaying, AllSent
  <2>. QED
    BY <2>1, <2>2, OneAttemptMoves DEF Kinds, Saves
<1>. QED
  BY <1>2, <1>3, <1>4, <1>5, <1>6, <1>7, <1>8 DEF PublicationStep

LEMMA AttemptKeepsRow ==
    ASSUME Shapes, RowInv, NEW a \in Attempts, Kinds(a),
           UNCHANGED <<pc, scenario, status, currentRound, finalShortlist, errorCode>>
    PROVE  RowInv'
<1>1. RootFacts' = RootFacts
  BY DEF RootFacts
<1>2. ASSUME NEW b \in Attempts, Started(b)'
      PROVE  pc \in Ended /\ publication'[b].root = RootFacts
  <2>1. CASE b = a
    <3>1. CASE Begins(a) \/ IsOver(a)
      BY <2>1, <3>1 DEF Begins, IsOver, Ended
    <3>2. CASE GoesOn(a)
      BY <2>1, <3>2 DEF GoesOn, RowInv, Started
    <3>3. CASE Saves(a)
      <4>1. publication'[a].root = publication[a].root /\ Started(a)
        BY <3>3 DEF Saves, Shapes, IsAttempt, Started
      <4>. QED
        BY <2>1, <4>1 DEF RowInv
    <3>. QED
      BY <3>1, <3>2, <3>3 DEF Kinds
  <2>2. CASE b # a
    BY <1>2, <2>2 DEF Kinds, RowInv, Started
  <2>. QED
    BY <2>1, <2>2
<1>3. ASSUME trace'.id
      PROVE  \E b \in Attempts : publication'[b].phase = "done" /\ AllSent(b)'
  <2>1. CASE Saves(a)
    <3>1. publication'[a].phase = "done" /\ publication'[a].sent = Len(publication'[a].plan)
      BY <2>1 DEF Saves, Shapes, IsAttempt
    <3>. QED
      BY <3>1 DEF AllSent
  <2>2. CASE Begins(a) \/ GoesOn(a)
    <3>1. PICK b \in Attempts : publication[b].phase = "done" /\ AllSent(b)
      BY <1>3, <2>2 DEF Begins, GoesOn, RowInv
    <3>2. publication'[b] = publication[b]
      BY <2>2, <3>1 DEF Begins, GoesOn, Kinds
    <3>. QED
      BY <3>1, <3>2 DEF AllSent
  <2>3. ~IsOver(a)
    BY <1>3 DEF IsOver
  <2>. QED
    BY <2>1, <2>2, <2>3 DEF Kinds
<1>4. ASSUME scenario.langfuse
      PROVE  /\ trace.id => trace'.id
             /\ \A b \in Attempts : publication'[b].phase = "done" => trace'.id
  BY <1>4 DEF Kinds, Begins, IsOver, GoesOn, Saves, RowInv
<1>. QED
  BY <1>1, <1>2, <1>3, <1>4 DEF RowInv

LEMMA NextRow ==
    ASSUME Shapes, RowInv, [Next]_vars
    PROVE  RowInv'
<1>1. CASE PublicationStep /\ UNCHANGED <<loopVars, offsets, scenario, suite>>
  <2>1. UNCHANGED <<pc, scenario, status, currentRound, finalShortlist, errorCode>>
    BY <1>1 DEF loopVars
  <2>. QED
    BY <1>1, <2>1, AttemptKinds, AttemptKeepsRow
<1>2. CASE UNCHANGED <<trace, publication>> /\ UNCHANGED scenario /\ pc \in Ended
  <2>1. pc' \in Ended /\ UNCHANGED <<status, currentRound, finalShortlist, errorCode>>
    BY <1>2, EndedStays
  <2>2. RootFacts' = RootFacts
    BY <2>1 DEF RootFacts
  <2>3. pc' = "closed" /\ scenario.langfuse => trace.id
    <3>1. CASE PublishTrace
      BY <3>1 DEF PublishTrace, RowInv
    <3>2. CASE UNCHANGED pc
      BY <3>2 DEF RowInv
    <3>3. LoopStep \/ ActivityRaises => FALSE
      BY <1>2
         DEF LoopStep, ActivityRaises, Ended, Loop!TryBody,
             Loop!MarkRunning, ExtractStrategy, Loop!ExtractStrategy, Loop!BeginRound,
             SearchReturns, Loop!Dedupe, Loop!AnalyseWith, Loop!StopByRule, Reflect,
             Loop!ReflectWith, Loop!RecordStop, Loop!Finalize, Loop!RecordFailure,
             Loop!ActivityRaises
    <3>4. PatchRepeated => UNCHANGED pc
      BY DEF PatchRepeated
    <3>. QED
      BY <3>1, <3>2, <3>3, <3>4 DEF Next, Over, vars, loopVars
  <2>. QED
    BY <1>2, <2>1, <2>2, <2>3 DEF RowInv, Started, AllSent
<1>3. CASE UNCHANGED <<trace, publication>> /\ UNCHANGED scenario /\ pc \notin Ended
  <2>1. pc' # "closed"
    <3>1. ~PublishTrace
      BY <1>3 DEF PublishTrace, Loop!PublishTrace, Ended
    <3>2. LoopStep \/ ActivityRaises => pc' # "closed"
      BY DEF LoopStep, ActivityRaises,
             Loop!MarkRunning, ExtractStrategy, Loop!ExtractStrategy, Loop!BeginRound,
             SearchReturns, Loop!SearchReturns, Loop!Dedupe, Loop!AnalyseWith,
             Loop!StopByRule, Reflect, Loop!ReflectWith, Loop!RecordStop, Loop!Finalize,
             Loop!RecordFailure, Loop!ActivityRaises
    <3>3. PatchRepeated \/ UNCHANGED loopVars => UNCHANGED pc
      BY DEF PatchRepeated, loopVars
    <3>. QED
      BY <1>3, <3>1, <3>2, <3>3 DEF Next, Over, vars, Ended
  <2>2. \A a \in Attempts : ~Started(a)
    BY <1>3 DEF RowInv
  <2>3. \A a \in Attempts : publication[a].phase = "idle"
    BY <2>2 DEF Started
  <2>. QED
    BY <1>3, <2>1, <2>3 DEF RowInv, Started
<1>4. \/ PublicationStep /\ UNCHANGED <<loopVars, offsets, scenario, suite>>
      \/ UNCHANGED <<trace, publication>> /\ UNCHANGED scenario
  <2>1. OtherRuns => UNCHANGED <<trace, publication>>
    BY DEF OtherRuns, OtherRunCreates
  <2>2. LoopStep \/ ActivityRaises \/ PatchRepeated => UNCHANGED scenario
    BY DEF LoopStep, ActivityRaises, PatchRepeated, aside
  <2>3. UNCHANGED publicationVars => UNCHANGED <<trace, publication>>
    BY DEF publicationVars
  <2>. QED
    BY <2>1, <2>2, <2>3 DEF Next, Over, vars, aside
<1>. QED
  BY <1>1, <1>2, <1>3, <1>4

\* A trace that the row names is whole and says what the row says, and under Langfuse the
\* workflow closes on such a trace only.
THEOREM RowTraceAlwaysComplete == Spec => []RowTraceIsComplete
<1>1. Init => LinkInv /\ RowInv
  BY InitLinkInv, InitRow DEF Init
<1>2. LinkInv /\ RowInv /\ [Next]_vars => LinkInv' /\ RowInv'
  BY PublicationMoves, NextLinkInv, NextRow DEF LinkInv
<1>. QED
  BY <1>1, <1>2, RowInvImplies, PTL DEF Spec

-----------------------------------------------------------------------------
(* The refinement. *)

\* Where the workflow is determines the status, the round counts up to its maximum, the
\* loop is left at the minimum round or later, and the shortlist is what was retained.
StageInv ==
    /\ pc = "start" => status = "queued"
    /\ pc \notin {"start"} \cup Ended => status = "running"
    /\ currentRound \in 0..MaxRounds
    /\ pc \in {"stop", "finalize"} => currentRound >= Loop!EffectiveMinRounds
    /\ finalShortlist = retained

LEMMA MinRoundsFit == Loop!EffectiveMinRounds \in 3..MaxRounds
BY ConfigAssumption DEF Loop!EffectiveMinRounds, Loop!AtMost, Loop!AtLeast

LEMMA InitStage == Init => StageInv
BY ConfigAssumption DEF Init, Loop!Init, StageInv, Ended

LEMMA NextStage ==
    ASSUME StageInv, [Next]_vars
    PROVE  StageInv'
<1>1. Loop!EffectiveMinRounds \in 3..MaxRounds /\ MaxRounds \in 3..5 /\ currentRound \in Nat
  BY MinRoundsFit, ConfigAssumption DEF StageInv
<1>2. CASE Loop!StopByRule
  BY <1>1, <1>2 DEF Loop!StopByRule, Loop!ShouldStopAfterRound, StageInv, Ended
<1>3. CASE Reflect
  <2>1. PICK wish, next : Loop!ReflectWith(wish, next)
    BY <1>3 DEF Reflect
  <2>2. pc' = "stop" => currentRound >= Loop!EffectiveMinRounds
    BY <1>1, <2>1 DEF Loop!ReflectWith, Loop!ContinueSearch, Loop!BlockedAsDuplicate
  <2>3. /\ pc = "judge" /\ pc' \in {"stop", "begin"}
        /\ UNCHANGED <<status, currentRound, finalShortlist, retained>>
    BY <2>1 DEF Loop!ReflectWith
  <2>. QED
    BY <1>1, <2>2, <2>3 DEF StageInv, Ended
<1>4. CASE Loop!BeginRound
  BY <1>1, <1>4 DEF Loop!BeginRound, Loop!memory, StageInv, Ended
<1>5. CASE Loop!AnalyseWith(Scores)
  BY <1>5 DEF Loop!AnalyseWith, StageInv, Ended
<1>6. CASE Loop!RecordStop
  BY <1>1, <1>6 DEF Loop!RecordStop, Loop!memory, StageInv, Ended
<1>7. CASE \/ Loop!MarkRunning \/ ExtractStrategy \/ SearchReturns \/ Loop!Dedupe
           \/ Loop!Finalize \/ Loop!RecordFailure \/ Loop!PublishTrace \/ ActivityRaises
  BY <1>7
     DEF Loop!MarkRunning, ExtractStrategy, Loop!ExtractStrategy, SearchReturns,
         Loop!SearchReturns, Loop!Dedupe, Loop!Finalize, Loop!RecordFailure,
         Loop!PublishTrace, ActivityRaises, Loop!ActivityRaises, Loop!TryBody,
         Loop!record, Loop!memory, StageInv, Ended
<1>8. CASE PatchRepeated \/ UNCHANGED loopVars
  <2>1. UNCHANGED <<pc, status, currentRound, finalShortlist, retained>>
    BY <1>8 DEF PatchRepeated, loopVars
  <2>. QED
    BY <2>1 DEF StageInv
<1>. QED
  BY <1>2, <1>3, <1>4, <1>5, <1>6, <1>7, <1>8, Zenon
     DEF Next, LoopStep, PublishTrace, Over, vars

\* Every step of the stack is a step of the lifecycle or leaves the row's part of it alone.
LEMMA StepRefines ==
    ASSUME IsSequence(steps), EndedInv, StageInv, [Next]_vars
    PROVE  [Lifecycle!Next]_(Lifecycle!vars)
<1>1. Lifecycle!Extends(steps')
  BY LedgerGrows DEF Keeps, Lifecycle!Extends
<1>2. ASSUME status = "running", UNCHANGED <<status, finished, traced>>,
             currentRound' \in {currentRound, currentRound + 1}, currentRound' <= MaxRounds
      PROVE  Lifecycle!Next
  BY <1>1, <1>2 DEF Lifecycle!Next, Lifecycle!Progress
<1>3. currentRound \in 0..MaxRounds /\ MaxRounds \in Nat
  BY ConfigAssumption DEF StageInv
<1>4. CASE Loop!MarkRunning
  BY <1>4 DEF Loop!MarkRunning, Loop!memory, StageInv, Lifecycle!Next, Lifecycle!Start
<1>5. CASE \/ ExtractStrategy \/ SearchReturns \/ Loop!Dedupe \/ Loop!AnalyseWith(Scores)
           \/ Loop!StopByRule \/ Reflect \/ Loop!RecordStop
  <2>1. /\ pc \notin {"start"} \cup Ended
        /\ UNCHANGED <<status, finished, traced, currentRound>>
    BY <1>5
       DEF ExtractStrategy, Loop!ExtractStrategy, SearchReturns, Loop!SearchReturns,
           Loop!Dedupe, Loop!AnalyseWith, Loop!StopByRule, Reflect, Loop!ReflectWith,
           Loop!RecordStop, Ended
  <2>. QED
    BY <1>2, <1>3, <2>1 DEF StageInv
<1>6. CASE Loop!BeginRound
  <2>1. /\ pc \notin {"start"} \cup Ended /\ currentRound < MaxRounds
        /\ UNCHANGED <<status, finished, traced>> /\ currentRound' = currentRound + 1
    BY <1>6 DEF Loop!BeginRound, Ended
  <2>. QED
    BY <1>2, <1>3, <2>1 DEF StageInv
<1>7. CASE Loop!Finalize
  <2>1. status = "running" /\ currentRound >= Loop!EffectiveMinRounds
    BY <1>7 DEF Loop!Finalize, StageInv, Ended
  <2>. QED
    BY <1>1, <1>7, <2>1
       DEF Loop!Finalize, Loop!memory, StageInv, Lifecycle!Next, Lifecycle!Complete
<1>8. CASE Loop!RecordFailure
  BY <1>8 DEF Loop!RecordFailure, Loop!memory, StageInv, Ended, Lifecycle!Next, Lifecycle!Fail
<1>9. CASE Loop!PublishTrace
  BY <1>1, <1>9
     DEF Loop!PublishTrace, Loop!memory, EndedInv, Ended, Terminal, Lifecycle!Next,
         Lifecycle!Annotate, Lifecycle!Terminal
<1>10. CASE PatchRepeated
  <2>1. UNCHANGED <<status, currentRound, finalShortlist, finished, traced>>
    BY <1>10 DEF PatchRepeated
  <2>2. pc # "start"
    BY <1>10 DEF PatchRepeated, LastPatch
  <2>3. CASE pc \in Ended
    BY <1>1, <2>1, <2>3
       DEF EndedInv, Terminal, Lifecycle!Next, Lifecycle!Annotate, Lifecycle!Terminal
  <2>4. CASE pc \notin Ended
    BY <1>2, <1>3, <2>1, <2>2, <2>4 DEF StageInv
  <2>. QED
    BY <2>3, <2>4
<1>11. CASE ActivityRaises \/ UNCHANGED loopVars
  BY <1>11 DEF ActivityRaises, Loop!ActivityRaises, Loop!record, loopVars, Lifecycle!vars
<1>. QED
  BY <1>4, <1>5, <1>6, <1>7, <1>8, <1>9, <1>10, <1>11, Zenon
     DEF Next, LoopStep, PublishTrace, Over, vars

\* The row of a run of the local stack keeps every promise of RunLifecycle, although a
\* patch may be applied twice and activities raise.
THEOREM StackImplementsLifecycle == Spec => ImplementsLifecycle
<1>1. Init => Lifecycle!Init
  BY DEF Init, Loop!Init, Lifecycle!Init
<1>2. OutcomeInv /\ StageInv /\ [Next]_vars => OutcomeInv' /\ StageInv'
  BY NextLedger, NextSuite, NextStage DEF OutcomeInv
<1>3. OutcomeInv /\ StageInv /\ [Next]_vars => [Lifecycle!Next]_(Lifecycle!vars)
  BY StepRefines DEF OutcomeInv, LedgerInv
<1>. QED
  BY InitOutcome, InitStage, <1>1, <1>2, <1>3, PTL
     DEF Spec, ImplementsLifecycle, Lifecycle!Spec

-----------------------------------------------------------------------------
(* What the reflector is told.                                             *)
(*                                                                         *)
(* A repeated patch appends steps that are recorded already, so what the   *)
(* invariant says is said of the set of the recorded steps: which types    *)
(* there are of which round, whatever their number and order.              *)

\* The steps of the ledger, copies taken together.
Recordings == {steps[i] : i \in DOMAIN steps}

InRounds == {"begin", "search", "dedupe", "analyse", "judge"}

\* The round of the query the workflow holds.
QueryRound == IF pc = "begin" THEN currentRound + 1 ELSE currentRound

RoundKinds == {"search", "dedupe", "analysis", "shortlist", "reflection"}

\* The types recorded so far of the round the workflow is in.
KindsHere ==
    CASE pc = "dedupe" -> {"search"}
      [] pc = "analyse" -> {"search", "dedupe"}
      [] pc = "judge" -> RoundKinds \ {"reflection"}
      [] OTHER -> {}

\* All of a round that is over, none of round 0.
KindsSoFar ==
    [round \in 0..currentRound |->
        IF round = 0 THEN {} ELSE IF round < QueryRound THEN RoundKinds ELSE KindsHere]

\* Of the types in kinds[r] there are steps of round r, of other shown types none, and
\* those of one round and type are alike.
OneOfEach(recordings, kinds) ==
    /\ \A e \in recordings : e.round \in DOMAIN kinds
    /\ \A r \in DOMAIN kinds, t \in ShownTypes :
          t \in kinds[r] <=> \E e \in recordings : e.round = r /\ e.type = t
    /\ \A d, e \in recordings :
          d.round = e.round /\ d.type = e.type => d.query = e.query /\ d.entries = e.entries

\* A reflection has the query of the next round's search, and the last one the query the
\* workflow holds.
QueriesLinked(recordings, round, query) ==
    /\ \A d, e \in recordings :
          d.type = "reflection" /\ e.type = "search" /\ e.round = d.round + 1 =>
              e.query = d.query
    /\ \A e \in recordings : e.type = "search" /\ e.round = round => e.query = query
    /\ \A e \in recordings : e.type = "reflection" /\ e.round + 1 = round => e.query = query

AnalysedIn(recordings) ==
    UNION {Loop!IdsOf(e.entries) : e \in {d \in recordings : d.type = "analysis"}}

AnalysedApart(recordings) ==
    \A d, e \in recordings :
        d.type = "analysis" /\ e.type = "analysis" /\ d.round # e.round =>
            Loop!IdsOf(d.entries) \cap Loop!IdsOf(e.entries) = {}

SeenInv ==
    /\ pc # "analyse" => seen = AnalysedIn(Recordings)
    /\ pc = "analyse" => /\ seen = AnalysedIn(Recordings) \cup admitted
                         /\ admitted \cap AnalysedIn(Recordings) = {}

ToldInv ==
    /\ pc \in {"start", "extract"} => steps = <<>> /\ currentRound = 0 /\ seen = {}
    /\ pc \in InRounds =>
          /\ pc # "begin" => currentRound # 0
          /\ OneOfEach(Recordings, KindsSoFar)
          /\ QueriesLinked(Recordings, QueryRound, strategy)
          /\ SeenInv /\ AnalysedApart(Recordings)
    /\ pc = "judge" =>
          \A e \in Recordings :
              e.type = "shortlist" /\ e.round = currentRound => e.entries = finalShortlist

\* One step more, of a type its round has not had.
LEMMA OneMore ==
    ASSUME NEW recordings, NEW N, NEW kinds \in [N -> SUBSET ShownTypes],
           OneOfEach(recordings, kinds),
           NEW step, step.round \in N, step.type \in ShownTypes \ kinds[step.round]
    PROVE  OneOfEach(recordings \cup {step},
                     [kinds EXCEPT ![step.round] = @ \cup {step.type}])
<1> DEFINE all == recordings \cup {step}
           more == [kinds EXCEPT ![step.round] = @ \cup {step.type}]
<1>1. /\ DOMAIN kinds = N /\ DOMAIN more = N
      /\ more[step.round] = kinds[step.round] \cup {step.type}
      /\ \A r \in N : r # step.round => more[r] = kinds[r]
  OBVIOUS
<1>2. ~ \E e \in recordings : e.round = step.round /\ e.type = step.type
  BY <1>1 DEF OneOfEach
<1> HIDE DEF more
<1>3. \A e \in all : e.round \in N
  BY <1>1 DEF OneOfEach
<1>4. ASSUME NEW r \in N, NEW t \in ShownTypes
      PROVE  t \in more[r] <=> \E e \in all : e.round = r /\ e.type = t
  <2>1. t \in kinds[r] <=> \E e \in recordings : e.round = r /\ e.type = t
    BY <1>1 DEF OneOfEach
  <2>2. CASE r = step.round /\ t = step.type
    BY <1>1, <2>2
  <2>3. CASE ~(r = step.round /\ t = step.type)
    <3>1. t \in more[r] <=> t \in kinds[r]
      BY <1>1, <2>3
    <3>2. (\E e \in all : e.round = r /\ e.type = t)
          <=> \E e \in recordings : e.round = r /\ e.type = t
      BY <2>3
    <3>. QED
      BY <2>1, <3>1, <3>2
  <2>. QED
    BY <2>2, <2>3
<1>5. \A d, e \in all :
          d.round = e.round /\ d.type = e.type => d.query = e.query /\ d.entries = e.entries
  <2>1. \A d, e \in recordings :
          d.round = e.round /\ d.type = e.type => d.query = e.query /\ d.entries = e.entries
    BY DEF OneOfEach
  <2>. QED
    BY <1>2, <2>1
<1>. QED
  BY <1>1, <1>3, <1>4, <1>5 DEF OneOfEach

\* What is appended is recorded.
LEMMA AppendAdds ==
    ASSUME NEW q, NEW step, IsSequence(q)
    PROVE  {Append(q, step)[i] : i \in DOMAIN Append(q, step)}
           = {q[i] : i \in DOMAIN q} \cup {step}
<1> DEFINE r == Append(q, step)
<1>1. /\ Len(q) \in Nat
      /\ DOMAIN q = 1..Len(q) /\ DOMAIN r = 1..(Len(q) + 1)
      /\ \A i \in 1..Len(q) : r[i] = q[i]
      /\ r[Len(q) + 1] = step
  BY AppendKeeps
<1> HIDE DEF r
<1>2. {r[i] : i \in DOMAIN r} \subseteq {q[i] : i \in DOMAIN q} \cup {step}
  <2> SUFFICES ASSUME NEW i \in 1..(Len(q) + 1)
               PROVE  r[i] \in {q[j] : j \in DOMAIN q} \cup {step}
    BY <1>1
  <2>1. i \in 1..Len(q) \/ i = Len(q) + 1
    BY <1>1
  <2>. QED
    BY <1>1, <2>1
<1>3. {q[i] : i \in DOMAIN q} \cup {step} \subseteq {r[i] : i \in DOMAIN r}
  <2>1. \A i \in 1..Len(q) : i \in DOMAIN r /\ r[i] = q[i]
    BY <1>1
  <2>2. Len(q) + 1 \in DOMAIN r
    BY <1>1
  <2>. QED
    BY <1>1, <2>1, <2>2
<1>. QED
  BY <1>2, <1>3 DEF r

\* A patch that is applied once more leaves the recorded steps what they are.
LEMMA RepeatedAddsNothing ==
    ASSUME LedgerInv, StageInv, ToldInv, PatchRepeated, pc \in InRounds
    PROVE  Recordings' = Recordings
<1> DEFINE n == Len(steps)
<1>1. IsSequence(steps) /\ n \in Nat /\ DOMAIN steps = 1..n
  BY AppendKeeps DEF LedgerInv
<1>2. PICK first \in 1..n : steps[first].type = "strategy"
  BY <1>1 DEF LedgerInv, InRounds, Ended, Recorded
<1>3. steps' = steps \o LastPatch
  BY DEF PatchRepeated
<1>4. LastPatch \in Seq(Recordings)
  <2>0. steps \in Seq(Recordings)
    BY <1>1 DEF IsSequence, Recordings
  <2>1. CASE pc = "judge"
    <3>1. /\ OneOfEach(Recordings, KindsSoFar) /\ currentRound \in DOMAIN KindsSoFar
          /\ "shortlist" \in KindsSoFar[currentRound]
      BY <2>1, ConfigAssumption
         DEF ToldInv, InRounds, StageInv, KindsSoFar, KindsHere, QueryRound, RoundKinds
    <3>2. PICK j \in 1..n : steps[j].type = "shortlist"
      BY <1>1, <3>1 DEF OneOfEach, ShownTypes, Recordings
    <3>3. n >= 2
      BY <1>2, <3>2
    <3>4. SubSeq(steps, n - 1, n) \in Seq(Recordings)
      BY <2>0, <3>3, <1>1, SubSeqProperties
    <3>. QED
      BY <2>1, <3>4 DEF LastPatch
  <2>2. CASE pc # "judge"
    <3>1. LastPatch = <<Last(steps)>>
      BY <2>2 DEF LastPatch, PatchRepeated, InRounds
    <3>2. Last(steps) \in Recordings
      BY <1>1, <1>2 DEF Last, Recordings
    <3>. QED
      BY <3>1, <3>2
  <2>. QED
    BY <2>1, <2>2
<1>5. \A i \in DOMAIN steps' : steps'[i] \in Recordings
  <2>1. steps \in Seq(Recordings)
    BY <1>1 DEF IsSequence, Recordings
  <2>. QED
    BY <1>3, <1>4, <2>1, ConcatProperties, ElementOfSeq
<1>6. Keeps(steps, steps')
  BY <1>1, <1>3, LastPatchIsSequence, ConcatKeeps DEF Keeps
<1>7. \A i \in DOMAIN steps : i \in DOMAIN steps' /\ steps'[i] = steps[i]
  BY <1>1, <1>6, AppendKeeps DEF Keeps
<1>. QED
  BY <1>5, <1>7 DEF Recordings

\* A step of a kind the workflow's round has not had, in the round loop.
LEMMA RecordsOne ==
    ASSUME StageInv, ToldInv, pc \in InRounds \ {"begin"}, NEW type \in RoundKinds \ KindsHere
    PROVE  /\ currentRound \in Nat \ {0} /\ currentRound \in DOMAIN KindsSoFar
           /\ KindsSoFar[currentRound] = KindsHere
           /\ ~ \E e \in Recordings : e.round = currentRound /\ e.type = type
           /\ \A e \in Recordings : e.round \in 0..currentRound
           /\ \A step : step.round = currentRound /\ step.type = type =>
                 OneOfEach(Recordings \cup {step},
                           [KindsSoFar EXCEPT ![currentRound] = KindsHere \cup {type}])
<1>1. /\ currentRound \in Nat \ {0} /\ currentRound \in DOMAIN KindsSoFar
      /\ OneOfEach(Recordings, KindsSoFar)
  BY ConfigAssumption DEF ToldInv, InRounds, StageInv, KindsSoFar
<1>2. KindsSoFar[currentRound] = KindsHere /\ DOMAIN KindsSoFar = 0..currentRound
  BY <1>1 DEF KindsSoFar, QueryRound
<1>3. KindsSoFar \in [0..currentRound -> SUBSET ShownTypes]
  BY DEF KindsSoFar, KindsHere, RoundKinds, ShownTypes
<1>4. type \in ShownTypes \ KindsSoFar[currentRound]
  BY <1>2 DEF RoundKinds, ShownTypes
<1>5. ~ \E e \in Recordings : e.round = currentRound /\ e.type = type
  BY <1>1, <1>4 DEF OneOfEach
<1>6. \A e \in Recordings : e.round \in 0..currentRound
  BY <1>1, <1>2 DEF OneOfEach
<1>7. ASSUME NEW step, step.round = currentRound, step.type = type
      PROVE  OneOfEach(Recordings \cup {step},
                       [KindsSoFar EXCEPT ![currentRound] = KindsHere \cup {type}])
  <2> HIDE DEF KindsSoFar
  <2>1. [KindsSoFar EXCEPT ![step.round] = @ \cup {step.type}]
        = [KindsSoFar EXCEPT ![currentRound] = KindsHere \cup {type}]
    BY <1>2, <1>7
  <2>2. OneOfEach(Recordings \cup {step}, [KindsSoFar EXCEPT ![step.round] = @ \cup {step.type}])
    BY <1>1, <1>2, <1>3, <1>4, <1>7, OneMore
  <2>. QED
    BY <2>1, <2>2
<1>. QED
  BY <1>1, <1>2, <1>5, <1>6, <1>7

\* In the same round, what is recorded of it after a step.
LEMMA KindsMove ==
    ASSUME StageInv, ToldInv, pc \in InRounds \ {"begin"}, pc' \in InRounds,
           UNCHANGED currentRound, NEW kinds,
           pc' # "begin" => KindsHere' = kinds, pc' = "begin" => kinds = RoundKinds
    PROVE  KindsSoFar' = [KindsSoFar EXCEPT ![currentRound] = kinds]
<1> currentRound \in Nat \ {0}
  BY ConfigAssumption DEF ToldInv, InRounds, StageInv
<1> DEFINE of(r, here) == IF r = 0 THEN {} ELSE IF r < currentRound THEN RoundKinds ELSE here
<1>1. KindsSoFar = [r \in 0..currentRound |-> of(r, KindsHere)]
  BY DEF KindsSoFar, QueryRound
<1>2. KindsSoFar' = [r \in 0..currentRound |-> of(r, kinds)]
  <2> HIDE DEF KindsHere
  <2>1. CASE pc' # "begin"
    BY <2>1 DEF KindsSoFar, QueryRound
  <2>2. CASE pc' = "begin"
    <3>1. QueryRound' = currentRound + 1 /\ kinds = RoundKinds
      BY <2>2 DEF QueryRound
    <3>2. \A r \in 0..currentRound : r < currentRound + 1
      OBVIOUS
    <3>3. KindsSoFar' = [r \in 0..currentRound |-> IF r = 0 THEN {} ELSE RoundKinds]
      BY <3>1, <3>2 DEF KindsSoFar
    <3>. QED
      BY <3>1, <3>3
  <2>. QED
    BY <2>1, <2>2
<1>3. /\ \A r \in 0..currentRound : r # currentRound => of(r, KindsHere) = of(r, kinds)
      /\ of(currentRound, kinds) = kinds /\ currentRound \in 0..currentRound
  <2> HIDE DEF KindsHere
  <2>. QED
    OBVIOUS
<1> HIDE DEF of
<1>. QED
  BY <1>1, <1>2, <1>3

LEMMA SearchTold ==
    ASSUME LedgerInv, StageInv, ToldInv, SearchReturns
    PROVE  ToldInv'
<1> DEFINE step == Loop!SearchStep
<1>1. /\ pc = "search" /\ pc' = "dedupe" /\ steps' = Append(steps, step)
      /\ UNCHANGED <<currentRound, seen, strategy>>
  BY DEF SearchReturns, Loop!SearchReturns
<1>2. step.round = currentRound /\ step.type = "search" /\ step.query = strategy
  BY DEF Loop!SearchStep, Loop!NextStep, Loop!BlankStep
<1> HIDE DEF step
<1>3. Recordings' = Recordings \cup {step}
  BY <1>1, AppendAdds DEF LedgerInv, Recordings
<1>4. KindsHere = {} /\ KindsHere' = {"search"} /\ QueryRound = currentRound
      /\ QueryRound' = currentRound
  BY <1>1 DEF KindsHere, QueryRound
<1>5. /\ currentRound \in Nat \ {0}
      /\ \A e \in Recordings : e.round \in 0..currentRound
      /\ OneOfEach(Recordings \cup {step},
                   [KindsSoFar EXCEPT ![currentRound] = {"search"}])
  BY <1>1, <1>2, <1>4, RecordsOne DEF InRounds, RoundKinds
<1>6. KindsSoFar' = [KindsSoFar EXCEPT ![currentRound] = {"search"}]
  BY <1>1, <1>4, KindsMove DEF InRounds
<1>7. QueriesLinked(Recordings', currentRound, strategy)
  BY <1>1, <1>2, <1>3, <1>4, <1>5 DEF ToldInv, InRounds, QueriesLinked
<1>8. AnalysedIn(Recordings') = AnalysedIn(Recordings) /\ AnalysedApart(Recordings')
  BY <1>1, <1>2, <1>3 DEF ToldInv, InRounds, AnalysedIn, AnalysedApart
<1>. QED
  BY <1>1, <1>3, <1>4, <1>5, <1>6, <1>7, <1>8 DEF ToldInv, InRounds, SeenInv

LEMMA DedupeTold ==
    ASSUME LedgerInv, StageInv, ToldInv, Loop!Dedupe
    PROVE  ToldInv'
<1> DEFINE step == Loop!NextStep("dedupe")
<1>1. /\ pc = "dedupe" /\ pc' = "analyse" /\ steps' = Append(steps, step)
      /\ admitted' = page \ seen /\ seen' = seen \cup page
      /\ UNCHANGED <<currentRound, strategy>>
  BY DEF Loop!Dedupe, Loop!SeenAfter
<1>2. step.round = currentRound /\ step.type = "dedupe"
  BY DEF Loop!NextStep, Loop!BlankStep
<1> HIDE DEF step
<1>3. Recordings' = Recordings \cup {step}
  BY <1>1, AppendAdds DEF LedgerInv, Recordings
<1>4. KindsHere = {"search"} /\ KindsHere' = {"search", "dedupe"} /\ QueryRound = currentRound
      /\ QueryRound' = currentRound
  BY <1>1 DEF KindsHere, QueryRound
<1>5. /\ currentRound \in Nat \ {0}
      /\ OneOfEach(Recordings \cup {step},
                   [KindsSoFar EXCEPT ![currentRound] = {"search", "dedupe"}])
  <2>1. KindsHere \cup {"dedupe"} = {"search", "dedupe"}
    BY <1>4
  <2>. QED
    BY <1>1, <1>2, <1>4, <2>1, RecordsOne DEF InRounds, RoundKinds
<1>6. KindsSoFar' = [KindsSoFar EXCEPT ![currentRound] = {"search", "dedupe"}]
  BY <1>1, <1>4, KindsMove DEF InRounds
<1>7. QueriesLinked(Recordings', currentRound, strategy)
  BY <1>1, <1>2, <1>3, <1>4 DEF ToldInv, InRounds, QueriesLinked
<1>8. AnalysedIn(Recordings') = AnalysedIn(Recordings) /\ AnalysedApart(Recordings')
  BY <1>1, <1>2, <1>3 DEF ToldInv, InRounds, AnalysedIn, AnalysedApart
<1>9. SeenInv'
  <2>1. seen = AnalysedIn(Recordings)
    BY <1>1 DEF ToldInv, InRounds, SeenInv
  <2>. QED
    BY <1>1, <1>8, <2>1 DEF SeenInv
<1>. QED
  BY <1>1, <1>3, <1>4, <1>5, <1>6, <1>7, <1>8, <1>9 DEF ToldInv, InRounds

LEMMA AnalyseTold ==
    ASSUME LedgerInv, StageInv, ToldInv, NEW scores, Loop!AnalyseWith(scores)
    PROVE  ToldInv'
<1> DEFINE new == Loop!Analyses(scores)
           one == [Loop!NextStep("analysis") EXCEPT !.entries = new]
           here == {"search", "dedupe", "analysis"}
<1>0. PICK top : /\ finalShortlist' = top
                 /\ steps' = Append(Append(steps, one),
                                    [Loop!SecondStep("shortlist") EXCEPT !.entries = top])
  BY Zenon DEF Loop!AnalyseWith
<1> DEFINE two == [Loop!SecondStep("shortlist") EXCEPT !.entries = top]
<1>1. /\ pc = "analyse" /\ pc' = "judge"
      /\ UNCHANGED <<currentRound, seen, strategy>>
  BY DEF Loop!AnalyseWith
<1>2. /\ one.round = currentRound /\ one.type = "analysis" /\ one.entries = new
      /\ two.round = currentRound /\ two.type = "shortlist" /\ two.entries = top
  BY DEF Loop!NextStep, Loop!SecondStep, Loop!BlankStep
<1>3. Loop!IdsOf(new) = admitted
  <2> DEFINE entry(r) == [id |-> r, score |-> Loop!Clamp(scores[r]), round |-> currentRound]
  <2>1. \A r : entry(r).id = r
    OBVIOUS
  <2>2. new = {entry(r) : r \in admitted}
    BY DEF Loop!Analyses
  <2> HIDE DEF entry, new
  <2>. QED
    BY <2>1, <2>2 DEF Loop!IdsOf
<1> HIDE DEF new, one, two
<1>4. Recordings' = (Recordings \cup {one}) \cup {two}
  <2>1. IsSequence(steps) /\ IsSequence(Append(steps, one))
    BY AppendKeeps DEF LedgerInv
  <2>. QED
    BY <1>0, <2>1, AppendAdds DEF Recordings, two
<1>5. KindsHere = {"search", "dedupe"} /\ KindsHere' = RoundKinds \ {"reflection"}
      /\ QueryRound = currentRound /\ QueryRound' = currentRound
  BY <1>1 DEF KindsHere, QueryRound
<1>6. /\ currentRound \in Nat \ {0} /\ currentRound \in DOMAIN KindsSoFar
      /\ \A type \in {"analysis", "shortlist"} :
            ~ \E e \in Recordings : e.round = currentRound /\ e.type = type
      /\ OneOfEach(Recordings \cup {one}, [KindsSoFar EXCEPT ![currentRound] = here])
  <2>1. KindsHere \cup {"analysis"} = here
    BY <1>5
  <2>2. {"analysis", "shortlist"} \subseteq RoundKinds \ KindsHere
    BY <1>5 DEF RoundKinds
  <2>. QED
    BY <1>1, <1>2, <2>1, <2>2, RecordsOne DEF InRounds
<1>7. OneOfEach(Recordings', [KindsSoFar EXCEPT ![currentRound] = RoundKinds \ {"reflection"}])
  <2> DEFINE K == [KindsSoFar EXCEPT ![currentRound] = here]
  <2>1. KindsSoFar \in [0..currentRound -> SUBSET ShownTypes]
    BY DEF KindsSoFar, KindsHere, RoundKinds, ShownTypes
  <2>2. K \in [0..currentRound -> SUBSET ShownTypes] /\ K[currentRound] = here
        /\ currentRound \in 0..currentRound
    <3> HIDE DEF KindsSoFar
    <3>. QED
      BY <1>6, <2>1 DEF ShownTypes
  <2>3. two.type \in ShownTypes \ K[two.round]
    BY <1>2, <2>2 DEF ShownTypes
  <2>4. [K EXCEPT ![two.round] = @ \cup {two.type}]
        = [KindsSoFar EXCEPT ![currentRound] = RoundKinds \ {"reflection"}]
    <3>1. here \cup {two.type} = RoundKinds \ {"reflection"}
      BY <1>2 DEF RoundKinds
    <3> HIDE DEF KindsSoFar
    <3>. QED
      BY <1>2, <2>1, <2>2, <3>1
  <2> HIDE DEF K
  <2>5. OneOfEach((Recordings \cup {one}) \cup {two}, [K EXCEPT ![two.round] = @ \cup {two.type}])
    BY <1>2, <1>6, <2>2, <2>3, OneMore DEF K
  <2>. QED
    BY <1>4, <2>4, <2>5
<1>8. KindsSoFar' = [KindsSoFar EXCEPT ![currentRound] = RoundKinds \ {"reflection"}]
  BY <1>1, <1>5, KindsMove DEF InRounds
<1>9. QueriesLinked(Recordings', currentRound, strategy)
  BY <1>1, <1>2, <1>4, <1>5 DEF ToldInv, InRounds, QueriesLinked
<1>10. AnalysedIn(Recordings') = AnalysedIn(Recordings) \cup admitted
  BY <1>2, <1>3, <1>4 DEF AnalysedIn
<1>11. SeenInv'
  BY <1>1, <1>10 DEF ToldInv, InRounds, SeenInv
<1>12. AnalysedApart(Recordings')
  <2>1. admitted \cap AnalysedIn(Recordings) = {} /\ AnalysedApart(Recordings)
    BY <1>1 DEF ToldInv, InRounds, SeenInv
  <2>2. \A e \in Recordings : e.type = "analysis" => Loop!IdsOf(e.entries) \cap admitted = {}
    BY <2>1 DEF AnalysedIn
  <2>. QED
    BY <1>2, <1>3, <1>4, <2>1, <2>2 DEF AnalysedApart
<1>13. \A e \in Recordings' :
          e.type = "shortlist" /\ e.round = currentRound => e.entries = finalShortlist'
  BY <1>0, <1>2, <1>4, <1>6
<1>. QED
  BY <1>1, <1>5, <1>6, <1>7, <1>8, <1>9, <1>11, <1>12, <1>13 DEF ToldInv, InRounds

LEMMA ReflectTold ==
    ASSUME LedgerInv, StageInv, ToldInv, NEW wish, NEW next, Loop!ReflectWith(wish, next),
           pc' = "begin"
    PROVE  ToldInv'
<1> DEFINE step == Loop!ReflectionStep(next)
<1>1. /\ pc = "judge" /\ steps' = Append(steps, step) /\ strategy' = next
      /\ UNCHANGED <<currentRound, seen>>
  BY DEF Loop!ReflectWith
<1>2. step.round = currentRound /\ step.type = "reflection" /\ step.query = next
  BY DEF Loop!ReflectionStep, Loop!NextStep, Loop!BlankStep
<1> HIDE DEF step
<1>3. Recordings' = Recordings \cup {step}
  BY <1>1, AppendAdds DEF LedgerInv, Recordings
<1>4. KindsHere = RoundKinds \ {"reflection"} /\ KindsHere \cup {"reflection"} = RoundKinds
      /\ QueryRound' = currentRound + 1
  BY <1>1 DEF KindsHere, RoundKinds, QueryRound
<1>5. /\ currentRound \in Nat \ {0}
      /\ \A e \in Recordings : e.round \in 0..currentRound
      /\ ~ \E e \in Recordings : e.round = currentRound /\ e.type = "reflection"
      /\ OneOfEach(Recordings \cup {step}, [KindsSoFar EXCEPT ![currentRound] = RoundKinds])
  <2>1. "reflection" \in RoundKinds \ KindsHere
    BY <1>4 DEF RoundKinds
  <2>. QED
    BY <1>1, <1>2, <1>4, <2>1, RecordsOne DEF InRounds
<1>6. KindsSoFar' = [KindsSoFar EXCEPT ![currentRound] = RoundKinds]
  BY <1>1, <1>4, KindsMove DEF InRounds
<1>7. QueriesLinked(Recordings', currentRound + 1, next)
  BY <1>1, <1>2, <1>3, <1>5 DEF ToldInv, InRounds, QueriesLinked
<1>8. AnalysedIn(Recordings') = AnalysedIn(Recordings) /\ AnalysedApart(Recordings')
  BY <1>1, <1>2, <1>3 DEF ToldInv, InRounds, AnalysedIn, AnalysedApart
<1>. QED
  BY <1>1, <1>3, <1>4, <1>5, <1>6, <1>7, <1>8 DEF ToldInv, InRounds, SeenInv

LEMMA InitTold == Init => ToldInv
BY DEF Init, Loop!Init, ToldInv, InRounds

LEMMA NextTold ==
    ASSUME LedgerInv, StageInv, ToldInv, [Next]_vars
    PROVE  ToldInv'
<1>1. CASE Loop!MarkRunning
  BY <1>1 DEF Loop!MarkRunning, Loop!memory, ToldInv, InRounds
<1>2. CASE ExtractStrategy
  <2> DEFINE step == Loop!NextStep("strategy")
  <2>1. /\ pc = "extract" /\ pc' = "begin" /\ steps' = Append(steps, step)
        /\ steps = <<>> /\ currentRound' = 0 /\ seen' = {} /\ currentRound = 0
    BY <1>2 DEF ExtractStrategy, Loop!ExtractStrategy, ToldInv
  <2>2. step.round = 0 /\ step.type = "strategy"
    BY <2>1 DEF Loop!NextStep, Loop!BlankStep
  <2> HIDE DEF step
  <2>3. Recordings' = {step}
    <3>1. {steps[i] : i \in DOMAIN steps} = {}
      BY <2>1
    <3>. QED
      BY <2>1, <3>1, AppendAdds DEF LedgerInv, Recordings
  <2>4. QueryRound' = 1 /\ KindsSoFar' = [round \in 0..0 |-> {}]
    BY <2>1 DEF QueryRound, KindsSoFar
  <2>5. OneOfEach(Recordings', KindsSoFar')
    BY <2>2, <2>3, <2>4 DEF OneOfEach, ShownTypes
  <2>6. QueriesLinked(Recordings', 1, strategy')
    BY <2>2, <2>3 DEF QueriesLinked
  <2>7. AnalysedIn(Recordings') = {} /\ AnalysedApart(Recordings')
    BY <2>2, <2>3 DEF AnalysedIn, AnalysedApart
  <2>. QED
    BY <2>1, <2>4, <2>5, <2>6, <2>7 DEF ToldInv, InRounds, SeenInv
<1>3. CASE Loop!BeginRound
  <2>1. /\ pc = "begin" /\ pc' = "search" /\ currentRound' = currentRound + 1
        /\ UNCHANGED <<steps, seen, strategy>>
    BY <1>3 DEF Loop!BeginRound, Loop!memory
  <2>2. currentRound \in Nat
    BY ConfigAssumption DEF StageInv
  <2>3. Recordings' = Recordings /\ QueryRound' = QueryRound /\ QueryRound = currentRound + 1
    BY <2>1 DEF Recordings, QueryRound
  <2>4. /\ KindsSoFar = [r \in 0..currentRound |-> IF r = 0 THEN {} ELSE RoundKinds]
        /\ KindsSoFar' = [r \in 0..(currentRound + 1) |->
                             IF r = 0 \/ r = currentRound + 1 THEN {} ELSE RoundKinds]
    <3>1. KindsHere' = {}
      BY <2>1 DEF KindsHere
    <3>2. \A r \in 0..currentRound : r < currentRound + 1
      BY <2>2
    <3>3. \A r \in 0..(currentRound + 1) : r < currentRound + 1 <=> r # currentRound + 1
      BY <2>2
    <3>4. KindsSoFar = [r \in 0..currentRound |-> IF r = 0 THEN {} ELSE RoundKinds]
      BY <2>3, <3>2 DEF KindsSoFar
    <3>5. KindsSoFar' = [r \in 0..(currentRound + 1) |->
                            IF r = 0 \/ r = currentRound + 1 THEN {} ELSE RoundKinds]
      <4> HIDE DEF KindsHere, RoundKinds
      <4>. QED
        BY <2>1, <2>3, <3>1, <3>3 DEF KindsSoFar
    <3>. QED
      BY <3>4, <3>5
  <2>5. OneOfEach(Recordings, KindsSoFar')
    <3>1. OneOfEach(Recordings, KindsSoFar)
      BY <2>1 DEF ToldInv, InRounds
    <3>2. \A e \in Recordings : e.round \in 0..currentRound
      BY <2>4, <3>1 DEF OneOfEach
    <3>3. \A r \in 0..currentRound : r \in 0..(currentRound + 1) /\ r # currentRound + 1
      BY <2>2
    <3>4. \A r \in 0..(currentRound + 1) : r \in 0..currentRound \/ r = currentRound + 1
      BY <2>2
    <3>5. \A r \in 0..currentRound : KindsSoFar'[r] = KindsSoFar[r]
      BY <2>4, <3>3
    <3>6. KindsSoFar'[currentRound + 1] = {} /\ DOMAIN KindsSoFar' = 0..(currentRound + 1)
      BY <2>2, <2>4
    <3>7. DOMAIN KindsSoFar = 0..currentRound
      BY <2>4
    <3>. QED
      BY <3>1, <3>2, <3>3, <3>4, <3>5, <3>6, <3>7 DEF OneOfEach
  <2>6. currentRound' # 0
    BY <2>1, <2>2
  <2>. QED
    BY <2>1, <2>3, <2>5, <2>6 DEF ToldInv, InRounds, SeenInv
<1>4. CASE Reflect
  <2>1. PICK wish, next : Loop!ReflectWith(wish, next)
    BY <1>4 DEF Reflect
  <2>2. CASE pc' = "begin"
    BY <2>1, <2>2, ReflectTold
  <2>3. CASE pc' # "begin"
    <3>1. pc' = "stop"
      BY <2>1, <2>3 DEF Loop!ReflectWith
    <3>. QED
      BY <3>1 DEF ToldInv, InRounds
  <2>. QED
    BY <2>2, <2>3
<1>5. CASE PatchRepeated
  <2>1. /\ pc' = pc /\ UNCHANGED <<currentRound, seen, strategy, admitted, finalShortlist>>
        /\ pc \notin {"start", "extract"}
    BY <1>5 DEF PatchRepeated, LastPatch
  <2>2. CASE pc \in InRounds
    <3>1. Recordings' = Recordings
      BY <1>5, <2>2, RepeatedAddsNothing
    <3>2. KindsSoFar' = KindsSoFar /\ QueryRound' = QueryRound
      BY <2>1 DEF KindsSoFar, KindsHere, QueryRound
    <3>. QED
      BY <2>1, <2>2, <3>1, <3>2 DEF ToldInv, SeenInv
  <2>3. CASE pc \notin InRounds
    BY <2>1, <2>3 DEF ToldInv, InRounds
  <2>. QED
    BY <2>2, <2>3
<1>6. CASE UNCHANGED loopVars
  <2>1. UNCHANGED <<pc, steps, currentRound, seen, strategy, admitted, finalShortlist>>
    BY <1>6 DEF loopVars
  <2>2. Recordings' = Recordings /\ KindsSoFar' = KindsSoFar /\ QueryRound' = QueryRound
    BY <2>1 DEF Recordings, KindsSoFar, KindsHere, QueryRound
  <2>. QED
    BY <2>1, <2>2 DEF ToldInv, SeenInv
<1>7. CASE \/ Loop!StopByRule \/ Loop!RecordStop \/ Loop!Finalize \/ ActivityRaises
           \/ Loop!RecordFailure \/ Loop!PublishTrace
  <2>1. pc' \in {"finalize", "publish", "failing", "closed"}
    BY <1>7 DEF Loop!StopByRule, Loop!RecordStop, Loop!Finalize, ActivityRaises,
                Loop!ActivityRaises, Loop!RecordFailure, Loop!PublishTrace
  <2>. QED
    BY <2>1 DEF ToldInv, InRounds
<1>. QED
  BY <1>1, <1>2, <1>3, <1>4, <1>5, <1>6, <1>7, SearchTold, DedupeTold, AnalyseTold, Zenon
     DEF Next, LoopStep, PublishTrace, Over, vars

-----------------------------------------------------------------------------
(* The round ledger made of what is recorded. *)

\* A set of natural numbers up to n has a greatest one, unless it is empty.
LEMMA GreatestExists ==
    ASSUME NEW n \in Nat, NEW S \in SUBSET (1..n), S # {}
    PROVE  \E i \in S : \A j \in S : j <= i
<1> DEFINE T == {n - i : i \in S}
<1>1. \A i \in S : i \in Int /\ i <= n /\ n - i \in Nat
  OBVIOUS
<1>2. T \subseteq Nat /\ T # {}
  <2> HIDE DEF T
  <2>1. \A y \in T : y \in Nat
    BY <1>1, Zenon DEF T
  <2>2. T # {}
    BY Zenon DEF T
  <2>. QED
    BY <2>1, <2>2
<1> HIDE DEF T
<1>3. PICK x \in T : \A y \in T : <<y, x>> \notin OpToRel(<, Nat)
  BY <1>2, WFMin, NatLessThanWellFounded
<1>4. ASSUME NEW y \in T
      PROVE  x <= y
  <2>1. x \in Nat /\ y \in Nat
    BY <1>2
  <2>2. y < x => <<y, x>> \in OpToRel(<, Nat)
    BY <2>1 DEF OpToRel
  <2>3. <<y, x>> \notin OpToRel(<, Nat)
    BY <1>3, <1>4, Zenon
  <2>4. ~(y < x)
    BY <2>2, <2>3, Zenon
  <2>. QED
    BY <2>1, <2>4
<1>5. PICK i \in S : x = n - i
  BY DEF T
<1>6. \A j \in S : n - i <= n - j
  BY <1>4, <1>5 DEF T
<1>. QED
  BY <1>1, <1>5, <1>6

\* What the workflow remembers has an entry of a round and type where the ledger has a
\* step of them, and the entry shown is one of these steps'.
LEMMA LedgerTold ==
    ASSUME NEW q, IsSequence(q)
    PROVE  LET memory == CompactForWorkflow(q)
               told == BuildCompactRoundLedger(memory)
           IN  /\ DOMAIN told = {q[i].round : i \in DOMAIN q} \ {0}
               /\ \A r \in DOMAIN told :
                     DOMAIN told[r] = {t \in ShownTypes :
                                          \E i \in DOMAIN q : q[i].round = r /\ q[i].type = t}
               /\ \A r \in DOMAIN told : \A t \in DOMAIN told[r] :
                     \E i \in DOMAIN q :
                        /\ q[i].round = r /\ q[i].type = t
                        /\ told[r][t] =
                              [key \in (DOMAIN Payload(q, i) \cap KeptKeys(t)) \cap ReadKeys(t) |->
                                  Payload(q, i)[key]]
<1> DEFINE memory == CompactForWorkflow(q)
           told == BuildCompactRoundLedger(memory)
<1>1. Len(q) \in Nat /\ DOMAIN q = 1..Len(q)
  BY AppendKeeps
<1>2. /\ DOMAIN memory = DOMAIN q
      /\ \A i \in DOMAIN q :
            /\ memory[i].round = q[i].round /\ memory[i].type = q[i].type
            /\ memory[i].payload = [key \in DOMAIN Payload(q, i) \cap KeptKeys(q[i].type) |->
                                       Payload(q, i)[key]]
  BY Zenon DEF CompactForWorkflow
<1> HIDE DEF memory
<1>3. \A r, t : Copies(memory, r, t) = {i \in DOMAIN q : q[i].round = r /\ q[i].type = t}
  BY <1>2 DEF Copies
<1>4. DOMAIN told = {q[i].round : i \in DOMAIN q} \ {0}
  <2>1. DOMAIN told = {memory[i].round : i \in DOMAIN memory} \ {0}
    BY DEF BuildCompactRoundLedger
  <2>. QED
    BY <1>2, <2>1
<1>5. ASSUME NEW r \in DOMAIN told
      PROVE  /\ DOMAIN told[r] = {t \in ShownTypes : Copies(memory, r, t) # {}}
             /\ \A t \in DOMAIN told[r] :
                   LET payload == memory[LastCopy(memory, r, t)].payload
                   IN  told[r][t] = [key \in DOMAIN payload \cap ReadKeys(t) |-> payload[key]]
  BY DEF BuildCompactRoundLedger
<1> HIDE DEF told
<1>6. ASSUME NEW r \in DOMAIN told
      PROVE  DOMAIN told[r] = {t \in ShownTypes :
                                  \E i \in DOMAIN q : q[i].round = r /\ q[i].type = t}
  <2>1. DOMAIN told[r] = {t \in ShownTypes : Copies(memory, r, t) # {}}
    BY <1>5, Zenon
  <2>2. \A t : Copies(memory, r, t) # {}
               <=> \E i \in DOMAIN q : q[i].round = r /\ q[i].type = t
    BY <1>3
  <2>. QED
    BY <2>1, <2>2, Zenon
<1>7. ASSUME NEW r \in DOMAIN told, NEW t \in DOMAIN told[r]
      PROVE  \E i \in DOMAIN q :
                /\ q[i].round = r /\ q[i].type = t
                /\ told[r][t] =
                      [key \in (DOMAIN Payload(q, i) \cap KeptKeys(t)) \cap ReadKeys(t) |->
                          Payload(q, i)[key]]
  <2> DEFINE S == Copies(memory, r, t)
             i == LastCopy(memory, r, t)
  <2>1. S # {} /\ S \in SUBSET (1..Len(q))
    <3>1. DOMAIN told[r] = {u \in ShownTypes : Copies(memory, r, u) # {}}
      BY <1>5, Zenon
    <3>2. S # {}
      BY <3>1, Zenon
    <3>3. S = {j \in DOMAIN q : q[j].round = r /\ q[j].type = t}
      BY <1>3, Zenon
    <3>. QED
      BY <1>1, <3>2, <3>3
  <2>2. i \in S
    <3>1. \E k \in S : \A j \in S : j <= k
      <4> HIDE DEF S
      <4>. QED
        BY <1>1, <2>1, GreatestExists
    <3>. QED
      BY <3>1 DEF LastCopy
  <2>3. i \in DOMAIN q /\ q[i].round = r /\ q[i].type = t
    BY <1>3, <2>2
  <2> DEFINE payload == memory[i].payload
             whole == Payload(q, i)
  <2>4. payload = [key \in DOMAIN whole \cap KeptKeys(t) |-> whole[key]]
    BY <1>2, <2>3
  <2>5. told[r][t] = [key \in DOMAIN payload \cap ReadKeys(t) |-> payload[key]]
    BY <1>5
  <2> HIDE DEF payload, whole, i
  <2>6. told[r][t] = [key \in (DOMAIN whole \cap KeptKeys(t)) \cap ReadKeys(t) |-> whole[key]]
    BY <2>4, <2>5
  <2>. QED
    BY <2>3, <2>6 DEF whole
<1>. QED
  BY <1>4, <1>6, <1>7 DEF told, memory

\* An entry shows of its step what the reflector reads of it.
LEMMA EntryTold ==
    ASSUME NEW q, IsSequence(q), NEW r \in DOMAIN BuildCompactRoundLedger(CompactForWorkflow(q)),
           NEW t \in DOMAIN BuildCompactRoundLedger(CompactForWorkflow(q))[r]
    PROVE  LET entry == BuildCompactRoundLedger(CompactForWorkflow(q))[r][t]
           IN  \E i \in DOMAIN q :
                  /\ q[i].round = r /\ q[i].type = t
                  /\ t = "search" => entry.roundQuery = q[i].query
                  /\ t = "analysis" => entry.analyses = q[i].entries
                  /\ t = "shortlist" => entry.retainedCandidates = q[i].entries
                  /\ t = "reflection" =>
                        entry.queryDelta = BuildQueryDelta(QueryOf(q, r), q[i].query)
<1> DEFINE entry == BuildCompactRoundLedger(CompactForWorkflow(q))[r][t]
           shows(i) == [key \in (DOMAIN Payload(q, i) \cap KeptKeys(t)) \cap ReadKeys(t) |->
                           Payload(q, i)[key]]
<1>1. PICK i \in DOMAIN q : /\ q[i].round = r /\ q[i].type = t
                            /\ entry = shows(i)
  <2> DEFINE told == BuildCompactRoundLedger(CompactForWorkflow(q))
  <2>1. \A s \in DOMAIN told : \A u \in DOMAIN told[s] :
           \E i \in DOMAIN q :
              /\ q[i].round = s /\ q[i].type = u
              /\ told[s][u] =
                    [key \in (DOMAIN Payload(q, i) \cap KeptKeys(u)) \cap ReadKeys(u) |->
                        Payload(q, i)[key]]
    BY LedgerTold, Zenon
  <2> HIDE DEF told
  <2>2. r \in DOMAIN told /\ t \in DOMAIN told[r]
    BY DEF told
  <2>. QED
    BY <2>1, <2>2, Zenon DEF told
<1> HIDE DEF entry
<1>2. CASE t = "search"
  <2>1. Payload(q, i) = [roundQuery |-> q[i].query, upstreamResponse |-> "bulk",
                         trace |-> "bulk"]
    BY <1>1, <1>2 DEF Payload
  <2>2. KeptKeys(t) = {"roundQuery"} /\ ReadKeys(t) = {"roundQuery"}
    BY <1>2 DEF KeptKeys, ReadKeys
  <2>3. entry.roundQuery = q[i].query
    BY <1>1, <2>1, <2>2
  <2>. QED
    BY <1>1, <1>2, <2>3 DEF entry
<1>3. CASE t = "analysis"
  <2>1. Payload(q, i) = [analyses |-> q[i].entries, trace |-> "bulk"]
    BY <1>1, <1>3 DEF Payload
  <2>2. KeptKeys(t) = {"analyses"} /\ ReadKeys(t) = {"analyses"}
    BY <1>3 DEF KeptKeys, ReadKeys
  <2>3. entry.analyses = q[i].entries
    BY <1>1, <2>1, <2>2
  <2>. QED
    BY <1>1, <1>3, <2>3 DEF entry
<1>4. CASE t = "shortlist"
  <2>1. Payload(q, i) = [retainedCandidates |-> q[i].entries, trace |-> "bulk"]
    BY <1>1, <1>4 DEF Payload
  <2>2. KeptKeys(t) = {"retainedCandidates"} /\ ReadKeys(t) = {"retainedCandidates"}
    BY <1>4 DEF KeptKeys, ReadKeys
  <2>3. entry.retainedCandidates = q[i].entries
    BY <1>1, <2>1, <2>2
  <2>. QED
    BY <1>1, <1>4, <2>3 DEF entry
<1>5. CASE t = "reflection"
  <2> DEFINE delta == BuildQueryDelta(QueryOf(q, r), q[i].query)
  <2>1. Payload(q, i) = [nextRoundQuery |-> q[i].query, queryDelta |-> delta,
                         promptText |-> "bulk", trace |-> "bulk"]
    BY <1>1, <1>5 DEF Payload
  <2>2. KeptKeys(t) = {"nextRoundQuery", "queryDelta"} /\ ReadKeys(t) = {"queryDelta"}
    BY <1>5 DEF KeptKeys, ReadKeys
  <2> HIDE DEF delta
  <2>3. entry.queryDelta = delta
    BY <1>1, <2>1, <2>2
  <2>. QED
    BY <1>1, <1>5, <2>3 DEF entry, delta
<1>6. CASE t \notin {"search", "analysis", "shortlist", "reflection"}
  BY <1>1, <1>6
<1>. QED
  BY <1>2, <1>3, <1>4, <1>5, <1>6

\* A delta tells of a query what it takes to make the next one of it.
LEMMA DeltaTells ==
    ASSUME NEW previous, NEW next
    PROVE  Changed(previous, BuildQueryDelta(previous, next)) = Content(next)
BY DEF Changed, BuildQueryDelta, Content

LEMMA ToldInvImplies ==
    ASSUME LedgerInv, StageInv, ToldInv
    PROVE  ReflectorSeesRun
<1> SUFFICES ASSUME pc = "judge"
             PROVE  ReflectorSeesRun
  BY DEF ReflectorSeesRun
<1> DEFINE told == BuildCompactRoundLedger(CompactForWorkflow(steps))
           kinds(r) == {"search", "dedupe", "analysis", "shortlist"}
                       \cup (IF r < currentRound THEN {"reflection"} ELSE {})
           delta(r, i) == BuildQueryDelta(QueryOf(steps, r), steps[i].query)
           analysed(r) == Loop!IdsOf(told[r]["analysis"].analyses)
<1>1. IsSequence(steps) /\ currentRound \in Nat \ {0}
  BY ConfigAssumption DEF LedgerInv, StageInv, ToldInv, InRounds
<1>2. /\ OneOfEach(Recordings, KindsSoFar) /\ QueriesLinked(Recordings, currentRound, strategy)
      /\ seen = AnalysedIn(Recordings) /\ AnalysedApart(Recordings)
      /\ \A e \in Recordings :
            e.type = "shortlist" /\ e.round = currentRound => e.entries = finalShortlist
  BY DEF ToldInv, InRounds, SeenInv, QueryRound
<1>3. /\ \A e \in Recordings : e.round \in 0..currentRound
      /\ \A r \in 1..currentRound, t \in ShownTypes :
            t \in kinds(r) <=> \E e \in Recordings : e.round = r /\ e.type = t
      /\ ~ \E e \in Recordings : e.round = 0 /\ e.type \in ShownTypes
  <2>1. /\ DOMAIN KindsSoFar = 0..currentRound /\ KindsSoFar[0] = {}
        /\ \A r \in 1..currentRound : KindsSoFar[r] = kinds(r)
    BY <1>1 DEF KindsSoFar, KindsHere, QueryRound, RoundKinds
  <2>2. 0 \in 0..currentRound /\ \A r \in 1..currentRound : r \in 0..currentRound
    BY <1>1
  <2> HIDE DEF kinds
  <2>. QED
    BY <1>2, <2>1, <2>2 DEF OneOfEach
<1>4. /\ \A i \in DOMAIN steps : steps[i] \in Recordings
      /\ \A e \in Recordings : \E i \in DOMAIN steps : e = steps[i]
  BY DEF Recordings
<1>5. /\ DOMAIN told = {steps[i].round : i \in DOMAIN steps} \ {0}
      /\ \A r \in DOMAIN told :
            DOMAIN told[r] = {t \in ShownTypes :
                                 \E i \in DOMAIN steps :
                                    steps[i].round = r /\ steps[i].type = t}
  BY <1>1, LedgerTold, Zenon
<1>6. ASSUME NEW r \in DOMAIN told, NEW t \in DOMAIN told[r]
      PROVE  \E i \in DOMAIN steps :
                /\ steps[i].round = r /\ steps[i].type = t
                /\ t = "search" => told[r][t].roundQuery = steps[i].query
                /\ t = "analysis" => told[r][t].analyses = steps[i].entries
                /\ t = "shortlist" => told[r][t].retainedCandidates = steps[i].entries
                /\ t = "reflection" => told[r][t].queryDelta = delta(r, i)
  BY <1>1, EntryTold
<1> HIDE DEF told
<1>7. DOMAIN told = 1..currentRound
  <2>1. ASSUME NEW r \in 1..currentRound
        PROVE  r \in DOMAIN told
    <3>1. "search" \in kinds(r) /\ "search" \in ShownTypes
      BY DEF ShownTypes
    <3> HIDE DEF kinds
    <3>2. PICK e \in Recordings : e.round = r
      BY <1>3, <3>1
    <3>. QED
      BY <1>1, <1>4, <1>5, <3>2
  <2>2. ASSUME NEW r \in DOMAIN told
        PROVE  r \in 1..currentRound
    BY <1>1, <1>3, <1>4, <1>5
  <2>. QED
    BY <2>1, <2>2
<1>8. ASSUME NEW r \in 1..currentRound
      PROVE  DOMAIN told[r] = kinds(r)
  <2>1. kinds(r) \subseteq ShownTypes
    BY DEF ShownTypes
  <2> HIDE DEF kinds
  <2>2. DOMAIN told[r] = {t \in ShownTypes :
                             \E i \in DOMAIN steps : steps[i].round = r /\ steps[i].type = t}
    BY <1>5, <1>7
  <2>3. \A t \in ShownTypes :
           t \in kinds(r) <=> \E i \in DOMAIN steps : steps[i].round = r /\ steps[i].type = t
    BY <1>3, <1>4
  <2>. QED
    BY <2>1, <2>2, <2>3
<1>9. ASSUME NEW r \in 1..currentRound, NEW i \in DOMAIN steps, steps[i].round = r
      PROVE  /\ steps[i].type = "search" => told[r]["search"].roundQuery = steps[i].query
             /\ steps[i].type = "analysis" => told[r]["analysis"].analyses = steps[i].entries
             /\ steps[i].type = "shortlist" =>
                   told[r]["shortlist"].retainedCandidates = steps[i].entries
             /\ steps[i].type = "reflection" => told[r]["reflection"].queryDelta = delta(r, i)
  <2>1. SUFFICES ASSUME NEW t \in {"search", "analysis", "shortlist", "reflection"},
                        steps[i].type = t
                 PROVE  /\ t = "search" => told[r][t].roundQuery = steps[i].query
                        /\ t = "analysis" => told[r][t].analyses = steps[i].entries
                        /\ t = "shortlist" => told[r][t].retainedCandidates = steps[i].entries
                        /\ t = "reflection" => told[r][t].queryDelta = delta(r, i)
    <3> HIDE DEF delta
    <3>. QED
      OBVIOUS
  <2>2. t \in DOMAIN told[r]
    BY <1>5, <1>7, <1>9, <2>1 DEF ShownTypes
  <2>3. PICK j \in DOMAIN steps :
            /\ steps[j].round = r /\ steps[j].type = t
            /\ t = "search" => told[r][t].roundQuery = steps[j].query
            /\ t = "analysis" => told[r][t].analyses = steps[j].entries
            /\ t = "shortlist" => told[r][t].retainedCandidates = steps[j].entries
            /\ t = "reflection" => told[r][t].queryDelta = delta(r, j)
    BY <1>6, <1>7, <2>2, Zenon
  <2>4. steps[i].query = steps[j].query /\ steps[i].entries = steps[j].entries
    BY <1>2, <1>4, <1>9, <2>1, <2>3 DEF OneOfEach
  <2>. QED
    BY <2>3, <2>4, Zenon
<1>10. ASSUME NEW r \in 1..currentRound, NEW t \in kinds(r)
       PROVE  \E i \in DOMAIN steps : steps[i].round = r /\ steps[i].type = t
  <2>1. t \in ShownTypes
    BY DEF ShownTypes
  <2> HIDE DEF kinds
  <2>. QED
    BY <1>3, <1>4, <2>1
<1> HIDE DEF delta
<1>11. /\ told[currentRound]["search"].roundQuery = strategy
       /\ told[currentRound]["shortlist"].retainedCandidates = finalShortlist
  <2>1. currentRound \in 1..currentRound
    BY <1>1
  <2>2. PICK i \in DOMAIN steps : steps[i].round = currentRound /\ steps[i].type = "search"
    BY <1>10, <2>1
  <2>3. PICK j \in DOMAIN steps : steps[j].round = currentRound /\ steps[j].type = "shortlist"
    BY <1>10, <2>1
  <2>4. steps[i].query = strategy /\ steps[j].entries = finalShortlist
    BY <1>2, <1>4, <2>2, <2>3 DEF QueriesLinked
  <2>. QED
    BY <1>9, <2>1, <2>2, <2>3, <2>4
<1>12. ASSUME NEW r \in 1..(currentRound - 1)
       PROVE  Content(told[r + 1]["search"].roundQuery)
              = Changed(told[r]["search"].roundQuery, told[r]["reflection"].queryDelta)
  <2>1. r \in 1..currentRound /\ r + 1 \in 1..currentRound /\ r < currentRound
    BY <1>1
  <2>2. PICK i \in DOMAIN steps : steps[i].round = r /\ steps[i].type = "search"
    BY <1>10, <2>1
  <2>3. PICK j \in DOMAIN steps : steps[j].round = r /\ steps[j].type = "reflection"
    BY <1>10, <2>1
  <2>4. PICK k \in DOMAIN steps : steps[k].round = r + 1 /\ steps[k].type = "search"
    BY <1>10, <2>1
  <2>5. steps[k].query = steps[j].query
    BY <1>2, <1>4, <2>3, <2>4 DEF QueriesLinked
  <2>6. QueryOf(steps, r) = steps[i].query
    <3> DEFINE c == CHOOSE c \in Copies(steps, r, "search") : TRUE
    <3>1. i \in Copies(steps, r, "search")
      BY <2>2 DEF Copies
    <3>2. c \in Copies(steps, r, "search")
      BY <3>1
    <3>3. c \in DOMAIN steps /\ steps[c].round = r /\ steps[c].type = "search"
      BY <3>2 DEF Copies
    <3> HIDE DEF c
    <3>4. steps[c].query = steps[i].query
      BY <1>2, <1>4, <2>2, <3>3 DEF OneOfEach
    <3>. QED
      BY <3>4 DEF QueryOf, c
  <2>7. /\ told[r + 1]["search"].roundQuery = steps[j].query
        /\ told[r]["search"].roundQuery = steps[i].query
        /\ told[r]["reflection"].queryDelta = delta(r, j)
    BY <1>9, <2>1, <2>2, <2>3, <2>4, <2>5
  <2>8. delta(r, j) = BuildQueryDelta(steps[i].query, steps[j].query)
    BY <2>6 DEF delta
  <2>. QED
    BY <2>7, <2>8, DeltaTells
<1>13. ASSUME NEW r \in 1..currentRound
       PROVE  \E e \in Recordings :
                 e.round = r /\ e.type = "analysis" /\ analysed(r) = Loop!IdsOf(e.entries)
  <2>1. PICK i \in DOMAIN steps : steps[i].round = r /\ steps[i].type = "analysis"
    BY <1>10
  <2>. QED
    BY <1>4, <1>9, <2>1
<1>14. ASSUME NEW e \in Recordings, e.type = "analysis"
       PROVE  e.round \in 1..currentRound /\ Loop!IdsOf(e.entries) = analysed(e.round)
  <2>1. e.round \in 1..currentRound
    BY <1>1, <1>3, <1>14 DEF ShownTypes
  <2>. QED
    BY <1>4, <1>9, <1>14, <2>1
<1> HIDE DEF analysed
<1>15. seen = UNION {analysed(r) : r \in 1..currentRound}
  <2>1. ASSUME NEW x \in seen
        PROVE  \E r \in 1..currentRound : x \in analysed(r)
    BY <1>2, <1>14 DEF AnalysedIn
  <2>2. ASSUME NEW r \in 1..currentRound, NEW x \in analysed(r)
        PROVE  x \in seen
    BY <1>2, <1>13 DEF AnalysedIn
  <2>. QED
    BY <2>1, <2>2
<1>16. \A r, s \in 1..currentRound : r # s => analysed(r) \cap analysed(s) = {}
  BY <1>2, <1>13 DEF AnalysedApart
<1>. QED
  BY <1>7, <1>8, <1>11, <1>12, <1>15, <1>16, Zenon DEF ReflectorSeesRun, told, analysed

\* The reflector is told the run as it was, for any catalogue, texts, schedule and faults:
\* compaction drops nothing it reads, and a copy that a repeated patch leaves adds nothing
\* and hides nothing.
THEOREM ReflectorAlwaysSeesRun == Spec => []ReflectorSeesRun
<1> DEFINE Inv == EndedInv /\ LedgerInv /\ StageInv /\ ToldInv
<1>1. Init => Inv
  BY InitOutcome, InitStage, InitTold DEF OutcomeInv
<1>2. Inv /\ [Next]_vars => Inv'
  BY NextLedger, NextStage, NextTold
<1>3. Inv => ReflectorSeesRun
  BY ToldInvImplies
<1>. QED
  BY <1>1, <1>2, <1>3, PTL DEF Spec
=============================================================================
