------------------------- MODULE CaseRecordsProofs -------------------------
(***************************************************************************)
(* What requests on a case keep, for any number of them, of versions and   *)
(* of attempts to persist a candidate: one run per key, an active version, *)
(* one candidate with its detail; and the verdicts, exports and versions   *)
(* of the case.                                                            *)
(*                                                                         *)
(* The worker writes the verdict back, and cannot do harm as long as no    *)
(* two attempts have overlapped: while one is under way its run shows      *)
(* nothing yet, and only a candidate that is shown can be judged.          *)
(* A version is numbered by a count that is taken when its request begins, *)
(* and which nobody spoils as long as no other request is under way.       *)
(***************************************************************************)
EXTENDS CaseIntake, FiniteSetTheorems, TLAPS

AtMostOne(S) == \A x, y \in S : x = y

\* A set without two different elements has at most one.
LEMMA AtMostOneCardinality ==
    ASSUME NEW S, AtMostOne(S)
    PROVE  Cardinality(S) <= 1
<1>1. CASE S = {}
  BY <1>1, FS_EmptySet
<1>2. CASE S # {}
  <2>1. PICK x \in S : TRUE
    BY <1>2
  <2>2. S = {x}
    BY <2>1 DEF AtMostOne
  <2>3. Cardinality({x}) = 1
    BY FS_Singleton
  <2>. QED
    BY <2>2, <2>3
<1>. QED
  BY <1>1, <1>2

-----------------------------------------------------------------------------
(* A step is one thread's, and a thread that is done stays so. *)

ThreadsAreFunction == thread = [q \in Threads |-> thread[q]]

Moves(q) == thread[q] # Done /\ \E t : thread' = [thread EXCEPT ![q] = t]

\* Only a thread that is done has the phase "done".
LEMMA DoneIsDone ==
    /\ Idle # Done
    /\ \A q : thread[q].phase # "done" => thread[q] # Done
BY DEF Idle, Done

\* Requests of CaseRecords move their own thread.
LEMMA RequestMoves ==
    ASSUME NEW q \in Requests, RequestStep(q)
    PROVE  Moves(q)
<1>1. CASE BeginVersion(q) \/ StartDeactivation(q) \/ Deactivate(q) \/ CommitVersion(q)
  BY <1>1, DoneIsDone DEF BeginVersion, StartDeactivation, Deactivate, CommitVersion, Moves
<1>2. CASE ReadCandidate(q) \/ SaveCandidate(q) \/ CommitVerdict(q)
  BY <1>2, DoneIsDone DEF ReadCandidate, SaveCandidate, CommitVerdict, Moves
<1>3. CASE FindJob(q) \/ InsertJob(q) \/ ListCandidates(q)
  BY <1>3, DoneIsDone DEF FindJob, InsertJob, ListCandidates, Moves
<1>4. CASE WriteFile(q) \/ WriteFails(q) \/ CommitJob(q)
  BY <1>4, DoneIsDone DEF WriteFile, WriteFails, CommitJob, Moves
<1>. QED
  BY <1>1, <1>2, <1>3, <1>4 DEF RequestStep

\* So do the threads of CaseIntake, and an aborted one.
LEMMA IntakeMoves ==
    ASSUME NEW q
    PROVE  /\ FindRun(q) \/ CommitRun(q) => Moves(q)
           /\ BeginUpsert(q) \/ FindSnapshot(q) \/ SaveUpsert(q) \/ CommitUpsert(q) => Moves(q)
           /\ Abort(q) => Moves(q)
<1>1. FindRun(q) \/ CommitRun(q) => Moves(q)
  BY DoneIsDone DEF FindRun, CommitRun, Moves
<1>2. BeginUpsert(q) \/ FindSnapshot(q) => Moves(q)
  BY DoneIsDone DEF BeginUpsert, FindSnapshot, Moves
<1>3. SaveUpsert(q) \/ CommitUpsert(q) => Moves(q)
  BY DoneIsDone DEF SaveUpsert, CommitUpsert, Moves
<1>4. Abort(q) => Moves(q)
  BY DoneIsDone DEF Abort, Busy, Moves
<1>. QED
  BY <1>1, <1>2, <1>3, <1>4

-----------------------------------------------------------------------------
(* Runs, cases and versions. *)

\* A version says who made it: a create request that made a run, or a version request
\* that is done.  So a request that commits is not the maker of an earlier version, which
\* it could deactivate while that is the newest.
CaseInv ==
    /\ ThreadsAreFunction
    /\ AtMostOne(runs)
    /\ \A q \in CreateRequests : q \in cases <=> q \in runs
    /\ \A q \in CreateRequests \cap runs : \E v \in versions : v.id = q /\ v.no = 1
    /\ \A v \in versions :
          /\ v = [id |-> v.id, no |-> v.no, active |-> v.active]
          /\ v.id \in CreateRequests => v.id \in runs /\ v.no = 1
          /\ v.id \in VersionRequests => thread[v.id] = Done
          /\ v.id \in newest => v.active
    /\ versions # {} => newest # {}

LEMMA InitCaseInv == Init => CaseInv
<1> SUFFICES ASSUME Init PROVE CaseInv
  OBVIOUS
<1>1. /\ ThreadsAreFunction
      /\ cases \subseteq {Earlier} /\ runs \subseteq {Earlier}
      /\ versions = {[id |-> q, no |-> 1, active |-> TRUE] : q \in runs}
      /\ newest = runs
  BY DEF Init, ThreadsAreFunction
<1>2. \A v \in versions : v.id \in runs /\ v.active /\ v.no = 1
                            /\ v = [id |-> v.id, no |-> v.no, active |-> v.active]
  BY <1>1
<1>3. Earlier \notin CreateRequests /\ Earlier \notin VersionRequests
  BY RequestsAssumption DEF Threads, Requests
<1>. QED
  BY <1>1, <1>2, <1>3 DEF CaseInv, AtMostOne

LEMMA CommitVersionCaseInv ==
    ASSUME CaseInv, NEW q \in VersionRequests, CommitVersion(q), UNCHANGED intakeVars
    PROVE  CaseInv'
<1> DEFINE new == [id |-> q, no |-> thread[q].no, active |-> TRUE]
<1> DEFINE Kept(v) == [v EXCEPT !.active = @ /\ v.id \notin thread[q].rows]
<1>1. /\ versions' = {Kept(v) : v \in versions} \cup {new}
      /\ newest' = {q} /\ cases' = cases /\ runs' = runs
      /\ thread' = [thread EXCEPT ![q] = Done]
      /\ thread[q].phase = "updated"
  BY DEF CommitVersion, intakeVars
<1>2. q \in Threads /\ q \notin CreateRequests
  BY RequestsAssumption DEF Threads, Requests
<1>3. \A v \in versions : v.id # q
  BY <1>1, DoneIsDone DEF CaseInv, Done
<1>4. \A v \in versions : /\ Kept(v).id = v.id /\ Kept(v).no = v.no
                          /\ Kept(v) = [id |-> Kept(v).id, no |-> Kept(v).no,
                                        active |-> Kept(v).active]
  BY DEF CaseInv
<1>5. /\ ThreadsAreFunction' /\ thread'[q] = Done
      /\ \A p \in Threads : thread[p] = Done => thread'[p] = Done
  BY <1>1, <1>2 DEF CaseInv, ThreadsAreFunction
<1>6. /\ new.id = q /\ new.active /\ new = [id |-> new.id, no |-> new.no, active |-> new.active]
  OBVIOUS
<1>7. VersionRequests \subseteq Threads
  BY DEF Threads, Requests
<1> HIDE DEF new, Kept
<1>8. \A v \in versions' :
          /\ v = [id |-> v.id, no |-> v.no, active |-> v.active]
          /\ v.id \in CreateRequests => v.id \in runs' /\ v.no = 1
          /\ v.id \in VersionRequests => thread'[v.id] = Done
          /\ v.id \in newest' => v.active
  <2> TAKE v \in versions'
  <2>1. CASE v = new
    BY <2>1, <1>1, <1>2, <1>5, <1>6
  <2>2. CASE \E w \in versions : v = Kept(w)
    <3>1. PICK w \in versions : v = Kept(w)
      BY <2>2
    <3>. QED
      BY <3>1, <1>1, <1>3, <1>4, <1>5, <1>7 DEF CaseInv
  <2>. QED
    BY <1>1, <2>1, <2>2
<1>9. \A p \in CreateRequests \cap runs' : \E v \in versions' : v.id = p /\ v.no = 1
  BY <1>1, <1>4 DEF CaseInv
<1>. QED
  BY <1>1, <1>5, <1>8, <1>9 DEF CaseInv

LEMMA CommitRunCaseInv ==
    ASSUME CaseInv, NEW q \in CreateRequests, CommitRun(q)
    PROVE  CaseInv'
<1>1. q \in Threads /\ VersionRequests \subseteq Threads /\ q \notin VersionRequests
  BY RequestsAssumption DEF Threads, Requests
<1>2. ThreadsAreFunction' /\ \A p \in Threads : thread[p] = Done => thread'[p] = Done
  BY <1>1 DEF CommitRun, CaseInv, ThreadsAreFunction
<1>3. CASE runs # {}
  BY <1>1, <1>2, <1>3 DEF CommitRun, CaseInv
<1>4. CASE runs = {}
  <2> DEFINE new == [id |-> q, no |-> 1, active |-> TRUE]
  <2>1. /\ versions' = versions \cup {new} /\ newest' = {q}
        /\ cases' = cases \cup {q} /\ runs' = {q}
    BY <1>4 DEF CommitRun, InsertRun
  <2>2. \A v \in versions : v.id # q
    BY <1>4 DEF CaseInv
  <2>3. new.id = q /\ new.no = 1 /\ new.active
        /\ new = [id |-> new.id, no |-> new.no, active |-> new.active]
    OBVIOUS
  <2> HIDE DEF new
  <2>. QED
    BY <1>1, <1>2, <1>4, <2>1, <2>2, <2>3 DEF CaseInv, AtMostOne
<1>. QED
  BY <1>3, <1>4

\* Whatever else moves a thread leaves cases and versions alone.
LEMMA OtherStepsCaseInv ==
    ASSUME CaseInv, UNCHANGED <<cases, runs, versions, newest>>,
           UNCHANGED thread \/ \E q \in Threads : Moves(q)
    PROVE  CaseInv'
<1>1. VersionRequests \subseteq Threads
  BY DEF Threads, Requests
<1>2. ThreadsAreFunction' /\ \A p \in Threads : thread[p] = Done => thread'[p] = Done
  BY DEF CaseInv, ThreadsAreFunction, Moves
<1>. QED
  BY <1>1, <1>2 DEF CaseInv

LEMMA NextCaseInv == CaseInv /\ [Next]_vars => CaseInv'
<1> SUFFICES ASSUME CaseInv, [Next]_vars PROVE CaseInv'
  OBVIOUS
<1>1. ASSUME NEW q \in Requests, RequestStep(q), UNCHANGED intakeVars PROVE CaseInv'
  <2>1. CASE q \in VersionRequests /\ CommitVersion(q)
    BY <1>1, <2>1, CommitVersionCaseInv
  <2>2. CASE ~(q \in VersionRequests /\ CommitVersion(q))
    <3>1. UNCHANGED <<versions, newest>>
      <4>1. CASE BeginVersion(q) \/ StartDeactivation(q) \/ Deactivate(q)
        BY <4>1 DEF BeginVersion, StartDeactivation, Deactivate
      <4>2. CASE ReadCandidate(q) \/ SaveCandidate(q) \/ CommitVerdict(q)
        BY <4>2 DEF ReadCandidate, SaveCandidate, CommitVerdict
      <4>3. CASE FindJob(q) \/ InsertJob(q) \/ ListCandidates(q)
        BY <4>3 DEF FindJob, InsertJob, ListCandidates
      <4>4. CASE WriteFile(q) \/ WriteFails(q) \/ CommitJob(q)
        BY <4>4 DEF WriteFile, WriteFails, CommitJob
      <4>. QED
        BY <1>1, <2>2, <4>1, <4>2, <4>3, <4>4 DEF RequestStep
    <3>. QED
      BY <1>1, <3>1, RequestMoves, OtherStepsCaseInv DEF Threads, intakeVars
  <2>. QED
    BY <2>1, <2>2
<1>2. ASSUME NEW q \in CreateRequests, FindRun(q) PROVE CaseInv'
  <2>1. UNCHANGED <<cases, runs, versions, newest>> /\ q \in Threads
    BY <1>2 DEF FindRun, intakeVars, Threads
  <2>. QED
    BY <1>2, <2>1, IntakeMoves, OtherStepsCaseInv
<1>3. ASSUME NEW q \in CreateRequests, CommitRun(q) PROVE CaseInv'
  BY <1>3, CommitRunCaseInv
<1>4. ASSUME NEW a \in PersistAttempts,
             BeginUpsert(a) \/ FindSnapshot(a) \/ SaveUpsert(a) \/ CommitUpsert(a)
      PROVE  CaseInv'
  <2>1. UNCHANGED <<cases, runs, versions, newest>> /\ a \in Threads
    BY <1>4 DEF BeginUpsert, FindSnapshot, SaveUpsert, CommitUpsert, intakeVars, Threads
  <2>. QED
    BY <1>4, <2>1, IntakeMoves, OtherStepsCaseInv
<1>5. ASSUME SaveAnalyses \/ UNCHANGED vars PROVE CaseInv'
  BY <1>5, OtherStepsCaseInv DEF SaveAnalyses, vars, recordVars, intakeVars
<1>6. ASSUME NEW q \in Threads, Abort(q), UNCHANGED intakeVars PROVE CaseInv'
  <2>1. UNCHANGED <<cases, runs, versions, newest>>
    BY <1>6 DEF Abort, intakeVars
  <2>. QED
    BY <1>6, <2>1, IntakeMoves, OtherStepsCaseInv
<1>. QED
  BY <1>1, <1>2, <1>3, <1>4, <1>5, <1>6 DEF Next

LEMMA CaseInvImplies == CaseInv => OneRunPerKey /\ NewestVersionIsActive
BY AtMostOneCardinality DEF CaseInv, OneRunPerKey, NewestVersionIsActive

\* Any number of create requests with one key make one run, with one case and one version,
\* or none.
THEOREM OneRunAlways == Spec => []OneRunPerKey
<1>. QED
  BY InitCaseInv, NextCaseInv, CaseInvImplies, PTL DEF Spec

\* However many requests for versions overlap, a case that has a version has an active
\* one, the one committed last among them.
THEOREM NewestAlwaysActive == Spec => []NewestVersionIsActive
<1>. QED
  BY InitCaseInv, NextCaseInv, CaseInvImplies, PTL DEF Spec

-----------------------------------------------------------------------------
(* Candidates and snapshots. *)

\* Only the thread that moves has something else in hand afterwards.
LEMMA OthersStay ==
    ASSUME ThreadsAreFunction, NEW q \in Threads, Moves(q)
    PROVE  ThreadsAreFunction' /\ \A p \in Threads \ {q} : thread'[p] = thread[p]
BY DEF ThreadsAreFunction, Moves

Pair(c, s) ==
    candidates = {[id |-> c, snapshot |-> s]} /\ snapshots = {[id |-> s, candidate |-> c]}

InHand(a) ==
    /\ thread[a].phase = "found" => thread[a].row \in {{}, candidates}
    /\ thread[a].phase = "compared" =>
          \/ thread[a].row = {} /\ thread[a].snapshot = {}
          \/ /\ candidates # {}
             /\ thread[a].row = candidates /\ thread[a].snapshot = snapshots
    /\ thread[a].phase = "upserted" =>
          \/ thread[a].candidate = a /\ thread[a].snapshot = a
          \/ Pair(thread[a].candidate, thread[a].snapshot)

\* The first attempt that commits leaves a candidate with its snapshot, and nothing
\* changes them again: an attempt that found them writes what is there, one that did not
\* may not insert.
UpsertInv ==
    /\ ThreadsAreFunction
    /\ \/ candidates = {} /\ snapshots = {}
       \/ \E c, s : Pair(c, s)
    /\ \/ refs = {}
       \/ \E c, s : Pair(c, s) /\ refs = {[candidate |-> c, snapshot |-> s]}
    /\ \A s \in analyses : \E r \in refs : r.snapshot = s
    /\ \A a \in PersistAttempts : InHand(a)

LEMMA InitUpsertInv == Init => UpsertInv
<1> SUFFICES ASSUME Init PROVE UpsertInv
  OBVIOUS
<1>1. ThreadsAreFunction /\ analyses = {}
      /\ \A q \in Threads : thread[q] \in {Idle, Done}
  BY DEF Init, ThreadsAreFunction
<1>2. \A a \in PersistAttempts : InHand(a)
  BY <1>1 DEF InHand, Idle, Done, Threads
<1>3. runs \in {{}, {Earlier}}
      /\ candidates = {[id |-> q, snapshot |-> q] : q \in runs}
      /\ snapshots = {[id |-> q, candidate |-> q] : q \in runs}
      /\ refs = {[candidate |-> q, snapshot |-> q] : q \in runs}
  BY DEF Init
<1>4. CASE runs = {}
  <2>1. candidates = {} /\ snapshots = {} /\ refs = {}
    BY <1>3, <1>4
  <2>. QED
    BY <1>1, <1>2, <2>1 DEF UpsertInv
<1>5. CASE runs = {Earlier}
  <2>1. Pair(Earlier, Earlier) /\ refs = {[candidate |-> Earlier, snapshot |-> Earlier]}
    BY <1>3, <1>5 DEF Pair
  <2>. QED
    BY <1>1, <1>2, <2>1 DEF UpsertInv
<1>. QED
  BY <1>3, <1>4, <1>5

\* There is one such pair at most.
LEMMA PairIsOne ==
    ASSUME NEW c, NEW s, NEW d, NEW t, Pair(c, s), Pair(d, t)
    PROVE  c = d /\ s = t
<1>1. [id |-> c, snapshot |-> s] \in {[id |-> d, snapshot |-> t]}
  BY DEF Pair
<1>2. [id |-> c, snapshot |-> s] = [id |-> d, snapshot |-> t]
  BY <1>1
<1>. QED
  BY <1>2

\* A step that leaves the rows alone, and the hands of the attempts unless they are true.
LEMMA OtherStepsUpsertInv ==
    ASSUME UpsertInv, UNCHANGED <<candidates, snapshots, analyses, refs>>,
           NEW q \in Threads, Moves(q), q \in PersistAttempts => InHand(q)'
    PROVE  UpsertInv'
<1>1. ThreadsAreFunction' /\ \A p \in Threads \ {q} : thread'[p] = thread[p]
  BY OthersStay DEF UpsertInv
<1>2. \A a \in PersistAttempts \ {q} : InHand(a)'
  BY <1>1 DEF UpsertInv, InHand, Pair, Threads
<1>. QED
  BY <1>1, <1>2 DEF UpsertInv, Pair

LEMMA CommitUpsertInv ==
    ASSUME UpsertInv, NEW a \in PersistAttempts, CommitUpsert(a)
    PROVE  UpsertInv'
<1>1. a \in Threads /\ Moves(a) /\ PersistAttempts \subseteq Threads
  BY IntakeMoves DEF Threads
<1>2. ThreadsAreFunction' /\ \A p \in Threads \ {a} : thread'[p] = thread[p]
  BY <1>1, OthersStay DEF UpsertInv
<1>3. thread[a].phase = "upserted" /\ thread'[a].phase = "done" /\ analyses' = analyses
  BY <1>1 DEF CommitUpsert, UpsertInv, ThreadsAreFunction, Done
<1>4. CASE UNCHANGED <<candidates, snapshots, refs>>
  <2>1. InHand(a)'
    BY <1>3 DEF InHand
  <2>. QED
    BY <1>1, <1>3, <1>4, <2>1, OtherStepsUpsertInv
<1>5. CASE UpsertAllowed(a) /\ WriteUpsert(a)
  <2>0. PICK c, s : c = thread[a].candidate /\ s = thread[a].snapshot
    OBVIOUS
  <2>1. /\ candidates' = {d \in candidates : d.id # c} \cup {[id |-> c, snapshot |-> s]}
        /\ snapshots' = snapshots \cup {[id |-> s, candidate |-> c]}
        /\ \/ refs' = refs
           \/ refs = {} /\ refs' = {[candidate |-> c, snapshot |-> s]}
    BY <1>5, <2>0 DEF WriteUpsert
  <2>2. CASE Pair(c, s)
    <3>1. candidates' = candidates /\ snapshots' = snapshots
      BY <2>1, <2>2 DEF Pair
    <3>2. refs = {} \/ refs = {[candidate |-> c, snapshot |-> s]}
      BY <2>2, PairIsOne DEF UpsertInv
    <3>3. Pair(c, s)'
      BY <2>2, <3>1 DEF Pair
    <3>4. \A b \in PersistAttempts : InHand(b)'
      <4>1. \A b \in PersistAttempts \ {a} : InHand(b)'
        BY <1>1, <1>2, <3>1 DEF UpsertInv, InHand, Pair
      <4>. QED
        BY <1>3, <4>1 DEF InHand
    <3>5. \A t \in analyses' : \E r \in refs' : r.snapshot = t
      BY <1>3, <2>1 DEF UpsertInv
    <3>6. refs' = {} \/ refs' = {[candidate |-> c, snapshot |-> s]}
      BY <2>1, <3>2
    <3>. QED
      BY <1>2, <3>3, <3>4, <3>5, <3>6 DEF UpsertInv
  <2>3. CASE c = a /\ s = a /\ ~Pair(c, s)
    <3>1. candidates = {} /\ snapshots = {} /\ refs = {} /\ analyses = {}
      <4>1. candidates = {}
        BY <1>5, <2>0, <2>3 DEF UpsertAllowed
      <4>2. \A d, t : ~Pair(d, t)
        BY <4>1 DEF Pair
      <4>. QED
        BY <4>1, <4>2 DEF UpsertInv
    <3>2. Pair(c, s)'
      <4>1. /\ candidates' = {[id |-> c, snapshot |-> s]}
            /\ snapshots' = {[id |-> s, candidate |-> c]}
        BY <2>1, <3>1
      <4>. QED
        BY <4>1 DEF Pair
    <3>3. \A b \in PersistAttempts : InHand(b)'
      <4>1. \A b \in PersistAttempts \ {a} : ~Pair(thread[b].candidate, thread[b].snapshot)
        BY <3>1 DEF Pair
      <4>2. \A b \in PersistAttempts \ {a} : InHand(b)'
        BY <1>1, <1>2, <3>1, <4>1 DEF UpsertInv, InHand
      <4>. QED
        BY <1>3, <4>2 DEF InHand
    <3>4. refs' = {} \/ refs' = {[candidate |-> c, snapshot |-> s]}
      BY <2>1, <3>1
    <3>. QED
      BY <1>2, <1>3, <3>1, <3>2, <3>3, <3>4 DEF UpsertInv
  <2>. QED
    BY <1>3, <2>0, <2>2, <2>3 DEF UpsertInv, InHand
<1>. QED
  BY <1>4, <1>5 DEF CommitUpsert

LEMMA NextUpsertInv == UpsertInv /\ [Next]_vars => UpsertInv'
<1> SUFFICES ASSUME UpsertInv, [Next]_vars PROVE UpsertInv'
  OBVIOUS
<1> USE DEF intakeVars
<1>0. /\ PersistAttempts \subseteq Threads /\ Requests \subseteq Threads
      /\ CreateRequests \subseteq Threads
      /\ \A q \in Requests \cup CreateRequests : q \notin PersistAttempts
  BY RequestsAssumption DEF Threads
<1>1. ASSUME NEW q \in Requests, RequestStep(q), UNCHANGED intakeVars PROVE UpsertInv'
  BY <1>0, <1>1, RequestMoves, OtherStepsUpsertInv
<1>2. ASSUME NEW q \in CreateRequests, FindRun(q) \/ CommitRun(q) PROVE UpsertInv'
  <2>1. UNCHANGED <<candidates, snapshots, analyses, refs>>
    BY <1>2 DEF FindRun, CommitRun
  <2>. QED
    BY <1>0, <1>2, <2>1, IntakeMoves, OtherStepsUpsertInv
<1>3. ASSUME NEW a \in PersistAttempts, BeginUpsert(a) PROVE UpsertInv'
  <2>1. InHand(a)'
    BY <1>0, <1>3 DEF BeginUpsert, InHand, UpsertInv, ThreadsAreFunction
  <2>2. UNCHANGED <<candidates, snapshots, analyses, refs>>
    BY <1>3 DEF BeginUpsert
  <2>. QED
    BY <1>0, <1>3, <2>1, <2>2, IntakeMoves, OtherStepsUpsertInv
<1>4. ASSUME NEW a \in PersistAttempts, FindSnapshot(a) PROVE UpsertInv'
  <2>1. UNCHANGED <<candidates, snapshots, analyses, refs>>
    BY <1>4 DEF FindSnapshot
  <2>2. thread'[a].phase = "compared" /\ thread'[a].row = thread[a].row
        /\ thread'[a].snapshot =
              {s \in snapshots : \E c \in thread[a].row : s.candidate = c.id}
    BY <1>0, <1>4 DEF FindSnapshot, UpsertInv, ThreadsAreFunction
  <2>3. thread[a].row \in {{}, candidates}
    BY <1>4 DEF FindSnapshot, UpsertInv, InHand
  <2>4. CASE thread[a].row = {}
    <3>1. thread'[a].row = {} /\ thread'[a].snapshot = {}
      BY <2>2, <2>4
    <3>2. InHand(a)'
      BY <2>2, <3>1 DEF InHand
    <3>. QED
      BY <1>0, <1>4, <2>1, <3>2, IntakeMoves, OtherStepsUpsertInv
  <2>5. CASE thread[a].row = candidates /\ candidates # {}
    <3>1. PICK c, s : Pair(c, s)
      BY <2>5 DEF UpsertInv
    <3>2. thread'[a].snapshot = snapshots
      BY <2>2, <2>5, <3>1 DEF Pair
    <3>3. InHand(a)'
      BY <2>1, <2>2, <2>5, <3>2 DEF InHand
    <3>. QED
      BY <1>0, <1>4, <2>1, <3>3, IntakeMoves, OtherStepsUpsertInv
  <2>. QED
    BY <2>3, <2>4, <2>5
<1>5. ASSUME NEW a \in PersistAttempts, SaveUpsert(a) PROVE UpsertInv'
  <2> DEFINE c0 == CHOOSE c \in thread[a].row : TRUE
             s0 == CHOOSE s \in thread[a].snapshot : TRUE
  <2>1. UNCHANGED <<candidates, snapshots, analyses, refs>> /\ thread[a].phase = "compared"
    BY <1>5 DEF SaveUpsert
  <2>2. /\ thread'[a].phase = "upserted"
        /\ thread'[a].candidate = IF thread[a].row = {} THEN a
                                  ELSE c0.id
        /\ thread'[a].snapshot = IF thread[a].snapshot = {} THEN a
                                 ELSE s0.id
    BY <1>0, <1>5 DEF SaveUpsert, UpsertInv, ThreadsAreFunction
  <2>3. /\ thread[a].row # {} => c0 \in thread[a].row
        /\ thread[a].snapshot # {} => s0 \in thread[a].snapshot
    OBVIOUS
  <2> HIDE DEF c0, s0
  <2>4. CASE thread[a].row = {} /\ thread[a].snapshot = {}
    <3>1. InHand(a)'
      BY <2>2, <2>4 DEF InHand
    <3>. QED
      BY <1>0, <1>5, <2>1, <3>1, IntakeMoves, OtherStepsUpsertInv
  <2>5. CASE candidates # {} /\ thread[a].row = candidates /\ thread[a].snapshot = snapshots
    <3>1. PICK c, s : Pair(c, s)
      BY <2>5 DEF UpsertInv
    <3>2. thread'[a].candidate = c
      <4>1. thread[a].row # {} /\ c0 \in thread[a].row
        BY <2>5, <2>3
      <4>2. c0 = [id |-> c, snapshot |-> s]
        BY <2>5, <3>1, <4>1 DEF Pair
      <4>. QED
        BY <2>2, <4>1, <4>2
    <3>3. thread'[a].snapshot = s
      <4>1. thread[a].snapshot # {}
            /\ s0 \in thread[a].snapshot
        BY <2>5, <2>3, <3>1 DEF Pair
      <4>2. s0 = [id |-> s, candidate |-> c]
        BY <2>5, <3>1, <4>1 DEF Pair
      <4>. QED
        BY <2>2, <4>1, <4>2
    <3>4. InHand(a)'
      BY <2>1, <2>2, <3>1, <3>2, <3>3 DEF InHand, Pair
    <3>. QED
      BY <1>0, <1>5, <2>1, <3>4, IntakeMoves, OtherStepsUpsertInv
  <2>. QED
    BY <2>1, <2>4, <2>5 DEF UpsertInv, InHand
<1>6. ASSUME NEW a \in PersistAttempts, CommitUpsert(a) PROVE UpsertInv'
  BY <1>6, CommitUpsertInv
<1>7. ASSUME SaveAnalyses PROVE UpsertInv'
  BY <1>7 DEF SaveAnalyses, recordVars, UpsertInv, ThreadsAreFunction, InHand, Pair
<1>8. ASSUME NEW q \in Threads, Abort(q), UNCHANGED intakeVars PROVE UpsertInv'
  <2>1. thread'[q].phase = "done"
    BY <1>8 DEF Abort, UpsertInv, ThreadsAreFunction, Done
  <2>. QED
    BY <1>8, <2>1, IntakeMoves, OtherStepsUpsertInv DEF InHand
<1>9. ASSUME UNCHANGED vars PROVE UpsertInv'
  BY <1>9 DEF vars, recordVars, UpsertInv, ThreadsAreFunction, InHand, Pair
<1>. QED
  BY <1>1, <1>2, <1>3, <1>4, <1>5, <1>6, <1>7, <1>8, <1>9 DEF Next

LEMMA UpsertInvImplies == UpsertInv => ShownCandidateHasDetail
<1> SUFFICES ASSUME UpsertInv PROVE ShownCandidateHasDetail
  OBVIOUS
<1>1. Cardinality(candidates) <= 1
  <2>1. AtMostOne(candidates)
    BY DEF UpsertInv, Pair, AtMostOne
  <2>. QED
    BY <2>1, AtMostOneCardinality
<1>2. ASSUME NEW r \in refs
      PROVE  DetailOf(r.candidate) = {<<[id |-> r.candidate, snapshot |-> r.snapshot],
                                        [id |-> r.snapshot, candidate |-> r.candidate]>>}
  <2>1. PICK c, s : Pair(c, s) /\ refs = {[candidate |-> c, snapshot |-> s]}
    BY DEF UpsertInv
  <2>2. r.candidate = c /\ r.snapshot = s
    BY <2>1
  <2>3. candidates \X snapshots = {<<[id |-> c, snapshot |-> s], [id |-> s, candidate |-> c]>>}
    BY <2>1 DEF Pair
  <2>. QED
    BY <2>2, <2>3 DEF DetailOf
<1>. QED
  BY <1>1, <1>2 DEF UpsertInv, ShownCandidateHasDetail

\* However many attempts to persist a candidate overlap, are aborted or lose their answer,
\* what the run shows is the one candidate there is, with its snapshot.
THEOREM DetailAlwaysThere == Spec => []ShownCandidateHasDetail
<1>. QED
  BY InitUpsertInv, NextUpsertInv, UpsertInvImplies, PTL DEF Spec

-----------------------------------------------------------------------------
(* Verdicts, exports and versions. *)

\* The kinds of request have no thread in common.
LEMMA Kinds ==
    /\ VerdictRequests \subseteq Threads /\ PersistAttempts \subseteq Threads
    /\ ExportRequests \subseteq Threads /\ VersionRequests \subseteq Threads
    /\ CreateRequests \subseteq Threads
    /\ \A q \in VersionRequests \cup ExportRequests \cup CreateRequests :
          q \notin VerdictRequests /\ q \notin PersistAttempts
    /\ \A q \in VerdictRequests : q \notin PersistAttempts
    /\ \A q \in VersionRequests \cup VerdictRequests \cup CreateRequests \cup PersistAttempts :
          q \notin ExportRequests
BY RequestsAssumption DEF Threads, Requests

\* Overlap adds its kind, and only if another request of the kind is busy.
LEMMA OverlapAdds ==
    ASSUME NEW kind, NEW q, NEW requests
    PROVE  /\ Overlap(kind, q, requests) \subseteq overlapped \cup {kind}
           /\ overlapped \subseteq Overlap(kind, q, requests)
           /\ kind \notin Overlap(kind, q, requests) =>
                 \A other \in requests \ {q} : ~Busy(other)
BY DEF Overlap

-----------------------------------------------------------------------------
(* Verdicts. *)

Alone == overlapped \cap {"verdict", "upsert"} = {}

VerdictInHand(q) ==
    /\ thread[q].phase \in {"read", "saved"}
    /\ thread[q].verdict \in Verdicts /\ thread[q].at \in Nat /\ thread[q].at <= clock
    /\ thread[q].phase = "saved" /\ "upsert" \notin overlapped =>
          (thread[q].dirty \/ verdict # NoVerdict)
    /\ thread[q].phase = "saved" /\ Alone => (thread[q].dirty <=> verdict # thread[q].verdict)
    /\ "verdict" \notin overlapped =>
          /\ \A p \in VerdictRequests : Busy(p) => p = q
          /\ \A h \in history : h.at < thread[q].at

UpsertInHand(a) ==
    /\ thread[a].verdict = NoVerdict
    /\ "upsert" \notin overlapped =>
          refs = {} /\ \A b \in PersistAttempts : Busy(b) => b = a

VerdictInv ==
    /\ ThreadsAreFunction
    /\ clock \in Nat
    /\ verdict \in Verdicts \cup {NoVerdict}
    /\ \A h \in history : h.verdict \in Verdicts /\ h.at \in Nat /\ h.at <= clock
    /\ refs = {} =>
          verdict = NoVerdict /\ history = {} /\ \A q \in VerdictRequests : ~Busy(q)
    /\ \A a \in PersistAttempts : Busy(a) => UpsertInHand(a)
    /\ \A q \in VerdictRequests : Busy(q) => VerdictInHand(q)
    /\ LatestVerdictInHistory
    /\ LatestVerdictIsNewest

LEMMA InitVerdictInv == Init => VerdictInv
<1> SUFFICES ASSUME Init PROVE VerdictInv
  OBVIOUS
<1>1. /\ ThreadsAreFunction /\ \A q \in Threads : ~Busy(q)
      /\ clock = 0 /\ verdict = NoVerdict /\ history = {}
  BY DEF Init, RecordsInit, ThreadsAreFunction, Busy
<1>2. LatestVerdictInHistory /\ LatestVerdictIsNewest
  BY <1>1 DEF LatestVerdictInHistory, LatestVerdictIsNewest
<1>. QED
  BY <1>1, <1>2, Kinds DEF VerdictInv

\* A thread of another kind moves, or one is done with.
LEMMA OtherStepsVerdictInv ==
    ASSUME VerdictInv, UNCHANGED <<verdict, history, clock, refs>>,
           NEW q \in Threads, Moves(q),
           q \in VerdictRequests \cup PersistAttempts => thread'[q] = Done,
           overlapped \subseteq overlapped' /\ overlapped' \subseteq overlapped \cup {"version"}
    PROVE  VerdictInv'
<1>1. ThreadsAreFunction' /\ \A p \in Threads \ {q} : thread'[p] = thread[p]
  BY OthersStay DEF VerdictInv
<1>2. \A p \in VerdictRequests \cup PersistAttempts :
          Busy(p)' => Busy(p) /\ thread'[p] = thread[p]
  BY <1>1, Kinds DEF Busy
<1>3. /\ "verdict" \in overlapped' <=> "verdict" \in overlapped
      /\ "upsert" \in overlapped' <=> "upsert" \in overlapped
  OBVIOUS
<1>4. Alone' <=> Alone
  BY <1>3 DEF Alone
<1>5. \A p \in VerdictRequests : Busy(p)' => VerdictInHand(p)'
  BY <1>2, <1>3, <1>4 DEF VerdictInv, VerdictInHand
<1>6. \A a \in PersistAttempts : Busy(a)' => UpsertInHand(a)'
  BY <1>2, <1>3 DEF VerdictInv, UpsertInHand
<1>7. LatestVerdictInHistory' /\ LatestVerdictIsNewest'
  BY <1>3, <1>4 DEF VerdictInv, LatestVerdictInHistory, LatestVerdictIsNewest, Alone
<1>. QED
  BY <1>1, <1>2, <1>5, <1>6, <1>7 DEF VerdictInv

LEMMA ReadCandidateVerdictInv ==
    ASSUME VerdictInv, NEW q \in VerdictRequests, ReadCandidate(q), refs # {},
           UNCHANGED intakeVars
    PROVE  VerdictInv'
<1>1. PICK v \in Verdicts :
          thread' = [thread EXCEPT ![q] = [phase |-> "read", verdict |-> v, at |-> clock + 1]]
  BY DEF ReadCandidate
<1>2. /\ clock' = clock + 1 /\ overlapped' = Overlap("verdict", q, VerdictRequests)
      /\ UNCHANGED <<verdict, history, refs>>
  BY DEF ReadCandidate, intakeVars
<1>3. q \in Threads /\ Moves(q) /\ q \notin PersistAttempts
  BY Kinds, RequestMoves DEF RequestStep, Requests
<1>4. ThreadsAreFunction' /\ \A p \in Threads \ {q} : thread'[p] = thread[p]
  BY <1>3, OthersStay DEF VerdictInv
<1>5. thread'[q] = [phase |-> "read", verdict |-> v, at |-> clock + 1]
  BY <1>1, <1>3 DEF VerdictInv, ThreadsAreFunction
<1>6. /\ overlapped \subseteq overlapped' /\ overlapped' \subseteq overlapped \cup {"verdict"}
      /\ "verdict" \notin overlapped' => \A p \in VerdictRequests \ {q} : ~Busy(p)
  BY <1>2, OverlapAdds
<1>7. VerdictInHand(q)'
  <2>1. thread'[q].phase = "read" /\ thread'[q].verdict = v /\ thread'[q].at = clock + 1
    BY <1>5
  <2>2. "verdict" \notin overlapped' => \A p \in VerdictRequests : Busy(p)' => p = q
    BY <1>4, <1>6, Kinds DEF Busy
  <2>3. \A h \in history' : h.at < thread'[q].at
    BY <1>2, <2>1 DEF VerdictInv
  <2>4. thread'[q].at \in Nat /\ thread'[q].at <= clock'
    BY <1>2, <2>1 DEF VerdictInv
  <2>. QED
    BY <2>1, <2>2, <2>3, <2>4 DEF VerdictInHand
<1>8. \A p \in VerdictRequests \ {q} : Busy(p)' => VerdictInHand(p)'
  <2> TAKE p \in VerdictRequests \ {q}
  <2> HAVE Busy(p)'
  <2>1. Busy(p) /\ thread'[p] = thread[p]
    BY <1>4, Kinds DEF Busy
  <2>2. "verdict" \in overlapped' /\ ~Alone'
    BY <1>6, <2>1 DEF Alone
  <2>3. VerdictInHand(p)
    BY <2>1 DEF VerdictInv
  <2>4. thread[p].at <= clock'
    BY <1>2, <2>3 DEF VerdictInHand, VerdictInv
  <2>. QED
    BY <1>2, <1>6, <2>1, <2>2, <2>3, <2>4 DEF VerdictInHand
<1>9. \A a \in PersistAttempts : Busy(a)' => UpsertInHand(a)'
  <2>1. \A a \in PersistAttempts : thread'[a] = thread[a]
    BY <1>3, <1>4, Kinds
  <2>. QED
    BY <1>2, <1>6, <2>1 DEF VerdictInv, UpsertInHand, Busy
<1>10. LatestVerdictInHistory' /\ LatestVerdictIsNewest'
  BY <1>2, <1>6 DEF VerdictInv, LatestVerdictInHistory, LatestVerdictIsNewest
<1>11. \A h \in history' : h.verdict \in Verdicts /\ h.at \in Nat /\ h.at <= clock'
  BY <1>2 DEF VerdictInv
<1>. QED
  BY <1>2, <1>4, <1>7, <1>8, <1>9, <1>10, <1>11 DEF VerdictInv

LEMMA SaveCandidateVerdictInv ==
    ASSUME VerdictInv, NEW q \in VerdictRequests, SaveCandidate(q), UNCHANGED intakeVars
    PROVE  VerdictInv'
<1>1. /\ thread[q].phase = "read"
      /\ UNCHANGED <<verdict, history, clock, overlapped, refs>>
  BY DEF SaveCandidate, intakeVars
<1>2. q \in Threads /\ Moves(q) /\ q \notin PersistAttempts
  BY Kinds, RequestMoves DEF RequestStep, Requests
<1>3. ThreadsAreFunction' /\ \A p \in Threads \ {q} : thread'[p] = thread[p]
  BY <1>2, OthersStay DEF VerdictInv
<1>4. Busy(q) /\ VerdictInHand(q)
  BY <1>1 DEF Busy, Idle, Done, VerdictInv
<1>5. /\ thread'[q].phase = "saved" /\ thread'[q].verdict = thread[q].verdict
      /\ thread'[q].at = thread[q].at
      /\ thread'[q].dirty <=> thread[q].verdict # verdict
  BY <1>2 DEF SaveCandidate, Changes, VerdictInv, ThreadsAreFunction
<1>6. \A p \in VerdictRequests \cup PersistAttempts : Busy(p)' => Busy(p)
  BY <1>3, <1>4, Kinds DEF Busy
<1>7. VerdictInHand(q)'
  <2>1. "verdict" \notin overlapped' =>
            /\ \A p \in VerdictRequests : Busy(p)' => p = q
            /\ \A h \in history' : h.at < thread'[q].at
    BY <1>1, <1>4, <1>5, <1>6 DEF VerdictInHand
  <2>2. thread'[q].dirty \/ verdict' # NoVerdict
    BY <1>1, <1>4, <1>5, RequestsAssumption DEF VerdictInHand
  <2>3. thread'[q].dirty <=> verdict' # thread'[q].verdict
    BY <1>1, <1>5
  <2>. QED
    BY <1>1, <1>4, <1>5, <2>1, <2>2, <2>3 DEF VerdictInHand
<1>8. \A p \in VerdictRequests \ {q} : Busy(p)' => VerdictInHand(p)'
  <2> TAKE p \in VerdictRequests \ {q}
  <2> HAVE Busy(p)'
  <2>1. Busy(p) /\ thread'[p] = thread[p] /\ VerdictInHand(p)
    BY <1>3, <1>6, Kinds DEF VerdictInv
  <2>2. Alone' <=> Alone
    BY <1>1 DEF Alone
  <2>. QED
    BY <1>1, <1>6, <2>1, <2>2 DEF VerdictInHand
<1>9. \A a \in PersistAttempts : Busy(a)' => UpsertInHand(a)'
  <2>1. \A a \in PersistAttempts : thread'[a] = thread[a]
    BY <1>2, <1>3, Kinds
  <2>. QED
    BY <1>1, <2>1 DEF VerdictInv, UpsertInHand, Busy
<1>10. LatestVerdictInHistory' /\ LatestVerdictIsNewest'
  BY <1>1 DEF VerdictInv, LatestVerdictInHistory, LatestVerdictIsNewest
<1>11. refs # {}
  BY <1>4 DEF VerdictInv
<1>. QED
  BY <1>1, <1>3, <1>7, <1>8, <1>9, <1>10, <1>11 DEF VerdictInv

LEMMA CommitVerdictVerdictInv ==
    ASSUME VerdictInv, NEW q \in VerdictRequests, CommitVerdict(q), UNCHANGED intakeVars
    PROVE  VerdictInv'
<1>1. /\ thread[q].phase = "saved"
      /\ verdict' = IF thread[q].dirty THEN thread[q].verdict ELSE verdict
      /\ history' = history \cup {Entry(q)}
      /\ UNCHANGED <<clock, overlapped, refs>>
  BY DEF CommitVerdict, intakeVars
<1>2. q \in Threads /\ Moves(q) /\ q \notin PersistAttempts
  BY Kinds, RequestMoves DEF RequestStep, Requests
<1>3. ThreadsAreFunction' /\ \A p \in Threads \ {q} : thread'[p] = thread[p]
  BY <1>2, OthersStay DEF VerdictInv
<1>4. Busy(q) /\ VerdictInHand(q) /\ refs # {}
  BY <1>1 DEF Busy, Idle, Done, VerdictInv
<1>5. thread'[q] = Done
  BY <1>2 DEF CommitVerdict, VerdictInv, ThreadsAreFunction
<1>6. Entry(q).verdict = thread[q].verdict /\ Entry(q).at = thread[q].at
  BY DEF Entry
<1> DEFINE e == Entry(q)
<1> HIDE DEF e
<1>7. \A p \in VerdictRequests : Busy(p)' => p # q /\ Busy(p) /\ thread'[p] = thread[p]
  BY <1>3, <1>5, Kinds DEF Busy
<1>8. \A p \in VerdictRequests : Busy(p)' => VerdictInHand(p)'
  <2> TAKE p \in VerdictRequests
  <2> HAVE Busy(p)'
  <2>1. p # q /\ Busy(p) /\ thread'[p] = thread[p] /\ VerdictInHand(p)
    BY <1>7 DEF VerdictInv
  <2>2. "verdict" \in overlapped'
    BY <1>1, <1>4, <2>1 DEF VerdictInHand
  <2>3. ~Alone'
    BY <2>2 DEF Alone
  <2>4. "upsert" \notin overlapped /\ verdict # NoVerdict => verdict' # NoVerdict
    BY <1>1, <1>4, RequestsAssumption DEF VerdictInHand
  <2>. QED
    BY <1>1, <2>1, <2>2, <2>3, <2>4 DEF VerdictInHand
<1>9. \A a \in PersistAttempts : Busy(a)' => UpsertInHand(a)'
  <2>1. \A a \in PersistAttempts : thread'[a] = thread[a]
    BY <1>2, <1>3, Kinds
  <2>. QED
    BY <1>1, <2>1 DEF VerdictInv, UpsertInHand, Busy
<1>10. \A h \in history' : h.verdict \in Verdicts /\ h.at \in Nat /\ h.at <= clock'
  BY <1>1, <1>4, <1>6 DEF VerdictInv, VerdictInHand
<1>11. verdict' \in Verdicts \cup {NoVerdict}
  BY <1>1, <1>4 DEF VerdictInv, VerdictInHand
<1>12. LatestVerdictInHistory'
  <2> SUFFICES ASSUME "upsert" \notin overlapped
               PROVE  /\ verdict' # NoVerdict /\ history' # {}
                      /\ \E h \in history' : h.verdict = verdict'
    BY <1>1 DEF LatestVerdictInHistory
  <2>1. CASE thread[q].dirty
    BY <1>1, <1>4, <1>6, <2>1, RequestsAssumption DEF VerdictInHand
  <2>2. CASE ~thread[q].dirty
    BY <1>1, <1>4, <2>2 DEF VerdictInHand, VerdictInv, LatestVerdictInHistory
  <2>. QED
    BY <2>1, <2>2
<1>13. LatestVerdictIsNewest'
  <2> SUFFICES ASSUME Alone, NEW h \in history', \A g \in history' : g.at <= h.at
               PROVE  h.verdict = verdict'
    BY <1>1 DEF LatestVerdictIsNewest, Alone
  <2>1. \A g \in history : g.at < thread[q].at /\ g.at \in Nat
    BY <1>4 DEF Alone, VerdictInHand, VerdictInv
  <2>2. thread[q].at \in Nat /\ thread[q].at <= h.at
    BY <1>1, <1>4, <1>6 DEF VerdictInHand
  <2>3. h \notin history
    BY <2>1, <2>2
  <2>4. h = Entry(q)
    BY <1>1, <2>3
  <2>5. verdict' = thread[q].verdict
    BY <1>1, <1>4 DEF VerdictInHand
  <2>. QED
    BY <1>6, <2>4, <2>5
<1>. QED
  BY <1>1, <1>3, <1>4, <1>8, <1>9, <1>10, <1>11, <1>12, <1>13 DEF VerdictInv

LEMMA BeginUpsertVerdictInv ==
    ASSUME VerdictInv, NEW a \in PersistAttempts, BeginUpsert(a)
    PROVE  VerdictInv'
<1>1. /\ refs = {} /\ overlapped' = Overlap("upsert", a, PersistAttempts)
      /\ UNCHANGED <<verdict, history, clock, refs>>
  BY DEF BeginUpsert, intakeVars
<1>2. a \in Threads /\ Moves(a) /\ a \notin VerdictRequests
  BY Kinds, IntakeMoves
<1>3. ThreadsAreFunction' /\ \A p \in Threads \ {a} : thread'[p] = thread[p]
  BY <1>2, OthersStay DEF VerdictInv
<1>4. thread'[a].verdict = verdict /\ verdict = NoVerdict
  BY <1>1, <1>2 DEF BeginUpsert, VerdictInv, ThreadsAreFunction
<1>5. /\ overlapped \subseteq overlapped' /\ overlapped' \subseteq overlapped \cup {"upsert"}
      /\ "upsert" \notin overlapped' => \A b \in PersistAttempts \ {a} : ~Busy(b)
  BY <1>1, OverlapAdds
<1>6. \A q \in VerdictRequests : ~Busy(q)'
  BY <1>1, <1>2, <1>3, Kinds DEF VerdictInv, Busy
<1>7. \A b \in PersistAttempts : Busy(b)' => UpsertInHand(b)'
  <2> TAKE b \in PersistAttempts
  <2> HAVE Busy(b)'
  <2>1. \A c \in PersistAttempts \ {a} : thread'[c] = thread[c] /\ (Busy(c)' <=> Busy(c))
    BY <1>3, Kinds DEF Busy
  <2>2. thread'[b].verdict = NoVerdict
    BY <1>4, <2>1 DEF VerdictInv, UpsertInHand
  <2>3. "upsert" \notin overlapped' => \A c \in PersistAttempts : Busy(c)' => c = a
    BY <1>5, <2>1
  <2>. QED
    BY <1>1, <2>2, <2>3 DEF UpsertInHand
<1>8. LatestVerdictInHistory' /\ LatestVerdictIsNewest'
  BY <1>1, <1>5 DEF VerdictInv, LatestVerdictInHistory, LatestVerdictIsNewest
<1>. QED
  BY <1>1, <1>3, <1>6, <1>7, <1>8 DEF VerdictInv

\* An attempt goes on with the verdict it read.
LEMMA UpsertGoesOnVerdictInv ==
    ASSUME VerdictInv, NEW a \in PersistAttempts, FindSnapshot(a) \/ SaveUpsert(a)
    PROVE  VerdictInv'
<1>1. UNCHANGED <<verdict, history, clock, refs, overlapped>>
  BY DEF FindSnapshot, SaveUpsert, intakeVars
<1>2. a \in Threads /\ Moves(a) /\ a \notin VerdictRequests
  BY Kinds, IntakeMoves
<1>3. ThreadsAreFunction' /\ \A p \in Threads \ {a} : thread'[p] = thread[p]
  BY <1>2, OthersStay DEF VerdictInv
<1>4. Busy(a) /\ thread'[a].verdict = thread[a].verdict
  BY <1>2 DEF FindSnapshot, SaveUpsert, Busy, Idle, Done, VerdictInv, ThreadsAreFunction
<1>5. \A q \in VerdictRequests : thread'[q] = thread[q]
  BY <1>2, <1>3, Kinds
<1>6. \A q \in VerdictRequests : Busy(q)' => Busy(q) /\ VerdictInHand(q)'
  BY <1>1, <1>5 DEF VerdictInv, VerdictInHand, Busy, Alone
<1>7. \A b \in PersistAttempts : Busy(b)' => UpsertInHand(b)'
  <2>1. \A b \in PersistAttempts : Busy(b)' => Busy(b) /\ thread'[b].verdict = thread[b].verdict
    BY <1>3, <1>4, Kinds DEF Busy
  <2>. QED
    BY <1>1, <2>1 DEF VerdictInv, UpsertInHand
<1>8. LatestVerdictInHistory' /\ LatestVerdictIsNewest'
  BY <1>1 DEF VerdictInv, LatestVerdictInHistory, LatestVerdictIsNewest
<1>. QED
  BY <1>1, <1>3, <1>6, <1>7, <1>8 DEF VerdictInv

LEMMA CommitUpsertVerdictInv ==
    ASSUME VerdictInv, NEW a \in PersistAttempts, CommitUpsert(a)
    PROVE  VerdictInv'
<1>1. UNCHANGED <<history, clock, overlapped>> /\ thread[a].phase = "upserted"
  BY DEF CommitUpsert
<1>2. /\ verdict' \in {verdict, thread[a].verdict}
      /\ refs' = {} => refs = {}
  BY DEF CommitUpsert, WriteUpsert
<1>3. a \in Threads /\ Moves(a) /\ a \notin VerdictRequests
  BY Kinds, IntakeMoves
<1>4. ThreadsAreFunction' /\ \A p \in Threads \ {a} : thread'[p] = thread[p]
  BY <1>3, OthersStay DEF VerdictInv
<1>5. thread'[a] = Done /\ Busy(a)
  BY <1>1, <1>3 DEF CommitUpsert, Busy, Idle, Done, VerdictInv, ThreadsAreFunction
<1>6. UpsertInHand(a) /\ verdict' \in {verdict, NoVerdict}
  BY <1>2, <1>5 DEF VerdictInv, UpsertInHand
<1>7. "upsert" \notin overlapped => verdict' = verdict
  BY <1>6 DEF VerdictInv, UpsertInHand
<1>8. \A q \in VerdictRequests : Busy(q)' => Busy(q) /\ VerdictInHand(q)'
  <2>1. \A q \in VerdictRequests : thread'[q] = thread[q]
    BY <1>3, <1>4, Kinds
  <2>2. Alone => verdict' = verdict
    BY <1>7 DEF Alone
  <2>3. Alone' <=> Alone
    BY <1>1 DEF Alone
  <2>. QED
    BY <1>1, <1>7, <2>1, <2>2, <2>3 DEF VerdictInv, VerdictInHand, Busy
<1>9. \A b \in PersistAttempts : Busy(b)' => UpsertInHand(b)'
  <2> TAKE b \in PersistAttempts
  <2> HAVE Busy(b)'
  <2>1. b # a /\ Busy(b) /\ thread'[b] = thread[b] /\ UpsertInHand(b)
    BY <1>4, <1>5, Kinds DEF Busy, VerdictInv
  <2>2. "upsert" \in overlapped'
    BY <1>1, <1>5, <1>6, <2>1 DEF UpsertInHand
  <2>. QED
    BY <2>1, <2>2 DEF UpsertInHand
<1>10. LatestVerdictInHistory' /\ LatestVerdictIsNewest'
  BY <1>1, <1>7 DEF VerdictInv, LatestVerdictInHistory, LatestVerdictIsNewest
<1>. QED
  BY <1>1, <1>2, <1>4, <1>6, <1>8, <1>9, <1>10 DEF VerdictInv

LEMMA NextVerdictInv == VerdictInv /\ [Next]_vars => VerdictInv'
<1> SUFFICES ASSUME VerdictInv, [Next]_vars PROVE VerdictInv'
  OBVIOUS
<1>1. ASSUME NEW q \in Requests, Answerable(q), RequestStep(q), UNCHANGED intakeVars
      PROVE  VerdictInv'
  <2>1. Moves(q) /\ q \in Threads /\ UNCHANGED refs
    BY <1>1, RequestMoves DEF Threads, intakeVars
  <2>2. CASE q \in VersionRequests
    <3>1. /\ UNCHANGED <<verdict, history, clock>>
          /\ overlapped' \in {overlapped, Overlap("version", q, VersionRequests)}
      <4>1. BeginVersion(q) \/ StartDeactivation(q) \/ Deactivate(q) \/ CommitVersion(q)
        BY <1>1, <2>2, RequestsAssumption DEF RequestStep
      <4>. QED
        BY <4>1 DEF BeginVersion, StartDeactivation, Deactivate, CommitVersion
    <3>2. overlapped \subseteq overlapped' /\ overlapped' \subseteq overlapped \cup {"version"}
      BY <3>1, OverlapAdds
    <3>. QED
      BY <2>1, <2>2, <3>1, <3>2, Kinds, OtherStepsVerdictInv
  <2>3. CASE q \in ExportRequests
    <3>1. UNCHANGED <<verdict, history, clock, overlapped>>
      <4>1. \/ FindJob(q) \/ InsertJob(q) \/ ListCandidates(q)
            \/ WriteFile(q) \/ WriteFails(q) \/ CommitJob(q)
        BY <1>1, <2>3, RequestsAssumption DEF RequestStep
      <4>. QED
        BY <4>1 DEF FindJob, InsertJob, ListCandidates, WriteFile, WriteFails, CommitJob
    <3>. QED
      BY <2>1, <2>3, <3>1, Kinds, OtherStepsVerdictInv
  <2>4. CASE q \in VerdictRequests
    <3>1. ReadCandidate(q) \/ SaveCandidate(q) \/ CommitVerdict(q)
      BY <1>1, <2>4, RequestsAssumption DEF RequestStep
    <3>2. refs # {}
      BY <1>1, <2>4 DEF Answerable
    <3>. QED
      BY <1>1, <2>4, <3>1, <3>2, ReadCandidateVerdictInv, SaveCandidateVerdictInv,
         CommitVerdictVerdictInv
  <2>. QED
    BY <2>2, <2>3, <2>4 DEF Requests
<1>2. ASSUME NEW q \in CreateRequests, FindRun(q) \/ CommitRun(q) PROVE VerdictInv'
  <2>1. UNCHANGED <<verdict, history, clock, refs, overlapped>>
    BY <1>2 DEF FindRun, CommitRun, intakeVars
  <2>. QED
    BY <1>2, <2>1, IntakeMoves, Kinds, OtherStepsVerdictInv
<1>3. ASSUME NEW a \in PersistAttempts,
             BeginUpsert(a) \/ FindSnapshot(a) \/ SaveUpsert(a) \/ CommitUpsert(a)
      PROVE  VerdictInv'
  BY <1>3, BeginUpsertVerdictInv, UpsertGoesOnVerdictInv, CommitUpsertVerdictInv
<1>4. ASSUME SaveAnalyses \/ UNCHANGED vars PROVE VerdictInv'
  <2>1. UNCHANGED <<thread, verdict, history, clock, refs, overlapped>>
    BY <1>4 DEF SaveAnalyses, vars, recordVars, intakeVars
  <2>. QED
    BY <2>1 DEF VerdictInv, ThreadsAreFunction, VerdictInHand, UpsertInHand, Busy, Alone,
                LatestVerdictInHistory, LatestVerdictIsNewest
<1>5. ASSUME NEW q \in Threads, Abort(q), UNCHANGED intakeVars PROVE VerdictInv'
  <2>1. thread'[q] = Done /\ UNCHANGED <<verdict, history, clock, refs, overlapped>>
    BY <1>5 DEF Abort, VerdictInv, ThreadsAreFunction, intakeVars
  <2>. QED
    BY <1>5, <2>1, IntakeMoves, OtherStepsVerdictInv
<1>. QED
  BY <1>1, <1>2, <1>3, <1>4, <1>5 DEF Next

\* The latest verdict always stands in the history, unless attempts of the worker to
\* persist the candidate have overlapped.
THEOREM VerdictAlwaysInHistory == Spec => []LatestVerdictInHistory
<1>1. VerdictInv => LatestVerdictInHistory
  BY DEF VerdictInv
<1>. QED
  BY InitVerdictInv, NextVerdictInv, <1>1, PTL DEF Spec

\* And it is the newest entry as long as requests for verdicts come one at a time, too.
THEOREM VerdictAlwaysNewest == Spec => []LatestVerdictIsNewest
<1>1. VerdictInv => LatestVerdictIsNewest
  BY DEF VerdictInv
<1>. QED
  BY InitVerdictInv, NextVerdictInv, <1>1, PTL DEF Spec

-----------------------------------------------------------------------------
(* Exports. *)

Judged == \E h \in history : h.verdict \in Exportable

\* The request that owns the job is alone between its two transactions; it writes when
\* there is no file.
ExportInHand(q) ==
    /\ thread[q].phase \in {"looked", "inserted", "listed", "written", "unwritten"}
    /\ thread[q].phase # "looked" => job = [status |-> "running", owner |-> q]
    /\ thread[q].phase \in {"looked", "inserted", "listed"} => \A f \in files : f.owner # q
    /\ thread[q].phase = "listed" /\ thread[q].includes => Judged
    /\ thread[q].phase = "written" => \E f \in files : f.owner = q

ExportInv ==
    /\ AtMostOne(files)
    /\ job = NoJob \/ job = [status |-> job.status, owner |-> job.owner]
    /\ \A f \in files : /\ job # NoJob /\ job.owner = f.owner
                        /\ f.includes => Judged
    /\ job.status = "completed" => \E f \in files : f.owner = job.owner
    /\ verdict \in Exportable => Judged
    /\ \A q \in ExportRequests : Busy(q) => ExportInHand(q)

LEMMA InitExportInv == Init => ExportInv
<1> SUFFICES ASSUME Init PROVE ExportInv
  OBVIOUS
<1>1. \A q \in ExportRequests : ~Busy(q)
  BY Kinds DEF Init, Busy
<1>2. job = NoJob /\ files = {} /\ verdict = NoVerdict
  BY DEF Init, RecordsInit
<1>3. NoVerdict \notin Exportable
  BY RequestsAssumption DEF Verdicts, Exportable
<1>. QED
  BY <1>1, <1>2, <1>3 DEF ExportInv, AtMostOne, NoJob

\* What has been judged stays judged, and nothing else a thread of another kind does
\* matters to exports.
LEMMA OtherStepsExportInv ==
    ASSUME ExportInv, ThreadsAreFunction, UNCHANGED <<job, files>>,
           NEW q \in Threads, Moves(q), q \in ExportRequests => thread'[q] = Done,
           history \subseteq history',
           verdict' \in Exportable => verdict' = verdict \/ Judged'
    PROVE  ExportInv'
<1>1. ThreadsAreFunction' /\ \A p \in Threads \ {q} : thread'[p] = thread[p]
  BY OthersStay
<1>2. \A p \in ExportRequests : Busy(p)' => Busy(p) /\ thread'[p] = thread[p]
  BY <1>1, Kinds DEF Busy
<1>3. Judged => Judged'
  BY DEF Judged
<1>4. \A p \in ExportRequests : Busy(p)' => ExportInHand(p)'
  BY <1>2, <1>3 DEF ExportInv, ExportInHand
<1>. QED
  BY <1>3, <1>4 DEF ExportInv

LEMMA ExportStepsExportInv ==
    ASSUME ExportInv, ThreadsAreFunction, NEW q \in ExportRequests,
           \/ FindJob(q) \/ InsertJob(q) \/ ListCandidates(q)
           \/ WriteFile(q) \/ WriteFails(q) \/ CommitJob(q)
    PROVE  ExportInv'
<1>1. q \in Threads /\ Moves(q) /\ ExportRequests \subseteq Threads
  BY Kinds, RequestMoves, RequestsAssumption DEF RequestStep, Requests
<1>2. ThreadsAreFunction' /\ \A p \in Threads \ {q} : thread'[p] = thread[p]
  BY <1>1, OthersStay
<1>3. \A p \in ExportRequests \ {q} : (Busy(p)' <=> Busy(p)) /\ thread'[p] = thread[p]
  BY <1>1, <1>2 DEF Busy
<1>4. UNCHANGED <<verdict, history>> /\ (Judged' <=> Judged)
  BY DEF FindJob, InsertJob, ListCandidates, WriteFile, WriteFails, CommitJob, Judged
<1>5. ASSUME FindJob(q) PROVE ExportInv'
  <2>1. UNCHANGED <<job, files>>
    BY <1>5 DEF FindJob
  <2>2. thread'[q] = IF job # NoJob THEN Done ELSE [phase |-> "looked"]
    BY <1>1, <1>5 DEF FindJob, ThreadsAreFunction
  <2>3. Busy(q)' => ExportInHand(q)'
    BY <2>1, <2>2 DEF Busy, ExportInHand, ExportInv
  <2>4. \A p \in ExportRequests \ {q} : Busy(p)' => ExportInHand(p)'
    BY <1>3, <1>4, <2>1 DEF ExportInHand, ExportInv
  <2>. QED
    BY <1>4, <2>1, <2>3, <2>4 DEF ExportInv
<1>6. ASSUME InsertJob(q) PROVE ExportInv'
  <2>1. files' = files
    BY <1>6 DEF InsertJob
  <2>2. CASE job = NoJob
    <3>1. job' = [status |-> "running", owner |-> q] /\ thread'[q].phase = "inserted"
      BY <1>1, <1>6, <2>2 DEF InsertJob, ThreadsAreFunction
    <3>2. files = {}
      BY <2>2 DEF ExportInv
    <3>3. ExportInHand(q)'
      BY <2>1, <3>1, <3>2 DEF ExportInHand
    <3>4. \A p \in ExportRequests \ {q} : Busy(p) => thread[p].phase = "looked"
      BY <2>2 DEF ExportInv, ExportInHand, NoJob
    <3>5. \A p \in ExportRequests \ {q} : Busy(p)' => ExportInHand(p)'
      BY <1>3, <1>4, <2>1, <3>2, <3>4 DEF ExportInHand, ExportInv
    <3>. QED
      BY <1>4, <2>1, <3>1, <3>2, <3>3, <3>5 DEF ExportInv
  <2>3. CASE job # NoJob
    <3>1. job' = job /\ thread'[q] = Done
      BY <1>1, <1>6, <2>3 DEF InsertJob, ThreadsAreFunction
    <3>. QED
      BY <1>1, <1>4, <2>1, <3>1, OtherStepsExportInv
  <2>. QED
    BY <2>2, <2>3
<1>7. ASSUME ListCandidates(q) \/ WriteFails(q) PROVE ExportInv'
  <2>1. UNCHANGED <<job, files>> /\ thread[q].phase \in {"inserted", "listed"}
    BY <1>7 DEF ListCandidates, WriteFails
  <2>2. ExportInHand(q)
    BY <2>1 DEF ExportInv, Busy, Idle, Done
  <2>3. ASSUME ListCandidates(q) PROVE ExportInHand(q)'
    <3>1. /\ thread[q].phase = "inserted"
          /\ thread'[q] = [phase |-> "listed", includes |-> verdict \in Exportable]
      BY <1>1, <2>3 DEF ListCandidates, ThreadsAreFunction
    <3>2. thread'[q].phase = "listed"
      BY <3>1
    <3>3. thread'[q].includes = (verdict \in Exportable)
      BY <3>1
    <3>4. thread'[q].includes => Judged
      BY <3>3 DEF ExportInv
    <3>. QED
      BY <1>4, <2>1, <2>2, <3>1, <3>2, <3>4 DEF ExportInHand
  <2>4. ASSUME WriteFails(q) PROVE ExportInHand(q)'
    <3>1. thread[q].phase = "listed" /\ thread'[q].phase = "unwritten"
      BY <1>1, <2>4 DEF WriteFails, ThreadsAreFunction
    <3>. QED
      BY <2>1, <2>2, <3>1 DEF ExportInHand
  <2>5. \A p \in ExportRequests \ {q} : Busy(p)' => ExportInHand(p)'
    BY <1>3, <1>4, <2>1 DEF ExportInHand, ExportInv
  <2>. QED
    BY <1>4, <1>7, <2>1, <2>3, <2>4, <2>5 DEF ExportInv
<1>8. ASSUME WriteFile(q) PROVE ExportInv'
  <2> DEFINE f == [owner |-> q, includes |-> thread[q].includes]
  <2>1. /\ job' = job /\ files' = files \cup {f}
        /\ thread[q].phase = "listed" /\ thread'[q].phase = "written"
    BY <1>1, <1>8 DEF WriteFile, ThreadsAreFunction
  <2>2. ExportInHand(q)
    BY <2>1 DEF ExportInv, Busy, Idle, Done
  <2>3. job = [status |-> "running", owner |-> q] /\ (f.includes => Judged) /\ f.owner = q
    BY <2>1, <2>2 DEF ExportInHand
  <2> HIDE DEF f
  <2>4. files = {}
    BY <2>1, <2>2, <2>3 DEF ExportInHand, ExportInv
  <2>5. ExportInHand(q)'
    BY <2>1, <2>3 DEF ExportInHand
  <2>6. \A p \in ExportRequests \ {q} : Busy(p)' => ExportInHand(p)'
    <3>1. \A p \in ExportRequests \ {q} : Busy(p) => thread[p].phase = "looked"
      BY <2>3 DEF ExportInv, ExportInHand
    <3>. QED
      BY <1>3, <1>4, <2>1, <2>3, <2>4, <3>1 DEF ExportInHand
  <2>7. AtMostOne(files')
    BY <2>1, <2>4 DEF AtMostOne
  <2>8. job # NoJob /\ job.owner = q /\ job.status = "running"
    BY <2>3 DEF NoJob
  <2>. QED
    BY <1>4, <2>1, <2>3, <2>4, <2>5, <2>6, <2>7, <2>8 DEF ExportInv, AtMostOne
<1>9. ASSUME CommitJob(q) PROVE ExportInv'
  <2>1. /\ files' = files /\ job' = [job EXCEPT !.status = Outcome(q)]
        /\ thread[q].phase \in {"written", "unwritten"} /\ thread'[q] = Done
    BY <1>1, <1>9 DEF CommitJob, ThreadsAreFunction
  <2>2. ExportInHand(q)
    BY <2>1 DEF ExportInv, Busy, Idle, Done
  <2>3. job = [status |-> "running", owner |-> q]
    BY <2>1, <2>2 DEF ExportInHand
  <2>4. job' = [status |-> Outcome(q), owner |-> q]
    BY <2>1, <2>3
  <2>5. Outcome(q) = "completed" => \E f \in files : f.owner = q
    BY <2>2 DEF Outcome, ExportInHand
  <2>6. Outcome(q) \in {"completed", "failed"}
    BY DEF Outcome
  <2>7. \A p \in ExportRequests \ {q} : Busy(p)' => ExportInHand(p)'
    <3>1. \A p \in ExportRequests \ {q} : Busy(p) => thread[p].phase = "looked"
      BY <2>3 DEF ExportInv, ExportInHand
    <3>. QED
      BY <1>3, <1>4, <2>1, <3>1 DEF ExportInHand, ExportInv
  <2>8. ~Busy(q)'
    BY <2>1 DEF Busy
  <2>9. job' # NoJob /\ job'.owner = q /\ job'.status = Outcome(q)
        /\ job' = [status |-> job'.status, owner |-> job'.owner]
    BY <2>4, <2>6 DEF NoJob
  <2>10. \A f \in files : f.owner = q
    BY <2>3 DEF ExportInv
  <2>. QED
    BY <1>4, <2>1, <2>5, <2>7, <2>8, <2>9, <2>10 DEF ExportInv
<1>. QED
  BY <1>5, <1>6, <1>7, <1>8, <1>9

LEMMA NextExportInv == VerdictInv /\ ExportInv /\ [Next]_vars => ExportInv'
<1> SUFFICES ASSUME VerdictInv, ExportInv, [Next]_vars PROVE ExportInv'
  OBVIOUS
<1>0. ThreadsAreFunction /\ NoVerdict \notin Exportable
  BY RequestsAssumption DEF VerdictInv, Verdicts, Exportable
<1>1. ASSUME NEW q \in Requests, RequestStep(q), UNCHANGED intakeVars PROVE ExportInv'
  <2>1. Moves(q) /\ q \in Threads
    BY <1>1, RequestMoves DEF Threads
  <2>2. CASE q \in VersionRequests
    <3>1. BeginVersion(q) \/ StartDeactivation(q) \/ Deactivate(q) \/ CommitVersion(q)
      BY <1>1, <2>2, RequestsAssumption DEF RequestStep
    <3>2. UNCHANGED <<job, files, verdict, history>>
      BY <3>1 DEF BeginVersion, StartDeactivation, Deactivate, CommitVersion
    <3>. QED
      BY <1>0, <2>1, <2>2, <3>2, Kinds, OtherStepsExportInv
  <2>3. CASE q \in VerdictRequests
    <3>1. ReadCandidate(q) \/ SaveCandidate(q) \/ CommitVerdict(q)
      BY <1>1, <2>3, RequestsAssumption DEF RequestStep
    <3>2. UNCHANGED <<job, files>> /\ history \subseteq history'
      BY <3>1 DEF ReadCandidate, SaveCandidate, CommitVerdict
    <3>3. verdict' \in Exportable => verdict' = verdict \/ Judged'
      <4>1. CASE ReadCandidate(q) \/ SaveCandidate(q)
        BY <4>1 DEF ReadCandidate, SaveCandidate
      <4>2. CASE CommitVerdict(q)
        <5>1. /\ verdict' \in {verdict, thread[q].verdict}
              /\ Entry(q) \in history' /\ Entry(q).verdict = thread[q].verdict
          BY <4>2 DEF CommitVerdict, Entry
        <5>. QED
          BY <5>1 DEF Judged
      <4>. QED
        BY <3>1, <4>1, <4>2
    <3>. QED
      BY <1>0, <2>1, <2>3, <3>2, <3>3, Kinds, OtherStepsExportInv
  <2>4. CASE q \in ExportRequests
    <3>1. \/ FindJob(q) \/ InsertJob(q) \/ ListCandidates(q)
          \/ WriteFile(q) \/ WriteFails(q) \/ CommitJob(q)
      BY <1>1, <2>4, RequestsAssumption DEF RequestStep
    <3>. QED
      BY <1>0, <2>4, <3>1, ExportStepsExportInv
  <2>. QED
    BY <2>2, <2>3, <2>4 DEF Requests
<1>2. ASSUME NEW q \in CreateRequests, FindRun(q) \/ CommitRun(q) PROVE ExportInv'
  <2>1. UNCHANGED <<job, files, verdict, history>>
    BY <1>2 DEF FindRun, CommitRun
  <2>. QED
    BY <1>0, <1>2, <2>1, IntakeMoves, Kinds, OtherStepsExportInv
<1>3. ASSUME NEW a \in PersistAttempts,
             BeginUpsert(a) \/ FindSnapshot(a) \/ SaveUpsert(a)
      PROVE  ExportInv'
  <2>1. UNCHANGED <<job, files, verdict, history>>
    BY <1>3 DEF BeginUpsert, FindSnapshot, SaveUpsert
  <2>. QED
    BY <1>0, <1>3, <2>1, IntakeMoves, Kinds, OtherStepsExportInv
<1>4. ASSUME NEW a \in PersistAttempts, CommitUpsert(a) PROVE ExportInv'
  <2>1. UNCHANGED <<job, files, history>> /\ verdict' \in {verdict, thread[a].verdict}
        /\ thread[a].phase = "upserted"
    BY <1>4 DEF CommitUpsert, WriteUpsert
  <2>2. thread[a].verdict = NoVerdict
    BY <2>1 DEF VerdictInv, UpsertInHand, Busy, Idle, Done
  <2>. QED
    BY <1>0, <1>4, <2>1, <2>2, IntakeMoves, Kinds, OtherStepsExportInv
<1>5. ASSUME SaveAnalyses \/ UNCHANGED vars PROVE ExportInv'
  <2>1. UNCHANGED <<thread, job, files, verdict, history>>
    BY <1>5 DEF SaveAnalyses, vars, recordVars
  <2>. QED
    BY <2>1 DEF ExportInv, ExportInHand, Judged, Busy
<1>6. ASSUME NEW q \in Threads, Abort(q) PROVE ExportInv'
  <2>1. thread'[q] = Done /\ UNCHANGED <<job, files, verdict, history>>
    BY <1>0, <1>6 DEF Abort, ThreadsAreFunction
  <2>. QED
    BY <1>0, <1>6, <2>1, IntakeMoves, OtherStepsExportInv
<1>. QED
  BY <1>1, <1>2, <1>3, <1>4, <1>5, <1>6 DEF Next

\* However often an export is requested with one key and wherever a request dies, one file
\* is written at most.
THEOREM ExportAlwaysOnce == Spec => []ExportedOnce
<1>1. ExportInv => ExportedOnce
  BY AtMostOneCardinality DEF ExportInv, ExportedOnce
<1>. QED
  BY InitVerdictInv, NextVerdictInv, InitExportInv, NextExportInv, <1>1, PTL DEF Spec

\* A job that says completed has its file, and what the file lists was judged exportable.
THEOREM ExportAlwaysTrue == Spec => []CompletedExportIsTrue
<1>1. ExportInv => CompletedExportIsTrue
  BY DEF ExportInv, CompletedExportIsTrue, Judged
<1>. QED
  BY InitVerdictInv, NextVerdictInv, InitExportInv, NextExportInv, <1>1, PTL DEF Spec


-----------------------------------------------------------------------------
(* The order of versions. *)

Ids(S) == {v.id : v \in S}
IdsDiffer(S) == \A v, w \in S : v.id = w.id => v = w

\* Rows that differ in their ids can be counted by them.
LEMMA IdsCount ==
    ASSUME NEW S, IdsDiffer(S), IsFiniteSet(Ids(S))
    PROVE  IsFiniteSet(S) /\ Cardinality(S) = Cardinality(Ids(S))
<1> DEFINE f == [v \in S |-> v.id]
<1>1. f \in Injection(S, Ids(S))
  BY DEF IdsDiffer, Ids, Injection, IsInjective
<1>2. f \in Surjection(S, Ids(S))
  BY DEF Ids, Surjection
<1> HIDE DEF f
<1>. QED
  BY <1>1, <1>2, FS_Injection

MaxNo == Cardinality(VersionRequests) + 1

Version == [id : VersionRequests \cup CreateRequests \cup {Earlier}, no : 1..MaxNo, active : BOOLEAN]

LEMMA KindsFinite ==
    /\ IsFiniteSet(VersionRequests) /\ Cardinality(VersionRequests) \in Nat
    /\ IsFiniteSet(VerdictRequests) /\ Cardinality(VerdictRequests) \in Nat
    /\ MaxNo \in Nat /\ MaxNo >= 1
<1>1. VersionRequests \in SUBSET Threads /\ VerdictRequests \in SUBSET Threads /\ IsFiniteSet(Threads)
  BY Kinds, RequestsAssumption
<1>2. IsFiniteSet(VersionRequests) /\ IsFiniteSet(VerdictRequests)
  BY <1>1, FS_Subset
<1>. QED
  BY <1>2, FS_CardinalityType DEF MaxNo

\* What a version request has in hand, of its count and of the rows it deactivates, is
\* still so when it is the only one under way.
VersionInHand(q) ==
    /\ thread[q].phase \in {"counted", "updating", "updated"}
    /\ thread[q].no \in 1..MaxNo
    /\ "version" \notin overlapped =>
          /\ \A p \in VersionRequests : Busy(p) => p = q
          /\ thread[q].no = Cardinality(versions) + 1
          /\ thread[q].phase # "counted" => thread[q].rows = Ids(versions)

\* Versions are made for a case that is there.  The case is there before all of them, or
\* is made together with its first version, when no request for another can have begun.
VersionInv ==
    /\ runs \subseteq CreateRequests \cup {Earlier}
    /\ cases = {} => runs = {} /\ versions = {} /\ \A q \in VersionRequests : ~Busy(q)
    /\ cases # {} /\ runs = {} => \A q \in CreateRequests : thread[q] = Done
    /\ IdsDiffer(versions)
    /\ \A v \in versions : v \in Version /\ v.id \in VersionRequests \cup runs
    /\ newest \subseteq Ids(versions)
    /\ \A q \in VersionRequests : Busy(q) => VersionInHand(q)
    /\ VersionsInOrder

\* Versions are finitely many: those of the requests that are done and a run's.
LEMMA VersionsCounted ==
    ASSUME CaseInv, VersionInv
    PROVE  /\ IsFiniteSet(versions) /\ Cardinality(versions) \in Nat
           /\ IsFiniteSet(Ids(versions)) /\ Cardinality(versions) = Cardinality(Ids(versions))
           /\ \A q \in VersionRequests : thread[q] # Done =>
                 Cardinality(versions) + 1 <= MaxNo
<1>1. IsFiniteSet(runs) /\ Cardinality(runs) <= 1 /\ Cardinality(runs) \in Nat
  <2>1. runs = {} \/ \E x : runs = {x}
    <3>1. CASE runs # {}
      <4>1. PICK x \in runs : TRUE
        BY <3>1
      <4>2. runs = {x}
        BY <4>1 DEF CaseInv, AtMostOne
      <4>. QED
        BY <4>2
    <3>. QED
      BY <3>1
  <2>2. CASE runs = {}
    BY <2>2, FS_EmptySet
  <2>3. CASE \E x : runs = {x}
    <3>1. PICK x : runs = {x}
      BY <2>3
    <3>2. IsFiniteSet({x}) /\ Cardinality({x}) = 1
      BY FS_Singleton
    <3>. QED
      BY <3>1, <3>2
  <2>. QED
    BY <2>1, <2>2, <2>3
<1>2. IsFiniteSet(VersionRequests \cup runs)
  BY <1>1, KindsFinite, FS_Union
<1>3. Ids(versions) \subseteq VersionRequests \cup runs
  BY DEF Ids, VersionInv
<1>4. IsFiniteSet(Ids(versions))
  BY <1>2, <1>3, FS_Subset
<1>5. IsFiniteSet(versions) /\ Cardinality(versions) = Cardinality(Ids(versions))
      /\ Cardinality(versions) \in Nat
  BY <1>4, IdsCount, FS_CardinalityType DEF VersionInv
<1>6. ASSUME NEW q \in VersionRequests, thread[q] # Done
      PROVE  Cardinality(versions) + 1 <= MaxNo
  <2> DEFINE U == (VersionRequests \ {q}) \cup runs
  <2>1. IsFiniteSet(VersionRequests \ {q})
        /\ Cardinality(VersionRequests \ {q}) = Cardinality(VersionRequests) - 1
    BY <1>6, KindsFinite, FS_RemoveElement
  <2>2. IsFiniteSet((VersionRequests \ {q}) \cap runs)
        /\ Cardinality((VersionRequests \ {q}) \cap runs) \in Nat
    <3>1. (VersionRequests \ {q}) \cap runs \in SUBSET runs
      OBVIOUS
    <3>. QED
      BY <1>1, <3>1, FS_Subset, FS_CardinalityType
  <2>3. IsFiniteSet(U) /\ Cardinality(U) <= Cardinality(VersionRequests)
    <3> DEFINE A == VersionRequests \ {q}
    <3>1. IsFiniteSet(A) /\ Cardinality(A) = Cardinality(VersionRequests) - 1
          /\ Cardinality(A \cap runs) \in Nat
      BY <2>1, <2>2
    <3> HIDE DEF A
    <3>2. /\ IsFiniteSet(A \cup runs)
          /\ Cardinality(A \cup runs)
               = Cardinality(A) + Cardinality(runs) - Cardinality(A \cap runs)
      BY <1>1, <3>1, FS_Union
    <3>3. Cardinality(A \cup runs) <= Cardinality(VersionRequests)
      BY <1>1, <3>1, <3>2, KindsFinite
    <3>. QED
      BY <3>2, <3>3 DEF A
  <2>4. Ids(versions) \in SUBSET U
    BY <1>3, <1>6 DEF CaseInv, Ids
  <2> HIDE DEF U
  <2>5. Cardinality(Ids(versions)) <= Cardinality(U) /\ Cardinality(U) \in Nat
    BY <2>3, <2>4, FS_Subset, FS_CardinalityType
  <2>. QED
    BY <1>5, <2>3, <2>5, KindsFinite DEF MaxNo
<1>. QED
  BY <1>4, <1>5, <1>6

LEMMA InitVersionInv == Init => VersionInv
<1> SUFFICES ASSUME Init PROVE VersionInv
  OBVIOUS
<1>1. PICK mix \in Mixes :
          /\ thread = [q \in Threads |-> IF q \in mix.threads THEN Idle ELSE Done]
          /\ cases = IF mix.given \in {"case", "candidate"} THEN {Earlier} ELSE {}
          /\ runs = IF mix.given \in {"candidate"} THEN {Earlier} ELSE {}
          /\ versions = {[id |-> q, no |-> 1, active |-> TRUE] : q \in runs}
          /\ newest = runs
  BY DEF Init
<1>2. \A q \in Threads : ~Busy(q)
  BY <1>1 DEF Busy
<1>3. mix.given # "nothing" => mix.threads \cap CreateRequests = {}
  BY IntakeAssumption
<1>4. cases # {} => \A q \in CreateRequests : thread[q] = Done
  BY <1>1, <1>3, Kinds
<1>5. CASE runs = {}
  <2>1. versions = {} /\ newest = {} /\ VersionsInOrder
    <3>1. versions = {} /\ newest = {}
      BY <1>1, <1>5
    <3>2. Cardinality(versions) = 0
      BY <3>1, FS_EmptySet
    <3>3. {v.no : v \in versions} = 1..0
      BY <3>1
    <3>. QED
      BY <3>1, <3>2, <3>3 DEF VersionsInOrder
  <2>. QED
    BY <1>2, <1>4, <1>5, <2>1, Kinds DEF VersionInv, IdsDiffer
<1>6. CASE runs # {}
  <2> DEFINE first == [id |-> Earlier, no |-> 1, active |-> TRUE]
  <2>1. runs = {Earlier} /\ cases = {Earlier} /\ newest = {Earlier} /\ versions = {first}
    BY <1>1, <1>6
  <2>2. first.id = Earlier /\ first.no = 1 /\ first.active = TRUE /\ first \in Version
    BY KindsFinite DEF Version
  <2> HIDE DEF first
  <2>3. VersionsInOrder
    <3>1. Cardinality(versions) = 1
      BY <2>1, FS_Singleton
    <3>2. {v.no : v \in versions} = {1}
      BY <2>1, <2>2
    <3>3. 1..1 = {1}
      OBVIOUS
    <3>. QED
      BY <2>1, <2>2, <3>1, <3>2, <3>3 DEF VersionsInOrder
  <2>4. newest \subseteq Ids(versions)
    BY <2>1, <2>2 DEF Ids
  <2>. QED
    BY <1>2, <2>1, <2>2, <2>3, <2>4, Kinds DEF VersionInv, IdsDiffer
<1>. QED
  BY <1>5, <1>6

\* A thread of another kind moves, or one is done with.
LEMMA OtherStepsVersionInv ==
    ASSUME CaseInv, VersionInv, UNCHANGED <<cases, runs, versions, newest>>,
           NEW q \in Threads, Moves(q), q \in VersionRequests => thread'[q] = Done,
           overlapped \subseteq overlapped',
           overlapped' \subseteq overlapped \cup {"verdict", "upsert"}
    PROVE  VersionInv'
<1>1. ThreadsAreFunction' /\ \A p \in Threads \ {q} : thread'[p] = thread[p]
  BY OthersStay DEF CaseInv
<1>2. \A p \in VersionRequests : Busy(p)' => Busy(p) /\ thread'[p] = thread[p]
  BY <1>1, Kinds DEF Busy
<1>3. "version" \in overlapped' <=> "version" \in overlapped
  OBVIOUS
<1>4. \A p \in CreateRequests : thread[p] = Done => thread'[p] = Done
  BY <1>1, Kinds DEF Moves
<1>5. \A p \in VersionRequests : Busy(p)' => VersionInHand(p)'
  BY <1>2, <1>3 DEF VersionInv, VersionInHand
<1>6. VersionsInOrder'
  BY <1>3 DEF VersionInv, VersionsInOrder
<1>. QED
  BY <1>2, <1>4, <1>5, <1>6 DEF VersionInv

LEMMA BeginVersionInv ==
    ASSUME CaseInv, VersionInv, NEW q \in VersionRequests, BeginVersion(q), cases # {},
           UNCHANGED intakeVars
    PROVE  VersionInv'
<1>1. q \in Threads /\ Moves(q) /\ q \notin CreateRequests
  BY Kinds, RequestMoves, RequestsAssumption DEF RequestStep, Requests
<1>2. ThreadsAreFunction' /\ \A p \in Threads \ {q} : thread'[p] = thread[p]
  BY <1>1, OthersStay DEF CaseInv
<1>3. /\ thread[q] = Idle /\ thread'[q] = [phase |-> "counted", no |-> Cardinality(versions) + 1]
      /\ overlapped' = Overlap("version", q, VersionRequests)
      /\ UNCHANGED <<versions, newest, cases, runs>>
  BY <1>1 DEF BeginVersion, CountVersions, CaseInv, ThreadsAreFunction, intakeVars
<1>4. /\ overlapped \subseteq overlapped'
      /\ "version" \notin overlapped' => \A p \in VersionRequests \ {q} : ~Busy(p)
  BY <1>3, OverlapAdds
<1>5. Cardinality(versions) + 1 \in 1..MaxNo
  <2>1. thread[q] # Done
    BY <1>3, DoneIsDone
  <2>. QED
    BY <2>1, VersionsCounted, KindsFinite
<1>6. VersionInHand(q)'
  <2>1. thread'[q].phase = "counted" /\ thread'[q].no = Cardinality(versions) + 1
    BY <1>3
  <2>2. "version" \notin overlapped' => \A p \in VersionRequests : Busy(p)' => p = q
    BY <1>2, <1>4, Kinds DEF Busy
  <2>. QED
    BY <1>3, <1>5, <2>1, <2>2 DEF VersionInHand
<1>7. \A p \in VersionRequests \ {q} : Busy(p)' => VersionInHand(p)'
  <2> TAKE p \in VersionRequests \ {q}
  <2> HAVE Busy(p)'
  <2>1. Busy(p) /\ thread'[p] = thread[p]
    BY <1>2, Kinds DEF Busy
  <2>2. "version" \in overlapped'
    BY <1>4, <2>1
  <2>. QED
    BY <2>1, <2>2 DEF VersionInv, VersionInHand
<1>8. VersionsInOrder'
  BY <1>3, <1>4 DEF VersionInv, VersionsInOrder
<1>9. \A p \in CreateRequests : thread'[p] = thread[p]
  BY <1>1, <1>2, Kinds
<1>. QED
  BY <1>3, <1>6, <1>7, <1>8, <1>9 DEF VersionInv

LEMMA DeactivateVersionInv ==
    ASSUME CaseInv, VersionInv, NEW q \in VersionRequests,
           StartDeactivation(q) \/ Deactivate(q), UNCHANGED intakeVars
    PROVE  VersionInv'
<1>1. q \in Threads /\ Moves(q) /\ q \notin CreateRequests
  BY Kinds, RequestMoves, RequestsAssumption DEF RequestStep, Requests
<1>2. ThreadsAreFunction' /\ \A p \in Threads \ {q} : thread'[p] = thread[p]
  BY <1>1, OthersStay DEF CaseInv
<1>3. UNCHANGED <<versions, newest, overlapped, cases, runs>>
  BY DEF StartDeactivation, Deactivate, intakeVars
<1>4. Busy(q) /\ VersionInHand(q)
  <2>1. thread[q].phase \in {"counted", "updating"}
    BY DEF StartDeactivation, Deactivate
  <2>. QED
    BY <2>1 DEF Busy, Idle, Done, VersionInv
<1>5. VersionInHand(q)'
  <2>1. CASE StartDeactivation(q)
    <3>1. thread'[q] = [phase |-> "updating", no |-> thread[q].no, rows |-> Ids(versions)]
      BY <1>1, <2>1 DEF StartDeactivation, CaseInv, ThreadsAreFunction, Ids
    <3>2. thread'[q].phase = "updating" /\ thread'[q].no = thread[q].no
          /\ thread'[q].rows = Ids(versions)
      BY <3>1
    <3>3. \A p \in VersionRequests : Busy(p)' => p = q \/ Busy(p)
      BY <1>2, Kinds DEF Busy
    <3>. QED
      BY <1>3, <1>4, <3>2, <3>3 DEF VersionInHand
  <2>2. CASE Deactivate(q)
    <3>1. thread'[q] = [thread[q] EXCEPT !.phase = "updated"] /\ thread[q].phase = "updating"
      BY <1>1, <2>2 DEF Deactivate, CaseInv, ThreadsAreFunction
    <3>2. thread'[q].phase \in {"updated", "updating"}
          /\ thread'[q].no = thread[q].no /\ thread'[q].rows = thread[q].rows
      BY <3>1
    <3>3. \A p \in VersionRequests : Busy(p)' => p = q \/ Busy(p)
      BY <1>2, Kinds DEF Busy
    <3>. QED
      BY <1>3, <1>4, <3>1, <3>2, <3>3 DEF VersionInHand
  <2>. QED
    BY <2>1, <2>2
<1>6. \A p \in VersionRequests \ {q} : Busy(p)' => VersionInHand(p)'
  <2> TAKE p \in VersionRequests \ {q}
  <2> HAVE Busy(p)'
  <2>1. Busy(p) /\ thread'[p] = thread[p] /\ VersionInHand(p)
    BY <1>2, Kinds DEF Busy, VersionInv
  <2>2. "version" \in overlapped
    BY <1>4, <2>1 DEF VersionInHand
  <2>. QED
    BY <1>3, <2>1, <2>2 DEF VersionInHand
<1>7. \A p \in CreateRequests : thread'[p] = thread[p]
  BY <1>1, <1>2, Kinds
<1>8. cases # {}
  BY <1>4 DEF VersionInv
<1>. QED
  BY <1>3, <1>5, <1>6, <1>7, <1>8 DEF VersionInv, VersionsInOrder
LEMMA CommitVersionVersionInv ==
    ASSUME CaseInv, VersionInv, NEW q \in VersionRequests, CommitVersion(q),
           UNCHANGED intakeVars
    PROVE  VersionInv'
<1> DEFINE new == [id |-> q, no |-> thread[q].no, active |-> TRUE]
           Kept(v) == [v EXCEPT !.active = @ /\ v.id \notin thread[q].rows]
<1>1. q \in Threads /\ Moves(q) /\ q \notin CreateRequests
  BY Kinds, RequestMoves, RequestsAssumption DEF RequestStep, Requests
<1>2. ThreadsAreFunction' /\ \A p \in Threads \ {q} : thread'[p] = thread[p]
  BY <1>1, OthersStay DEF CaseInv
<1>3. /\ versions' = {Kept(v) : v \in versions} \cup {new}
      /\ newest' = {q} /\ UNCHANGED <<overlapped, cases, runs>>
      /\ thread'[q] = Done /\ thread[q].phase = "updated"
  BY <1>1 DEF CommitVersion, intakeVars, CaseInv, ThreadsAreFunction
<1>4. Busy(q) /\ VersionInHand(q) /\ thread[q] # Done
  BY <1>3 DEF Busy, Idle, Done, VersionInv
<1>5. new \in Version /\ new.id = q /\ new.no = thread[q].no /\ new.active = TRUE
  BY <1>4 DEF VersionInHand, Version
<1>6. \A v \in versions : /\ Kept(v) \in Version /\ Kept(v).id = v.id /\ Kept(v).no = v.no
                          /\ v.id # q
                          /\ Kept(v).active = (v.active /\ v.id \notin thread[q].rows)
  <2> TAKE v \in versions
  <2>1. v \in Version /\ v.id # q
    BY <1>4 DEF VersionInv, CaseInv
  <2>2. (v.active /\ v.id \notin thread[q].rows) \in BOOLEAN
    BY Zenon
  <2>. QED
    BY <2>1, <2>2 DEF Version
<1> HIDE DEF new, Kept
<1>7. Ids(versions') = Ids(versions) \cup {q} /\ q \notin Ids(versions) /\ IdsDiffer(versions')
  BY <1>3, <1>5, <1>6 DEF Ids, IdsDiffer, VersionInv
<1>8. Cardinality(versions') = Cardinality(versions) + 1 /\ Cardinality(versions) \in Nat
  <2>1. IsFiniteSet(Ids(versions)) /\ Cardinality(versions) = Cardinality(Ids(versions))
        /\ Cardinality(versions) \in Nat
    BY VersionsCounted
  <2>2. IsFiniteSet(Ids(versions')) /\ Cardinality(Ids(versions')) = Cardinality(Ids(versions)) + 1
    BY <1>7, <2>1, FS_AddElement
  <2>3. Cardinality(versions') = Cardinality(Ids(versions'))
    BY <1>7, <2>2, IdsCount
  <2>. QED
    BY <2>1, <2>2, <2>3
<1>9. VersionsInOrder'
  <2> SUFFICES ASSUME "version" \notin overlapped
               PROVE  /\ {v.no : v \in versions'} = 1..Cardinality(versions')
                      /\ \A v \in versions' : v.active <=> v.no = Cardinality(versions')
    BY <1>3 DEF VersionsInOrder
  <2> DEFINE n == Cardinality(versions)
  <2>1. new.no = n + 1 /\ thread[q].rows = Ids(versions) /\ {v.no : v \in versions} = 1..n
    BY <1>3, <1>4, <1>5 DEF VersionInHand, VersionInv, VersionsInOrder
  <2>2. \A v \in versions : ~Kept(v).active /\ Kept(v).no \in 1..n
    BY <1>6, <2>1 DEF Ids
  <2>3. {v.no : v \in versions'} = (1..n) \cup {n + 1}
    BY <1>3, <1>6, <2>1
  <2> HIDE DEF n
  <2>4. (1..n) \cup {n + 1} = 1..(n + 1) /\ \A k \in 1..n : k # n + 1
    BY <1>8 DEF n
  <2>5. \A v \in versions' : v.active <=> v.no = n + 1
    BY <1>3, <1>5, <2>1, <2>2, <2>4
  <2>. QED
    BY <1>8, <2>3, <2>4, <2>5 DEF n
<1>10. \A p \in VersionRequests : Busy(p)' => VersionInHand(p)'
  <2> TAKE p \in VersionRequests
  <2> HAVE Busy(p)'
  <2>1. p # q /\ Busy(p) /\ thread'[p] = thread[p] /\ VersionInHand(p)
    BY <1>2, <1>3, Kinds DEF Busy, VersionInv
  <2>2. "version" \in overlapped
    BY <1>4, <2>1 DEF VersionInHand
  <2>. QED
    BY <1>3, <2>1, <2>2 DEF VersionInHand
<1>11. \A v \in versions' : v \in Version /\ v.id \in VersionRequests \cup runs'
  BY <1>3, <1>5, <1>6 DEF VersionInv
<1>12. newest' \subseteq Ids(versions')
  BY <1>3, <1>7
<1>13. \A p \in CreateRequests : thread'[p] = thread[p]
  BY <1>1, <1>2, Kinds
<1>14. cases # {}
  BY <1>4 DEF VersionInv
<1>. QED
  BY <1>3, <1>7, <1>9, <1>10, <1>11, <1>12, <1>13, <1>14 DEF VersionInv

LEMMA CommitRunVersionInv ==
    ASSUME CaseInv, VersionInv, NEW q \in CreateRequests, CommitRun(q)
    PROVE  VersionInv'
<1>1. q \in Threads /\ Moves(q) /\ q \notin VersionRequests
  <2>1. q \in Threads /\ q \notin VersionRequests
    BY Kinds, RequestsAssumption DEF Requests
  <2>2. Moves(q)
    BY IntakeMoves
  <2>. QED
    BY <2>1, <2>2
<1>2. CASE runs # {}
  <2>1. UNCHANGED <<cases, runs, versions, newest, overlapped>>
    BY <1>2 DEF CommitRun
  <2>. QED
    BY <1>1, <2>1, OtherStepsVersionInv
<1>3. CASE runs = {}
  <2> DEFINE new == [id |-> q, no |-> 1, active |-> TRUE]
  <2>1. /\ versions' = versions \cup {new} /\ newest' = {q}
        /\ cases' = cases \cup {q} /\ runs' = {q} /\ UNCHANGED overlapped
        /\ thread[q].phase = "sought"
    BY <1>3 DEF CommitRun, InsertRun
  <2>2. cases = {} /\ versions = {} /\ \A p \in VersionRequests : ~Busy(p)
    BY <1>3, <2>1, DoneIsDone DEF VersionInv
  <2>3. new \in Version /\ new.id = q /\ new.no = 1 /\ new.active = TRUE
    BY KindsFinite DEF Version
  <2> HIDE DEF new
  <2>4. versions' = {new}
    BY <2>1, <2>2
  <2>5. VersionsInOrder'
    <3>1. Cardinality(versions') = 1
      BY <2>4, FS_Singleton
    <3>2. {v.no : v \in versions'} = {1} /\ {1} = 1..1
      BY <2>3, <2>4
    <3>. QED
      BY <2>3, <2>4, <3>1, <3>2 DEF VersionsInOrder
  <2>6. ThreadsAreFunction' /\ \A p \in Threads \ {q} : thread'[p] = thread[p]
    BY <1>1, OthersStay DEF CaseInv
  <2>7. \A p \in VersionRequests : ~Busy(p)'
    BY <1>1, <2>2, <2>6, Kinds DEF Busy
  <2>8. newest' \subseteq Ids(versions') /\ IdsDiffer(versions')
    BY <2>1, <2>3, <2>4 DEF Ids, IdsDiffer
  <2>. QED
    BY <2>1, <2>3, <2>4, <2>5, <2>7, <2>8 DEF VersionInv
<1>. QED
  BY <1>2, <1>3

LEMMA NextVersionInv == CaseInv /\ VersionInv /\ [Next]_vars => VersionInv'
<1> SUFFICES ASSUME CaseInv, VersionInv, [Next]_vars PROVE VersionInv'
  OBVIOUS
<1>1. ASSUME NEW q \in Requests, Answerable(q), RequestStep(q), UNCHANGED intakeVars
      PROVE  VersionInv'
  <2>1. q \in Threads /\ Moves(q) /\ UNCHANGED <<cases, runs>>
    BY <1>1, RequestMoves DEF Threads, intakeVars
  <2>2. CASE q \in VersionRequests
    <3>1. cases # {}
      BY <1>1, <2>2, Kinds DEF Answerable
    <3>2. BeginVersion(q) \/ StartDeactivation(q) \/ Deactivate(q) \/ CommitVersion(q)
      BY <1>1, <2>2, RequestsAssumption DEF RequestStep
    <3>. QED
      BY <1>1, <2>2, <3>1, <3>2, BeginVersionInv, DeactivateVersionInv, CommitVersionVersionInv
  <2>3. CASE q \in VerdictRequests
    <3>1. ReadCandidate(q) \/ SaveCandidate(q) \/ CommitVerdict(q)
      BY <1>1, <2>3, RequestsAssumption DEF RequestStep
    <3>2. UNCHANGED <<versions, newest>> /\ overlapped' \in {overlapped, Overlap("verdict", q, VerdictRequests)}
      BY <3>1 DEF ReadCandidate, SaveCandidate, CommitVerdict
    <3>3. overlapped \subseteq overlapped' /\ overlapped' \subseteq overlapped \cup {"verdict", "upsert"}
      BY <3>2, OverlapAdds
    <3>. QED
      BY <2>1, <2>3, <3>2, <3>3, RequestsAssumption, OtherStepsVersionInv
  <2>4. CASE q \in ExportRequests
    <3>1. UNCHANGED <<versions, newest, overlapped>>
      BY <1>1, <2>4, RequestsAssumption
      DEF RequestStep, FindJob, InsertJob, ListCandidates, WriteFile, WriteFails, CommitJob
    <3>. QED
      BY <2>1, <2>4, <3>1, RequestsAssumption, OtherStepsVersionInv
  <2>. QED
    BY <2>2, <2>3, <2>4 DEF Requests
<1>2. ASSUME NEW q \in CreateRequests, FindRun(q) PROVE VersionInv'
  <2>1. UNCHANGED <<cases, runs, versions, newest, overlapped>>
    BY <1>2 DEF FindRun, intakeVars
  <2>. QED
    <3>1. q \in Threads /\ q \notin VersionRequests
      BY <1>2, Kinds, RequestsAssumption DEF Requests
    <3>2. Moves(q)
      BY <1>2, IntakeMoves
    <3>. QED
      BY <2>1, <3>1, <3>2, OtherStepsVersionInv
<1>3. ASSUME NEW q \in CreateRequests, CommitRun(q) PROVE VersionInv'
  BY <1>3, CommitRunVersionInv
<1>4. ASSUME NEW a \in PersistAttempts,
             BeginUpsert(a) \/ FindSnapshot(a) \/ SaveUpsert(a) \/ CommitUpsert(a)
      PROVE  VersionInv'
  <2>1. UNCHANGED <<cases, runs, versions, newest>>
        /\ overlapped' \in {overlapped, Overlap("upsert", a, PersistAttempts)}
    BY <1>4 DEF BeginUpsert, FindSnapshot, SaveUpsert, CommitUpsert, intakeVars
  <2>2. overlapped \subseteq overlapped' /\ overlapped' \subseteq overlapped \cup {"verdict", "upsert"}
    BY <2>1, OverlapAdds
  <2>. QED
    BY <1>4, <2>1, <2>2, Kinds, IntakeMoves, OtherStepsVersionInv, RequestsAssumption
<1>5. ASSUME SaveAnalyses \/ UNCHANGED vars PROVE VersionInv'
  <2>1. UNCHANGED <<thread, cases, runs, versions, newest, overlapped>>
    BY <1>5 DEF SaveAnalyses, vars, recordVars, intakeVars
  <2>. QED
    BY <2>1 DEF VersionInv, VersionInHand, VersionsInOrder, Busy
<1>6. ASSUME NEW q \in Threads, Abort(q), UNCHANGED intakeVars PROVE VersionInv'
  <2>1. UNCHANGED <<cases, runs, versions, newest, overlapped>> /\ thread'[q] = Done
    BY <1>6 DEF Abort, intakeVars, CaseInv, ThreadsAreFunction
  <2>. QED
    BY <1>6, <2>1, IntakeMoves, OtherStepsVersionInv
<1>. QED
  BY <1>1, <1>2, <1>3, <1>4, <1>5, <1>6 DEF Next

\* As long as requests for versions come one at a time, and whatever is aborted, versions
\* are numbered without a gap and only the last is active (create_jd_version).
THEOREM VersionsAlwaysInOrder == Spec => []VersionsInOrder
<1>1. VersionInv => VersionsInOrder
  BY DEF VersionInv
<1>. QED
  BY InitCaseInv, NextCaseInv, InitVersionInv, NextVersionInv, <1>1, PTL DEF Spec
-----------------------------------------------------------------------------
(* Types. *)

Job == [status : {"running", "completed", "failed"}, owner : ExportRequests]
File == [owner : ExportRequests, includes : BOOLEAN]

\* Verdict requests that have read the clock, or never will.
Begun == {q \in VerdictRequests : thread[q] # Idle}

ClockInv ==
    /\ clock <= Cardinality(Begun)
    /\ \A h \in history : h = [verdict |-> h.verdict, at |-> h.at] /\ h.at >= 1
    /\ \A q \in VerdictRequests : Busy(q) => thread[q].at >= 1

\* A request that has only looked is not the owner of the job.
JobInHand(q) ==
    /\ thread[q].phase = "looked" => job = NoJob \/ job.owner # q
    /\ thread[q].phase = "listed" => thread[q].includes \in BOOLEAN

JobInv ==
    /\ job = NoJob \/ job \in Job
    /\ files \subseteq File
    /\ \A q \in ExportRequests : Busy(q) => JobInHand(q)

PhaseInv ==
    /\ \A q \in CreateRequests : Busy(q) => thread[q].phase = "sought"
    /\ \A a \in PersistAttempts : Busy(a) => thread[a].phase \in {"found", "compared", "upserted"}
    /\ overlapped \subseteq {"version", "verdict", "upsert"}

LEMMA BegunCounted ==
    /\ IsFiniteSet(Begun) /\ Cardinality(Begun) \in Nat
    /\ Cardinality(Begun) <= Cardinality(VerdictRequests)
<1>1. Begun \in SUBSET VerdictRequests
  BY DEF Begun
<1>. QED
  BY <1>1, KindsFinite, FS_Subset, FS_CardinalityType

LEMMA InitRecordInv == Init => ClockInv /\ JobInv /\ PhaseInv
<1> SUFFICES ASSUME Init PROVE ClockInv /\ JobInv /\ PhaseInv
  OBVIOUS
<1>1. \A q \in Threads : ~Busy(q)
  BY DEF Init, Busy
<1>2. clock = 0 /\ history = {} /\ job = NoJob /\ files = {} /\ overlapped = {}
  BY DEF Init, RecordsInit
<1>3. ClockInv
  BY <1>1, <1>2, BegunCounted, Kinds DEF ClockInv
<1>. QED
  BY <1>1, <1>2, <1>3, Kinds DEF JobInv, PhaseInv

\* No step makes a verdict request that has begun one that has not.
LEMMA BegunGrows ==
    ASSUME ThreadsAreFunction, NEW q \in Threads, Moves(q), thread'[q] # Idle
    PROVE  /\ Begun \subseteq Begun'
           /\ Cardinality(Begun) <= Cardinality(Begun') /\ Cardinality(Begun') \in Nat
           /\ q \in VerdictRequests /\ thread[q] = Idle =>
                 Cardinality(Begun') = Cardinality(Begun) + 1
<1>1. \A p \in Threads \ {q} : thread'[p] = thread[p]
  BY OthersStay
<1>2. Begun \subseteq Begun' /\ Begun' \in SUBSET VerdictRequests
  BY <1>1, Kinds DEF Begun
<1>3. IsFiniteSet(Begun') /\ Cardinality(Begun') \in Nat
  BY <1>2, KindsFinite, FS_Subset, FS_CardinalityType
<1>4. Begun \in SUBSET Begun'
  BY <1>2
<1>5. Cardinality(Begun) <= Cardinality(Begun')
  BY <1>3, <1>4, FS_Subset
<1>6. ASSUME q \in VerdictRequests, thread[q] = Idle
      PROVE  Cardinality(Begun') = Cardinality(Begun) + 1
  <2>1. Begun' = Begun \cup {q} /\ q \notin Begun
    BY <1>1, <1>6, Kinds DEF Begun
  <2>. QED
    BY <2>1, BegunCounted, FS_AddElement
<1>. QED
  BY <1>2, <1>3, <1>5, <1>6

\* A thread of another kind moves, or one is done with.
LEMMA OtherStepsClockInv ==
    ASSUME VerdictInv, ClockInv, UNCHANGED <<history, clock>>, NEW q \in Threads, Moves(q),
           thread'[q] # Idle, q \in VerdictRequests => thread'[q] = Done
    PROVE  ClockInv'
<1>1. ThreadsAreFunction' /\ \A p \in Threads \ {q} : thread'[p] = thread[p]
  BY OthersStay DEF VerdictInv
<1>2. \A p \in VerdictRequests : Busy(p)' => Busy(p) /\ thread'[p] = thread[p]
  BY <1>1, Kinds DEF Busy
<1>3. clock <= Cardinality(Begun')
  BY BegunGrows, BegunCounted DEF ClockInv, VerdictInv
<1>. QED
  BY <1>2, <1>3 DEF ClockInv

LEMMA VerdictStepsClockInv ==
    ASSUME VerdictInv, ClockInv, NEW q \in VerdictRequests,
           ReadCandidate(q) \/ SaveCandidate(q) \/ CommitVerdict(q)
    PROVE  ClockInv'
<1>1. q \in Threads /\ Moves(q)
  BY Kinds, RequestMoves DEF RequestStep, Requests
<1>2. \A p \in Threads \ {q} : thread'[p] = thread[p]
  BY <1>1, OthersStay DEF VerdictInv
<1>3. \A p \in VerdictRequests \ {q} : Busy(p)' => thread'[p].at >= 1
  BY <1>2, Kinds DEF Busy, ClockInv
<1>4. CASE ReadCandidate(q)
  <2>1. PICK v \in Verdicts :
            thread' = [thread EXCEPT ![q] = [phase |-> "read", verdict |-> v, at |-> clock + 1]]
    BY <1>4 DEF ReadCandidate
  <2>2. thread'[q] = [phase |-> "read", verdict |-> v, at |-> clock + 1]
    BY <1>1, <2>1 DEF VerdictInv, ThreadsAreFunction
  <2>3. thread[q] = Idle /\ clock' = clock + 1 /\ history' = history
    BY <1>4 DEF ReadCandidate
  <2>4. thread'[q] # Idle /\ thread'[q].at >= 1
    BY <2>2 DEF Idle, VerdictInv
  <2>5. clock' <= Cardinality(Begun')
    BY <1>1, <2>3, <2>4, BegunGrows, BegunCounted DEF VerdictInv, ClockInv
  <2>. QED
    BY <1>3, <2>3, <2>4, <2>5 DEF ClockInv
<1>5. CASE SaveCandidate(q)
  <2>1. thread[q].phase = "read" /\ UNCHANGED <<history, clock>>
        /\ thread'[q].at = thread[q].at /\ thread'[q].phase = "saved"
    BY <1>1, <1>5 DEF SaveCandidate, VerdictInv, ThreadsAreFunction
  <2>2. Busy(q) /\ thread'[q] # Idle
    BY <2>1 DEF Busy, Idle, Done
  <2>3. clock' <= Cardinality(Begun')
    BY <1>1, <2>1, <2>2, BegunGrows, BegunCounted DEF VerdictInv, ClockInv
  <2>. QED
    BY <1>3, <2>1, <2>2, <2>3 DEF ClockInv
<1>6. CASE CommitVerdict(q)
  <2>1. /\ thread[q].phase = "saved" /\ clock' = clock
        /\ history' = history \cup {Entry(q)} /\ thread'[q] = Done
    BY <1>1, <1>6 DEF CommitVerdict, VerdictInv, ThreadsAreFunction
  <2>2. Busy(q) /\ thread'[q] # Idle
    BY <2>1 DEF Busy, Idle, Done
  <2> DEFINE e == Entry(q)
  <2>3. e = [verdict |-> e.verdict, at |-> e.at] /\ e.at >= 1
    BY <2>2 DEF Entry, ClockInv
  <2> HIDE DEF e
  <2>4. \A h \in history' : h = [verdict |-> h.verdict, at |-> h.at] /\ h.at >= 1
    BY <2>1, <2>3 DEF ClockInv, e
  <2>5. clock' <= Cardinality(Begun')
    BY <1>1, <2>1, <2>2, BegunGrows, BegunCounted DEF VerdictInv, ClockInv
  <2>6. ~Busy(q)'
    BY <2>1 DEF Busy
  <2>. QED
    BY <1>3, <2>4, <2>5, <2>6 DEF ClockInv
<1>. QED
  BY <1>4, <1>5, <1>6

LEMMA OtherStepsJobInv ==
    ASSUME JobInv, ThreadsAreFunction, UNCHANGED <<job, files>>, NEW q \in Threads, Moves(q),
           q \in ExportRequests => thread'[q] = Done
    PROVE  JobInv'
<1>1. \A p \in Threads \ {q} : thread'[p] = thread[p]
  BY OthersStay
<1>2. \A p \in ExportRequests : Busy(p)' => Busy(p) /\ thread'[p] = thread[p]
  BY <1>1, Kinds DEF Busy
<1>. QED
  BY <1>2 DEF JobInv, JobInHand

LEMMA ExportStepsJobInv ==
    ASSUME JobInv, ExportInv, ThreadsAreFunction, NEW q \in ExportRequests,
           \/ FindJob(q) \/ InsertJob(q) \/ ListCandidates(q)
           \/ WriteFile(q) \/ WriteFails(q) \/ CommitJob(q)
    PROVE  JobInv'
<1>1. q \in Threads /\ Moves(q)
  BY Kinds, RequestMoves, RequestsAssumption DEF RequestStep, Requests
<1>2. \A p \in Threads \ {q} : thread'[p] = thread[p]
  BY <1>1, OthersStay
<1>3. \A p \in ExportRequests \ {q} : Busy(p)' => Busy(p) /\ thread'[p] = thread[p] /\ JobInHand(p)
  BY <1>2, Kinds DEF Busy, JobInv
<1>4. CASE FindJob(q)
  <2>1. UNCHANGED <<job, files>> /\ thread'[q] = IF job # NoJob THEN Done ELSE [phase |-> "looked"]
    BY <1>1, <1>4 DEF FindJob, ThreadsAreFunction
  <2>2. Busy(q)' => JobInHand(q)'
    BY <2>1 DEF Busy, JobInHand
  <2>3. \A p \in ExportRequests : Busy(p)' => JobInHand(p)'
    BY <1>3, <2>1, <2>2 DEF JobInHand
  <2>. QED
    BY <2>1, <2>3 DEF JobInv
<1>5. CASE InsertJob(q) /\ job # NoJob
  <2>1. UNCHANGED <<job, files>> /\ thread'[q] = Done
    BY <1>1, <1>5 DEF InsertJob, ThreadsAreFunction
  <2>. QED
    BY <1>1, <2>1, OtherStepsJobInv
<1>6. CASE InsertJob(q) /\ job = NoJob
  <2>1. /\ job' = [status |-> "running", owner |-> q] /\ files' = files
        /\ thread'[q].phase = "inserted"
    BY <1>1, <1>6 DEF InsertJob, ThreadsAreFunction
  <2>2. job' \in Job /\ job'.owner = q
    BY <2>1 DEF Job
  <2>3. JobInHand(q)'
    BY <2>1 DEF JobInHand
  <2>4. \A p \in ExportRequests : Busy(p)' => JobInHand(p)'
    BY <1>3, <2>2, <2>3 DEF JobInHand
  <2>. QED
    BY <2>1, <2>2, <2>4 DEF JobInv
<1>7. CASE ListCandidates(q) \/ WriteFails(q)
  <2>1. UNCHANGED <<job, files>>
        /\ \/ thread'[q] = [phase |-> "listed", includes |-> verdict \in Exportable]
           \/ thread'[q] = [phase |-> "unwritten"]
    BY <1>1, <1>7 DEF ListCandidates, WriteFails, ThreadsAreFunction
  <2>2. \A b : b \in BOOLEAN =>
            LET t == [phase |-> "listed", includes |-> b]
            IN  t.phase # "looked" /\ t.includes \in BOOLEAN
    OBVIOUS
  <2>3. (verdict \in Exportable) \in BOOLEAN
    <3>1. (verdict \in Exportable) = TRUE \/ (verdict \in Exportable) = FALSE
      OBVIOUS
    <3>. QED
      BY <3>1
  <2>4. [phase |-> "unwritten"].phase = "unwritten"
    OBVIOUS
  <2>5. thread'[q].phase # "looked" /\ (thread'[q].phase = "listed" => thread'[q].includes \in BOOLEAN)
    BY <2>1, <2>2, <2>3, <2>4, Zenon
  <2>6. \A p \in ExportRequests : Busy(p)' => JobInHand(p)'
    BY <1>3, <2>1, <2>5 DEF JobInHand
  <2>. QED
    BY <2>1, <2>6 DEF JobInv
<1>8. CASE WriteFile(q)
  <2>1. /\ thread[q].phase = "listed" /\ job' = job
        /\ files' = files \cup {[owner |-> q, includes |-> thread[q].includes]}
        /\ thread'[q] = [phase |-> "written"]
    BY <1>1, <1>8 DEF WriteFile, ThreadsAreFunction
  <2>2. thread[q].includes \in BOOLEAN
    BY <2>1 DEF JobInv, JobInHand, Busy, Idle, Done
  <2>3. files' \subseteq File
    BY <2>1, <2>2 DEF JobInv, File
  <2>4. \A p \in ExportRequests : Busy(p)' => JobInHand(p)'
    BY <1>3, <2>1 DEF JobInHand
  <2>. QED
    BY <2>1, <2>3, <2>4 DEF JobInv
<1>9. CASE CommitJob(q)
  <2>1. /\ thread[q].phase \in {"written", "unwritten"} /\ files' = files
        /\ job' = [job EXCEPT !.status = Outcome(q)] /\ thread'[q] = Done
    BY <1>1, <1>9 DEF CommitJob, ThreadsAreFunction
  <2>2. job = [status |-> "running", owner |-> q]
    BY <2>1 DEF ExportInv, ExportInHand, Busy, Idle, Done
  <2>3. job' \in Job /\ job'.owner = job.owner /\ job # NoJob
    BY <2>1, <2>2 DEF Job, Outcome, NoJob
  <2>4. ~Busy(q)'
    BY <2>1 DEF Busy
  <2>5. \A p \in ExportRequests : Busy(p)' => JobInHand(p)'
    BY <1>3, <2>2, <2>3, <2>4 DEF JobInHand
  <2>. QED
    BY <2>1, <2>3, <2>5 DEF JobInv
<1>. QED
  BY <1>4, <1>5, <1>6, <1>7, <1>8, <1>9

LEMMA PhaseStep ==
    ASSUME PhaseInv, ThreadsAreFunction, NEW q \in Threads, Moves(q),
           q \in CreateRequests => thread'[q] = Done \/ thread'[q].phase = "sought",
           q \in PersistAttempts =>
               thread'[q] = Done \/ thread'[q].phase \in {"found", "compared", "upserted"},
           overlapped' \subseteq overlapped \cup {"version", "verdict", "upsert"}
    PROVE  PhaseInv'
<1>1. \A p \in Threads \ {q} : thread'[p] = thread[p]
  BY OthersStay
<1>2. \A p \in CreateRequests \cup PersistAttempts : p \in Threads
  BY Kinds
<1>. QED
  BY <1>1, <1>2 DEF PhaseInv, Busy

\* A request of CaseRecords, of whatever kind, keeps the types.
LEMMA RequestKeepsTypes ==
    ASSUME VerdictInv, ExportInv, ClockInv, JobInv, PhaseInv,
           NEW q \in Requests, RequestStep(q)
    PROVE  ClockInv' /\ JobInv' /\ PhaseInv'
<1>1. q \in Threads /\ Moves(q) /\ q \notin CreateRequests /\ q \notin PersistAttempts
  BY RequestMoves, RequestsAssumption DEF Threads
<1>2. ThreadsAreFunction
  BY DEF VerdictInv
<1>3. CASE q \in VersionRequests
  <2>1. BeginVersion(q) \/ StartDeactivation(q) \/ Deactivate(q) \/ CommitVersion(q)
    BY <1>3, RequestsAssumption DEF RequestStep
  <2>2. UNCHANGED <<history, clock, job, files>>
        /\ overlapped' \in {overlapped, Overlap("version", q, VersionRequests)}
    BY <2>1 DEF BeginVersion, StartDeactivation, Deactivate, CommitVersion
  <2>3. thread'[q] # Idle
    <3>1. CASE BeginVersion(q)
      <4>1. thread'[q] = [phase |-> "counted", no |-> CountVersions + 1]
        BY <1>1, <1>2, <3>1 DEF BeginVersion, ThreadsAreFunction
      <4>. QED
        BY <4>1 DEF Idle
    <3>2. CASE StartDeactivation(q)
      <4>1. thread'[q] = [phase |-> "updating", no |-> thread[q].no, rows |-> {v.id : v \in versions}]
        BY <1>1, <1>2, <3>2 DEF StartDeactivation, ThreadsAreFunction
      <4>. QED
        BY <4>1 DEF Idle
    <3>3. CASE Deactivate(q)
      <4>1. thread'[q] = [thread[q] EXCEPT !.phase = "updated"] /\ thread[q].phase = "updating"
        BY <1>1, <1>2, <3>3 DEF Deactivate, ThreadsAreFunction
      <4>2. thread'[q].phase \in {"updated", "updating"}
        BY <4>1
      <4>. QED
        BY <4>2 DEF Idle
    <3>4. CASE CommitVersion(q)
      <4>1. thread'[q] = Done
        BY <1>1, <1>2, <3>4 DEF CommitVersion, ThreadsAreFunction
      <4>. QED
        BY <4>1, DoneIsDone
    <3>. QED
      BY <2>1, <3>1, <3>2, <3>3, <3>4
  <2>4. q \notin VerdictRequests /\ q \notin ExportRequests
    BY <1>3, RequestsAssumption
  <2>5. overlapped' \subseteq overlapped \cup {"version", "verdict", "upsert"}
    BY <2>2, OverlapAdds
  <2>. QED
    BY <1>1, <1>2, <2>2, <2>3, <2>4, <2>5, OtherStepsClockInv, OtherStepsJobInv, PhaseStep
<1>4. CASE q \in VerdictRequests
  <2>1. ReadCandidate(q) \/ SaveCandidate(q) \/ CommitVerdict(q)
    BY <1>4, RequestsAssumption DEF RequestStep
  <2>2. UNCHANGED <<job, files>>
        /\ overlapped' \in {overlapped, Overlap("verdict", q, VerdictRequests)}
    BY <2>1 DEF ReadCandidate, SaveCandidate, CommitVerdict
  <2>3. q \notin ExportRequests
    BY <1>4, RequestsAssumption
  <2>4. overlapped' \subseteq overlapped \cup {"version", "verdict", "upsert"}
    BY <2>2, OverlapAdds
  <2>. QED
    BY <1>1, <1>2, <1>4, <2>1, <2>2, <2>3, <2>4, VerdictStepsClockInv, OtherStepsJobInv, PhaseStep
<1>5. CASE q \in ExportRequests
  <2>1. \/ FindJob(q) \/ InsertJob(q) \/ ListCandidates(q)
        \/ WriteFile(q) \/ WriteFails(q) \/ CommitJob(q)
    BY <1>5, RequestsAssumption DEF RequestStep
  <2>2. UNCHANGED <<history, clock, overlapped>>
    BY <2>1 DEF FindJob, InsertJob, ListCandidates, WriteFile, WriteFails, CommitJob
  <2>3. thread'[q] # Idle
    <3>1. \/ thread'[q] = Done
          \/ \E p \in {"looked", "inserted", "written", "unwritten"} : thread'[q] = [phase |-> p]
          \/ thread'[q] = [phase |-> "listed", includes |-> verdict \in Exportable]
      BY <1>1, <1>2, <2>1
      DEF FindJob, InsertJob, ListCandidates, WriteFile, WriteFails, CommitJob, ThreadsAreFunction
    <3>2. \A p \in {"looked", "inserted", "written", "unwritten"} : [phase |-> p] # Idle
      BY DEF Idle
    <3>3. \A b : [phase |-> "listed", includes |-> b] # Idle
      BY DEF Idle
    <3>. QED
      BY <3>1, <3>2, <3>3, DoneIsDone, Zenon
  <2>4. q \notin VerdictRequests
    BY <1>5, RequestsAssumption
  <2>. QED
    BY <1>1, <1>2, <1>5, <2>1, <2>2, <2>3, <2>4, OtherStepsClockInv, ExportStepsJobInv, PhaseStep
<1>. QED
  BY <1>3, <1>4, <1>5 DEF Requests

\* So do the threads of CaseIntake, and an aborted one.
LEMMA OthersKeepTypes ==
    ASSUME VerdictInv, ClockInv, JobInv, PhaseInv, NEW q \in Threads,
           \/ q \in CreateRequests /\ (FindRun(q) \/ CommitRun(q))
           \/ q \in PersistAttempts
              /\ (BeginUpsert(q) \/ FindSnapshot(q) \/ SaveUpsert(q) \/ CommitUpsert(q))
           \/ Abort(q)
    PROVE  ClockInv' /\ JobInv' /\ PhaseInv'
<1>1. Moves(q) /\ ThreadsAreFunction
  BY IntakeMoves DEF VerdictInv
<1>2. UNCHANGED <<history, clock, job, files>>
      /\ overlapped' \in {overlapped, Overlap("upsert", q, PersistAttempts)}
  BY DEF FindRun, CommitRun, BeginUpsert, FindSnapshot, SaveUpsert, CommitUpsert, Abort, intakeVars
<1>3. overlapped' \subseteq overlapped \cup {"version", "verdict", "upsert"}
  BY <1>2, OverlapAdds
<1>4. CASE q \in CreateRequests /\ FindRun(q)
  <2>1. thread'[q] = Done \/ thread'[q] = [phase |-> "sought"]
    BY <1>1, <1>4 DEF FindRun, ThreadsAreFunction
  <2>2. thread'[q] # Idle /\ (thread'[q] = Done \/ thread'[q].phase = "sought")
    BY <2>1 DEF Idle, Done
  <2>3. q \notin Requests /\ q \notin PersistAttempts
    BY <1>4, RequestsAssumption
  <2>. QED
    BY <1>1, <1>2, <1>3, <2>2, <2>3, OtherStepsClockInv, OtherStepsJobInv, PhaseStep DEF Requests
<1>5. CASE q \in PersistAttempts /\ (BeginUpsert(q) \/ FindSnapshot(q) \/ SaveUpsert(q))
  <2>1. thread'[q].phase \in {"found", "compared", "upserted"}
    BY <1>1, <1>5 DEF BeginUpsert, FindSnapshot, SaveUpsert, ThreadsAreFunction
  <2>2. thread'[q] # Idle
    BY <2>1 DEF Idle
  <2>3. q \notin Requests /\ q \notin CreateRequests
    BY <1>5, RequestsAssumption
  <2>. QED
    BY <1>1, <1>2, <1>3, <2>1, <2>2, <2>3, OtherStepsClockInv, OtherStepsJobInv, PhaseStep
    DEF Requests
<1>6. CASE CommitRun(q) \/ CommitUpsert(q) \/ Abort(q)
  <2>1. thread'[q] = Done
    BY <1>1, <1>6 DEF CommitRun, CommitUpsert, Abort, ThreadsAreFunction
  <2>. QED
    BY <1>1, <1>2, <1>3, <2>1, DoneIsDone, OtherStepsClockInv, OtherStepsJobInv, PhaseStep
<1>. QED
  BY <1>4, <1>5, <1>6

RecordInv ==
    /\ CaseInv /\ VersionInv /\ VerdictInv /\ ExportInv
    /\ ClockInv /\ JobInv /\ PhaseInv

LEMMA NextRecordInv == RecordInv /\ [Next]_vars => RecordInv'
<1> SUFFICES ASSUME RecordInv, [Next]_vars PROVE RecordInv'
  OBVIOUS
<1>1. CaseInv' /\ VersionInv' /\ VerdictInv' /\ ExportInv'
  BY NextCaseInv, NextVersionInv, NextVerdictInv, NextExportInv DEF RecordInv
<1>2. ClockInv' /\ JobInv' /\ PhaseInv'
  <2>1. CASE \E q \in Requests : Answerable(q) /\ RequestStep(q) /\ UNCHANGED intakeVars
    BY <2>1, RequestKeepsTypes DEF RecordInv
  <2>2. CASE \/ \E q \in CreateRequests : FindRun(q) \/ CommitRun(q)
             \/ \E a \in PersistAttempts :
                   BeginUpsert(a) \/ FindSnapshot(a) \/ SaveUpsert(a) \/ CommitUpsert(a)
             \/ \E q \in Threads : Abort(q) /\ UNCHANGED intakeVars
    BY <2>2, OthersKeepTypes, Kinds DEF RecordInv
  <2>3. CASE SaveAnalyses \/ UNCHANGED vars
    <3>1. UNCHANGED recordVars
      BY <2>3 DEF SaveAnalyses, vars
    <3>. QED
      BY <3>1 DEF RecordInv, recordVars, ClockInv, Begun, JobInv, JobInHand, PhaseInv, Busy
  <2>. QED
    BY <2>1, <2>2, <2>3 DEF Next
<1>. QED
  BY <1>1, <1>2 DEF RecordInv

LEMMA RecordTypes == RecordInv => TypeOK
<1> SUFFICES ASSUME RecordInv PROVE TypeOK
  OBVIOUS
<1>1. \A q \in Threads : thread[q].phase \in Phases
  <2> TAKE q \in Threads
  <2>1. CASE ~Busy(q)
    BY <2>1 DEF Busy, Idle, Done, Phases
  <2>2. CASE Busy(q)
    <3>1. CASE q \in VersionRequests
      BY <2>2, <3>1 DEF RecordInv, VersionInv, VersionInHand, Phases
    <3>2. CASE q \in VerdictRequests
      BY <2>2, <3>2 DEF RecordInv, VerdictInv, VerdictInHand, Phases
    <3>3. CASE q \in ExportRequests
      BY <2>2, <3>3 DEF RecordInv, ExportInv, ExportInHand, Phases
    <3>4. CASE q \in CreateRequests \cup PersistAttempts
      BY <2>2, <3>4 DEF RecordInv, PhaseInv, Phases
    <3>. QED
      BY <3>1, <3>2, <3>3, <3>4 DEF Threads, Requests
  <2>. QED
    BY <2>1, <2>2
<1>2. versions \subseteq [id : VersionRequests \cup CreateRequests \cup {Earlier},
                         no : 1..(Cardinality(VersionRequests) + 1), active : BOOLEAN]
  BY DEF RecordInv, VersionInv, Version, MaxNo
<1>3. newest \subseteq {v.id : v \in versions}
  BY DEF RecordInv, VersionInv, Ids
<1>4. clock \in Nat /\ clock <= Cardinality(VerdictRequests)
  BY BegunCounted, KindsFinite DEF RecordInv, ClockInv, VerdictInv
<1>5. \A h \in history : h.verdict \in Verdicts /\ h.at \in 1..Cardinality(VerdictRequests)
  BY <1>4, KindsFinite DEF RecordInv, ClockInv, VerdictInv
<1>6. history \subseteq [verdict : Verdicts, at : 1..Cardinality(VerdictRequests)]
  BY <1>5 DEF RecordInv, ClockInv
<1>7. clock \in 0..Cardinality(VerdictRequests)
  BY <1>4, KindsFinite
<1>8. job = NoJob \/ job \in [status : {"running", "completed", "failed"}, owner : ExportRequests]
  BY DEF RecordInv, JobInv, Job
<1>9. ASSUME job # NoJob, Busy(job.owner) PROVE job.status = "running"
  <2>1. job.owner \in ExportRequests
    BY <1>8, <1>9
  <2>2. ExportInHand(job.owner) /\ JobInHand(job.owner)
    BY <1>9, <2>1 DEF RecordInv, ExportInv, JobInv
  <2>3. thread[job.owner].phase # "looked"
    BY <1>9, <2>2 DEF JobInHand
  <2>4. job = [status |-> "running", owner |-> job.owner]
    BY <2>2, <2>3 DEF ExportInHand
  <2>. QED
    BY <2>4
<1>10. files \subseteq [owner : ExportRequests, includes : BOOLEAN]
  BY DEF RecordInv, JobInv, File
<1>11. verdict \in Verdicts \cup {NoVerdict} /\ overlapped \subseteq {"version", "verdict", "upsert"}
  BY DEF RecordInv, VerdictInv, PhaseInv
<1>. QED
  BY <1>1, <1>2, <1>3, <1>6, <1>7, <1>8, <1>9, <1>10, <1>11 DEF TypeOK

\* Whatever is requested, in whatever mix, the rows keep their types: a number never
\* exceeds what the requests can have made, and the job of a request under way is running
\* (create_jd_version, save_verdict, create_export).
THEOREM RecordsTypeCorrect == Spec => []TypeOK
<1>1. Init => RecordInv
  BY InitCaseInv, InitVersionInv, InitVerdictInv, InitExportInv, InitRecordInv DEF RecordInv
<1>. QED
  BY <1>1, NextRecordInv, RecordTypes, PTL DEF Spec
=============================================================================
