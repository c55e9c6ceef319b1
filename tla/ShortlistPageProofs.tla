------------------------ MODULE ShortlistPageProofs ------------------------
(***************************************************************************)
(* The shortlist page, for any number of starts and of resume requests.    *)
(*                                                                         *)
(* Nothing the page does cancels a request, so the polls of several runs   *)
(* may be in flight at once.  What keeps them apart is that startRun       *)
(* awaits its request and its first poll, and that a poll comes from a     *)
(* timer that is cleared or from a start: each start has at most one       *)
(* successor, be it the request, a timer or a poll.                        *)
(***************************************************************************)
EXTENDS ShortlistPage, FiniteSetTheorems, TLAPS

Page ==
    [alive : BOOLEAN, runId : Runs \cup {NoRun}, runStatus : Statuses \cup {"idle"},
     isStarting : BOOLEAN, isPolling : BOOLEAN, timer : BOOLEAN,
     shortlist : Runs \cup {NoRun}, expanded : Candidates \cup {NoRun},
     detail : [Candidates -> {"idle", "loading", "loaded", "error"}]]

Sent == [phase : {"sent"}, run : Runs, first : BOOLEAN]
Answered == [phase : {"answered"}, run : Runs, first : BOOLEAN, status : Statuses]
Poll == {NoPoll} \cup Sent \cup Answered

\* The slots in use.
InUse(f) == {i \in Slots : f[i] # NoPoll}

-----------------------------------------------------------------------------
(* The inductive invariant. *)

\* While startRun awaits its request the page has no run and does not poll; while its
\* first poll is in flight there is no other such poll and no request.
StartAwaits ==
    /\ create # "none" => page.isStarting /\ page.runId = NoRun /\ ~page.isPolling
    /\ \A i \in InUse(polls) : polls[i].first => page.isStarting /\ create = "none"
    /\ \A i, j \in InUse(polls) : polls[i].first /\ polls[j].first => i = j

\* The timer and the request that a poll may still come from.
Sources(timer, request) ==
    (IF timer THEN 1 ELSE 0) + (IF request # "none" THEN 1 ELSE 0)

\* Every start leaves at most one poll, timer or request behind.
OnePerStart == Cardinality(InUse(polls)) + Sources(page.timer, create) <= starts

Inv == TypeOK /\ StartAwaits /\ OnePerStart /\ NeverDeaf /\ LoadingHasRequest

-----------------------------------------------------------------------------
(* Slots. *)

LEMMA SlotsFinite ==
    ASSUME NEW f
    PROVE  IsFiniteSet(InUse(f)) /\ Cardinality(InUse(f)) \in Nat
<1>1. IsFiniteSet(Slots) /\ InUse(f) \in SUBSET Slots
  BY FS_Interval, BoundsAssumption DEF Slots, InUse
<1>2. IsFiniteSet(InUse(f))
  BY <1>1, FS_Subset
<1>. QED
  BY <1>2, FS_CardinalityType

\* A slot is free as long as fewer are in use than there are.
LEMMA SlotIsFree ==
    ASSUME Cardinality(InUse(polls)) < MaxStarts
    PROVE  FreeSlot \in Slots /\ polls[FreeSlot] = NoPoll
<1>1. Cardinality(Slots) = MaxStarts
  <2>1. 1 \in Int /\ MaxStarts \in Int /\ 1 <= MaxStarts
    BY BoundsAssumption
  <2>2. Cardinality(1..MaxStarts) = IF 1 > MaxStarts THEN 0 ELSE MaxStarts - 1 + 1
    BY <2>1, FS_Interval
  <2>. QED
    BY <2>1, <2>2 DEF Slots
<1>2. InUse(polls) # Slots
  BY <1>1, SlotsFinite, BoundsAssumption
<1>3. \E i \in Slots : polls[i] = NoPoll
  BY <1>2 DEF InUse
<1>. QED
  BY <1>3 DEF FreeSlot

\* Taking a slot adds it to those in use, giving it back removes it.
LEMMA SlotTaken ==
    ASSUME NEW k \in Slots, polls[k] = NoPoll, polls'[k] # NoPoll,
           \A i \in Slots \ {k} : polls'[i] = polls[i]
    PROVE  /\ InUse(polls') = InUse(polls) \cup {k}
           /\ Cardinality(InUse(polls')) = Cardinality(InUse(polls)) + 1
<1>1. InUse(polls') = InUse(polls) \cup {k} /\ k \notin InUse(polls)
  BY DEF InUse
<1>. QED
  BY <1>1, SlotsFinite, FS_AddElement

LEMMA SlotReturned ==
    ASSUME NEW k \in Slots, polls[k] # NoPoll, polls'[k] = NoPoll,
           \A i \in Slots \ {k} : polls'[i] = polls[i]
    PROVE  /\ InUse(polls') = InUse(polls) \ {k}
           /\ Cardinality(InUse(polls')) = Cardinality(InUse(polls)) - 1
<1>1. InUse(polls') = InUse(polls) \ {k} /\ k \in InUse(polls)
  BY DEF InUse
<1>. QED
  BY <1>1, SlotsFinite, FS_RemoveElement

-----------------------------------------------------------------------------
(* The methods. *)

LEMMA TypeView ==
    /\ TypeOK <=> /\ page \in Page
                  /\ page.timer => ~page.isPolling /\ page.runId # NoRun
                  /\ starts \in 0..MaxStarts
                  /\ create \in {"none", "sent", "accepted"} /\ faulty \in BOOLEAN
                  /\ polls \in [Slots -> Poll]
                  /\ loads \in [Candidates -> 0..MaxLoads]
                  /\ server \in [Runs -> Statuses]
BY DEF TypeOK, Page, Poll, Sent, Answered

\* A page between polls: it polls on exactly if its run is pending.
Settled(q) ==
    /\ q \in Page /\ ~q.isPolling
    /\ q.timer <=> q.runId # NoRun /\ q.runStatus \in Pending

\* What a poll's end leaves of the page it comes back to.
LEMMA PollReturns ==
    ASSUME NEW p \in Page, NEW run \in Runs, NEW status \in Statuses, NEW first \in BOOLEAN,
           NEW q \in {Return(Settle(SyncRunState(p, run, status)), first),
                      Return(Settle(HandleRunError(p)), first)}
    PROVE  /\ Settled(q)
           /\ q.alive = p.alive /\ q.runId = p.runId /\ q.detail = p.detail
           /\ q.isStarting <=> p.isStarting /\ ~first
<1> DEFINE t == SyncRunState(p, run, status)
           u == HandleRunError(p)
<1>1. u \in Page /\ u.alive = p.alive /\ u.runId = p.runId /\ u.detail = p.detail
      /\ u.isStarting = p.isStarting
  BY DEF HandleRunError, Page, Statuses
<1>2. t \in Page /\ t.alive = p.alive /\ t.runId = p.runId /\ t.detail = p.detail
      /\ t.isStarting = p.isStarting
  <2>1. CASE status = "failed"
    BY <2>1, <1>1 DEF SyncRunState
  <2>2. CASE status # "failed"
    BY <2>2 DEF SyncRunState, Page
  <2>. QED
    BY <2>1, <2>2
<1>3. ASSUME NEW r \in Page
      PROVE  LET s == Return(Settle(r), first)
             IN  /\ Settled(s)
                 /\ s.alive = r.alive /\ s.runId = r.runId /\ s.detail = r.detail
                 /\ s.isStarting <=> r.isStarting /\ ~first
  <2> DEFINE s == Settle(r)
             v == Return(s, first)
  <2>1. ShouldPoll(r) \in BOOLEAN
    BY DEF ShouldPoll
  <2>2. /\ s \in Page /\ s.isPolling = FALSE /\ s.timer = ShouldPoll(r)
        /\ s.alive = r.alive /\ s.runId = r.runId /\ s.detail = r.detail
        /\ s.isStarting = r.isStarting /\ s.runStatus = r.runStatus
    BY <2>1 DEF Settle, Page
  <2>3. (s.isStarting /\ ~first) \in BOOLEAN
    BY Zenon
  <2>4. /\ v \in Page /\ v.isPolling = s.isPolling /\ v.timer = s.timer
        /\ v.alive = s.alive /\ v.runId = s.runId /\ v.detail = s.detail
        /\ v.isStarting = (s.isStarting /\ ~first) /\ v.runStatus = s.runStatus
    <3> HIDE DEF s
    <3>. QED
      BY <2>2, <2>3 DEF Return, Page
  <2> HIDE DEF s, v
  <2>5. v.timer <=> v.runId # NoRun /\ v.runStatus \in Pending
    BY <2>2, <2>4, Zenon DEF ShouldPoll
  <2>6. Settled(v)
    BY <2>2, <2>4, <2>5, Zenon DEF Settled
  <2>7. v.isStarting <=> r.isStarting /\ ~first
    BY <2>2, <2>4, Zenon
  <2>. QED
    BY <2>2, <2>4, <2>6, <2>7, Zenon DEF s, v
<1>. HIDE DEF t, u
<1>. QED
  BY <1>1, <1>2, <1>3 DEF t, u

\* What refreshRun does for a run, when no poll is awaited and a slot is free.
Asks(p, first, k) ==
    /\ page' = [p EXCEPT !.isPolling = TRUE]
    /\ polls' = [polls EXCEPT ![k] = [phase |-> "sent", run |-> p.runId, first |-> first]]

LEMMA RefreshAsks ==
    ASSUME NEW p, p.runId # NoRun, ~p.isPolling, NEW first,
           Cardinality(InUse(polls)) < MaxStarts, RefreshRun(p, first)
    PROVE  \E k \in Slots : polls[k] = NoPoll /\ Asks(p, first, k)
<1>1. Asks(p, first, FreeSlot)
  BY DEF RefreshRun, Asks
<1>. QED
  BY <1>1, SlotIsFree

-----------------------------------------------------------------------------
(* The resume panel: loading has a request, and nothing else is touched. *)

\* The fields that have to do with the run and its polls.
SameControl(p, q) ==
    /\ q.alive = p.alive /\ q.runId = p.runId /\ q.runStatus = p.runStatus
    /\ q.isStarting = p.isStarting /\ q.isPolling = p.isPolling /\ q.timer = p.timer

LEMMA PanelKeeps ==
    ASSUME Inv, page' \in Page, SameControl(page, page'),
           loads' \in [Candidates -> 0..MaxLoads], LoadingHasRequest',
           UNCHANGED <<starts, create, polls, server, faulty>>
    PROVE  Inv'
<1>1. TypeOK'
  BY TypeView DEF Inv, SameControl, TypeOK, Page
<1>2. StartAwaits'
  BY DEF Inv, SameControl, StartAwaits, InUse
<1>3. OnePerStart'
  BY DEF Inv, SameControl, OnePerStart, Sources, InUse
<1>4. NeverDeaf'
  BY DEF Inv, SameControl, NeverDeaf
<1>. QED
  BY <1>1, <1>2, <1>3, <1>4 DEF Inv

\* A request goes out, the entry of its candidate says so.
LEMMA LoadKeeps ==
    ASSUME Inv, NEW p \in Page, SameControl(page, p), p.detail = page.detail,
           NEW c \in Candidates, LoadCandidateDetail(p, c)
    PROVE  /\ page' \in Page /\ SameControl(page, page')
           /\ loads' \in [Candidates -> 0..MaxLoads] /\ LoadingHasRequest'
<1>1. page.detail \in [Candidates -> {"idle", "loading", "loaded", "error"}]
  BY TypeView DEF Inv, Page
<1>2. page' = [p EXCEPT !.detail = [@ EXCEPT ![c] = "loading"]]
  BY DEF LoadCandidateDetail
<1>3. [p.detail EXCEPT ![c] = "loading"] \in [Candidates -> {"idle", "loading", "loaded", "error"}]
  BY <1>1
<1>4. page' \in Page /\ SameControl(page, page') /\ page'.detail = [p.detail EXCEPT ![c] = "loading"]
  <2> DEFINE d == [p.detail EXCEPT ![c] = "loading"]
  <2>1. page' = [p EXCEPT !.detail = d]
    BY <1>2 DEF Page
  <2> HIDE DEF d
  <2>. QED
    BY <1>3, <2>1 DEF Page, SameControl, d
<1>5. loads \in [Candidates -> 0..MaxLoads] /\ loads[c] < MaxLoads /\ loads' = [loads EXCEPT ![c] = @ + 1]
  BY TypeView DEF Inv, LoadCandidateDetail
<1>6. loads' \in [Candidates -> 0..MaxLoads]
  BY <1>5, BoundsAssumption
<1>7. LoadingHasRequest'
  BY <1>1, <1>4, <1>5 DEF Inv, LoadingHasRequest
<1>. QED
  BY <1>4, <1>6, <1>7

LEMMA CollapseKeeps ==
    ASSUME Inv, CollapseResume
    PROVE  Inv'
<1>1. page' \in Page /\ SameControl(page, page') /\ page'.detail = page.detail
  BY TypeView DEF Inv, CollapseResume, Page, SameControl
<1>2. loads' \in [Candidates -> 0..MaxLoads] /\ LoadingHasRequest'
  BY <1>1, TypeView DEF Inv, CollapseResume, LoadingHasRequest
<1>. QED
  BY <1>1, <1>2, PanelKeeps DEF CollapseResume

LEMMA ExpandKeeps ==
    ASSUME Inv, ExpandResume
    PROVE  Inv'
<1> DEFINE c == page.shortlist
           p == [page EXCEPT !.expanded = c]
<1>1. c \in Candidates
  BY TypeView DEF Inv, ExpandResume, Page, Candidates
<1>2. p \in Page /\ SameControl(page, p) /\ p.detail = page.detail
  BY <1>1, TypeView DEF Inv, Page, SameControl
<1>3. CASE page' = p /\ UNCHANGED loads
  <2>1. loads' \in [Candidates -> 0..MaxLoads] /\ LoadingHasRequest'
    BY <1>2, <1>3, TypeView DEF Inv, LoadingHasRequest
  <2>. QED
    BY <1>2, <1>3, <2>1, PanelKeeps DEF ExpandResume
<1>4. CASE LoadCandidateDetail(p, c)
  <2>. HIDE DEF p, c
  <2>. QED
    BY <1>1, <1>2, <1>4, LoadKeeps, PanelKeeps DEF ExpandResume
<1>. QED
  BY <1>3, <1>4 DEF ExpandResume

LEMMA RetryKeeps ==
    ASSUME Inv, RetryResume
    PROVE  Inv'
<1>1. page \in Page /\ page.expanded \in Candidates /\ SameControl(page, page)
  BY TypeView DEF Inv, RetryResume, Page, Candidates, SameControl
<1>2. LoadCandidateDetail(page, page.expanded)
  BY DEF RetryResume
<1>. QED
  BY <1>1, <1>2, LoadKeeps, PanelKeeps DEF RetryResume

LEMMA DetailKeeps ==
    ASSUME Inv, NEW c \in Candidates, DetailAnswers(c)
    PROVE  Inv'
<1>1. PICK status \in AfterLoad : page' = [page EXCEPT !.detail[c] = status]
  BY DEF DetailAnswers
<1>2. page \in Page /\ page.detail \in [Candidates -> {"idle", "loading", "loaded", "error"}]
  BY TypeView DEF Inv, Page
<1> DEFINE d == [page.detail EXCEPT ![c] = status]
<1>3. d \in [Candidates -> {"idle", "loading", "loaded", "error"}] /\ d[c] # "loading"
      /\ \A k \in Candidates \ {c} : d[k] = page.detail[k]
  BY <1>2 DEF AfterLoad
<1>4. page' \in Page /\ SameControl(page, page') /\ page'.detail = d
  <2>1. page' = [page EXCEPT !.detail = d]
    BY <1>1, <1>2 DEF Page
  <2> HIDE DEF d
  <2>. QED
    BY <1>2, <1>3, <2>1 DEF Page, SameControl
<1>5. loads \in [Candidates -> 0..MaxLoads] /\ loads[c] > 0 /\ loads' = [loads EXCEPT ![c] = @ - 1]
  BY TypeView DEF Inv, DetailAnswers
<1>6. loads' \in [Candidates -> 0..MaxLoads]
  BY <1>5, BoundsAssumption
<1> HIDE DEF d
<1>7. LoadingHasRequest'
  BY <1>3, <1>4, <1>5 DEF Inv, LoadingHasRequest
<1>. QED
  BY <1>4, <1>6, <1>7, PanelKeeps DEF DetailAnswers

-----------------------------------------------------------------------------
(* Starting, leaving, and the server. *)

\* A start awaits nothing of an earlier start: there is no request and no first poll.
LEMMA StartKeeps ==
    ASSUME Inv, StartRun
    PROVE  Inv'
<1>1. /\ page \in Page /\ ~page.isStarting /\ create = "none"
      /\ \A i \in InUse(polls) : ~polls[i].first
  BY TypeView DEF Inv, StartRun, StartAwaits
<1>2. page' \in Page /\ page'.runId = NoRun /\ page'.isStarting = TRUE
      /\ page'.isPolling = FALSE /\ page'.timer = FALSE
      /\ page'.detail = [c \in Candidates |-> "idle"]
  BY <1>1 DEF StartRun, ResetRunState, Page
<1>3. starts \in 0..MaxStarts /\ starts < MaxStarts /\ starts' = starts + 1 /\ create' = "sent"
      /\ UNCHANGED <<polls, loads, server, faulty>>
  BY TypeView DEF Inv, StartRun
<1>4. TypeOK'
  BY <1>2, <1>3, TypeView, BoundsAssumption DEF Inv, TypeOK, Page
<1>5. StartAwaits'
  BY <1>1, <1>2, <1>3 DEF StartAwaits, InUse
<1>6. OnePerStart'
  <2>1. InUse(polls') = InUse(polls) /\ Cardinality(InUse(polls)) \in Nat
    BY <1>3, SlotsFinite DEF InUse
  <2>2. Cardinality(InUse(polls)) <= starts
    <3>1. Sources(page.timer, create) \in {0, 1, 2}
      BY DEF Sources
    <3>. QED
      BY <2>1, <3>1, <1>3 DEF Inv, OnePerStart
  <2>3. Sources(page'.timer, create') = 1
    BY <1>2, <1>3 DEF Sources
  <2>. QED
    BY <1>3, <2>1, <2>2, <2>3 DEF OnePerStart
<1>7. NeverDeaf' /\ LoadingHasRequest'
  BY <1>2 DEF NeverDeaf, LoadingHasRequest
<1>. QED
  BY <1>4, <1>5, <1>6, <1>7 DEF Inv

LEMMA LeaveKeeps ==
    ASSUME Inv, LeavePage
    PROVE  Inv'
<1>1. /\ page' \in Page /\ page'.alive = FALSE /\ page'.timer = FALSE /\ page'.runId = page.runId
      /\ page'.isStarting = page.isStarting /\ page'.isPolling = page.isPolling
      /\ page'.detail = page.detail
      /\ UNCHANGED <<starts, create, polls, loads, server, faulty>>
  BY TypeView DEF Inv, LeavePage, Page
<1>2. TypeOK'
  BY <1>1, TypeView DEF Inv, TypeOK, Page
<1>3. StartAwaits'
  BY <1>1 DEF Inv, StartAwaits, InUse
<1>4. OnePerStart'
  <2>1. InUse(polls') = InUse(polls) /\ Cardinality(InUse(polls)) \in Nat /\ starts \in Int
    BY <1>1, SlotsFinite, TypeView DEF Inv, InUse
  <2>2. Sources(page'.timer, create') <= Sources(page.timer, create)
        /\ Sources(page'.timer, create') \in Nat /\ Sources(page.timer, create) \in Nat
    BY <1>1 DEF Sources
  <2>. QED
    BY <1>1, <2>1, <2>2 DEF Inv, OnePerStart
<1>5. NeverDeaf' /\ LoadingHasRequest'
  BY <1>1 DEF Inv, NeverDeaf, LoadingHasRequest
<1>. QED
  BY <1>2, <1>3, <1>4, <1>5 DEF Inv

LEMMA ServeCreateKeeps ==
    ASSUME Inv, ServeCreate
    PROVE  Inv'
<1>1. create = "sent" /\ create' = "accepted"
      /\ server' = [server EXCEPT ![starts] = "queued"]
      /\ UNCHANGED <<page, starts, polls, loads, faulty>>
  BY DEF ServeCreate
<1>2. TypeOK'
  BY <1>1, TypeView DEF Inv, TypeOK, Statuses
<1>3. StartAwaits'
  BY <1>1 DEF Inv, StartAwaits, InUse
<1>4. OnePerStart'
  BY <1>1 DEF Inv, OnePerStart, Sources, InUse
<1>. QED
  BY <1>1, <1>2, <1>3, <1>4 DEF Inv, NeverDeaf, LoadingHasRequest

LEMMA WorkKeeps ==
    ASSUME Inv, NEW r \in Runs, WorkOn(r)
    PROVE  Inv'
<1>1. UNCHANGED <<page, starts, create, polls, loads, faulty>>
  BY DEF WorkOn
<1>2. TypeOK'
  BY <1>1, TypeView DEF Inv, TypeOK, WorkOn, Statuses
<1>3. StartAwaits' /\ OnePerStart'
  BY <1>1 DEF Inv, StartAwaits, OnePerStart, Sources, InUse
<1>. QED
  BY <1>1, <1>2, <1>3 DEF Inv, NeverDeaf, LoadingHasRequest

\* A poll that is served stays in its slot, of the same run and as first as it was.
LEMMA ServePollKeeps ==
    ASSUME Inv, NEW i \in Slots, ServePoll(i)
    PROVE  Inv'
<1> DEFINE answer == [phase |-> "answered", run |-> polls[i].run, first |-> polls[i].first,
                      status |-> server[polls[i].run]]
<1>1. polls \in [Slots -> Poll] /\ polls[i] \in Sent /\ polls[i] # NoPoll
  BY TypeView DEF Inv, ServePoll, Poll, NoPoll, Sent, Answered
<1>2. polls' = [polls EXCEPT ![i] = answer]
      /\ UNCHANGED <<page, starts, create, loads, server, faulty>>
  BY DEF ServePoll
<1>3. server[polls[i].run] \in Statuses
  BY <1>1, TypeView DEF Inv, Sent
<1>4. answer \in Answered /\ answer # NoPoll
      /\ answer.run = polls[i].run /\ answer.first = polls[i].first
  BY <1>1, <1>3 DEF Answered, Sent, NoPoll
<1> HIDE DEF answer
<1>5. TypeOK'
  BY <1>1, <1>2, <1>4, TypeView DEF Inv, TypeOK, Poll, Sent, Answered
<1>6. /\ InUse(polls') = InUse(polls)
      /\ \A k \in Slots : polls'[k] # NoPoll <=> polls[k] # NoPoll
      /\ \A k \in InUse(polls) : polls'[k].run = polls[k].run /\ polls'[k].first = polls[k].first
  BY <1>1, <1>2, <1>4 DEF InUse
<1>7. StartAwaits'
  BY <1>2, <1>6 DEF Inv, StartAwaits
<1>8. OnePerStart'
  BY <1>2, <1>6 DEF Inv, OnePerStart
<1>9. NeverDeaf' /\ LoadingHasRequest'
  BY <1>2, <1>6 DEF Inv, NeverDeaf, LoadingHasRequest, InUse
<1>. QED
  BY <1>5, <1>7, <1>8, <1>9 DEF Inv

LEMMA CreateFailsKeeps ==
    ASSUME Inv, CreateFails
    PROVE  Inv'
<1>1. /\ page' \in Page /\ page'.timer = FALSE /\ page'.runStatus = "failed"
      /\ page'.isStarting = FALSE /\ page'.detail = page.detail
      /\ create # "none" /\ create' = "none" /\ faulty' = TRUE
      /\ UNCHANGED <<starts, polls, loads, server>>
  BY TypeView DEF Inv, CreateFails, HandleRunError, Page, Statuses
<1>2. TypeOK'
  BY <1>1, TypeView DEF Inv, TypeOK, Page
<1>3. StartAwaits'
  BY <1>1 DEF Inv, StartAwaits, InUse
<1>4. OnePerStart'
  <2>1. InUse(polls') = InUse(polls) /\ Cardinality(InUse(polls)) \in Nat /\ starts \in Int
    BY <1>1, SlotsFinite, TypeView DEF Inv, InUse
  <2>2. Sources(page'.timer, create') = 0 /\ Sources(page.timer, create) \in Nat
    BY <1>1 DEF Sources
  <2>. QED
    BY <1>1, <2>1, <2>2 DEF Inv, OnePerStart
<1>5. NeverDeaf' /\ LoadingHasRequest'
  BY <1>1 DEF Inv, NeverDeaf, LoadingHasRequest, Pending
<1>. QED
  BY <1>2, <1>3, <1>4, <1>5 DEF Inv

-----------------------------------------------------------------------------
(* Polls. *)

\* A poll that is sent takes the place of the timer or the request it comes from.
LEMMA AskKeeps ==
    ASSUME Inv, NEW p \in Page, p.runId \in Runs, ~p.isPolling, ~p.timer,
           p.detail = page.detail, p.isStarting = page.isStarting,
           NEW first \in BOOLEAN, RefreshRun(p, first),
           create' = "none", UNCHANGED <<starts, loads, server, faulty>>,
           first => page.isStarting /\ \A i \in InUse(polls) : ~polls[i].first,
           Sources(FALSE, "none") < Sources(page.timer, create)
    PROVE  Inv'
<1>1. /\ polls \in [Slots -> Poll] /\ Cardinality(InUse(polls)) \in Nat /\ starts \in Nat
      /\ Sources(page.timer, create) \in {1, 2} /\ starts <= MaxStarts
  BY TypeView, SlotsFinite, BoundsAssumption DEF Inv, Sources
<1>2. Cardinality(InUse(polls)) + 1 <= starts /\ Cardinality(InUse(polls)) < MaxStarts
  BY <1>1, BoundsAssumption DEF Inv, OnePerStart
<1>3. p.runId # NoRun
  BY BoundsAssumption DEF Runs, NoRun
<1>4. PICK k \in Slots : polls[k] = NoPoll /\ Asks(p, first, k)
  BY <1>2, <1>3, RefreshAsks
<1> DEFINE poll == [phase |-> "sent", run |-> p.runId, first |-> first]
<1>5. poll \in Sent /\ poll # NoPoll /\ poll.first = first /\ poll.run = p.runId
      /\ polls' = [polls EXCEPT ![k] = poll]
  BY <1>4 DEF Sent, NoPoll, Asks
<1> HIDE DEF poll
<1>6. /\ page' \in Page /\ page'.isPolling = TRUE /\ page'.timer = FALSE
      /\ page'.runId = p.runId /\ page'.isStarting = page.isStarting
      /\ page'.detail = page.detail
  <2>1. page' = [p EXCEPT !.isPolling = TRUE]
    BY <1>4, Zenon DEF Asks
  <2>. QED
    BY <2>1 DEF Page
<1>7. TypeOK'
  BY <1>1, <1>5, <1>6, TypeView DEF Inv, TypeOK, Page, Poll, Sent, Answered
<1>8. InUse(polls') = InUse(polls) \cup {k} /\ polls'[k] = poll
      /\ Cardinality(InUse(polls')) = Cardinality(InUse(polls)) + 1
      /\ k \notin InUse(polls) /\ \A i \in InUse(polls) : polls'[i] = polls[i]
  <2>1. DOMAIN polls = Slots /\ polls[k] = NoPoll /\ polls'[k] = poll
        /\ \A i \in Slots \ {k} : polls'[i] = polls[i]
    BY <1>1, <1>4, <1>5
  <2>2. /\ InUse(polls') = InUse(polls) \cup {k}
        /\ Cardinality(InUse(polls')) = Cardinality(InUse(polls)) + 1
    BY <2>1, <1>5, SlotTaken
  <2>3. k \notin InUse(polls) /\ \A i \in InUse(polls) : polls'[i] = polls[i]
    BY <2>1 DEF InUse
  <2>. QED
    BY <2>1, <2>2, <2>3
<1>9. StartAwaits'
  BY <1>5, <1>6, <1>8 DEF Inv, StartAwaits
<1>10. OnePerStart'
  <2>1. Sources(page'.timer, create') = 0
    BY <1>6 DEF Sources
  <2>. QED
    BY <1>1, <1>2, <1>8, <2>1 DEF OnePerStart
<1>11. NeverDeaf' /\ LoadingHasRequest'
  BY <1>5, <1>6, <1>8 DEF Inv, NeverDeaf, LoadingHasRequest
<1>. QED
  BY <1>7, <1>9, <1>10, <1>11 DEF Inv

LEMMA CreateAnswersKeeps ==
    ASSUME Inv, CreateAnswers
    PROVE  Inv'
<1> DEFINE p == [page EXCEPT !.runId = starts, !.runStatus = "queued"]
<1>1. /\ page \in Page /\ page.isStarting /\ ~page.isPolling /\ ~page.timer
      /\ \A i \in InUse(polls) : ~polls[i].first
  BY TypeView DEF Inv, CreateAnswers, StartAwaits
<1>2. starts \in Runs
  <2>1. Sources(page.timer, create) = 1
    BY <1>1 DEF CreateAnswers, Sources
  <2>2. Cardinality(InUse(polls)) \in Nat /\ starts \in 0..MaxStarts
    BY SlotsFinite, TypeView DEF Inv
  <2>. QED
    BY <2>1, <2>2, BoundsAssumption DEF Inv, OnePerStart, Runs
<1>3. p \in Page /\ p.runId \in Runs /\ ~p.isPolling /\ ~p.timer
      /\ p.detail = page.detail /\ p.isStarting = page.isStarting
  BY <1>1, <1>2 DEF Page, Statuses
<1>4. Sources(FALSE, "none") < Sources(page.timer, create)
  BY <1>1 DEF CreateAnswers, Sources
<1>5. RefreshRun(p, TRUE) /\ create' = "none" /\ UNCHANGED <<starts, loads, server, faulty>>
  BY DEF CreateAnswers
<1> HIDE DEF p
<1>. QED
  BY <1>1, <1>3, <1>4, <1>5, AskKeeps

LEMMA TimerKeeps ==
    ASSUME Inv, PollTimerFires
    PROVE  Inv'
<1> DEFINE p == [page EXCEPT !.timer = FALSE]
<1>1. /\ page \in Page /\ page.timer /\ ~page.isPolling /\ page.runId # NoRun
  BY TypeView DEF Inv, PollTimerFires
<1>2. create = "none"
  BY <1>1 DEF Inv, StartAwaits
<1>3. p \in Page /\ p.runId \in Runs /\ ~p.isPolling /\ ~p.timer
      /\ p.detail = page.detail /\ p.isStarting = page.isStarting
  BY <1>1 DEF Page
<1>4. Sources(FALSE, "none") < Sources(page.timer, create)
  BY <1>1, <1>2 DEF Sources
<1>5. RefreshRun(p, FALSE) /\ UNCHANGED <<starts, create, loads, server, faulty>>
  BY DEF PollTimerFires
<1> HIDE DEF p
<1>. QED
  BY <1>2, <1>3, <1>4, <1>5, AskKeeps

\* A poll that is over gives its slot to the timer it may set.
LEMMA PollOverKeeps ==
    ASSUME Inv, NEW i \in Slots, polls[i] # NoPoll,
           Settled(page'), page'.runId = page.runId, page'.detail = page.detail,
           page'.isStarting <=> page.isStarting /\ ~polls[i].first,
           polls' = [polls EXCEPT ![i] = NoPoll],
           faulty' \in BOOLEAN, UNCHANGED <<starts, create, loads, server>>
    PROVE  Inv'
<1>1. polls \in [Slots -> Poll] /\ page' \in Page
  BY TypeView DEF Inv, Settled
<1>2. /\ InUse(polls') = InUse(polls) \ {i} /\ i \in InUse(polls)
      /\ \A k \in InUse(polls') : polls'[k] = polls[k]
      /\ Cardinality(InUse(polls')) = Cardinality(InUse(polls)) - 1
  <2>1. polls'[i] = NoPoll /\ \A k \in Slots \ {i} : polls'[k] = polls[k]
    BY <1>1
  <2>2. /\ InUse(polls') = InUse(polls) \ {i}
        /\ Cardinality(InUse(polls')) = Cardinality(InUse(polls)) - 1
    BY <2>1, SlotReturned
  <2>3. i \in InUse(polls) /\ \A k \in InUse(polls) \ {i} : polls'[k] = polls[k]
    BY <2>1 DEF InUse
  <2>. QED
    BY <2>2, <2>3
<1>3. TypeOK'
  BY <1>1, TypeView DEF Inv, TypeOK, Settled, Page, Poll, Sent, Answered
<1>4. StartAwaits'
  <2>1. create' # "none" => page'.isStarting /\ page'.runId = NoRun /\ ~page'.isPolling
    BY <1>2 DEF Inv, StartAwaits, Settled
  <2>2. \A k \in InUse(polls') : polls'[k].first => page'.isStarting /\ create' = "none"
    BY <1>2 DEF Inv, StartAwaits
  <2>. QED
    BY <1>2, <2>1, <2>2 DEF Inv, StartAwaits
<1>5. OnePerStart'
  <2>1. create' # "none" => ~page'.timer
    BY <1>4 DEF StartAwaits, Settled
  <2>2. /\ Sources(page'.timer, create') <= Sources(page.timer, create) + 1
        /\ Sources(page'.timer, create') \in Nat /\ Sources(page.timer, create) \in Nat
    BY <2>1 DEF Sources
  <2>3. Cardinality(InUse(polls)) \in Nat /\ starts \in Nat
    BY SlotsFinite, TypeView, BoundsAssumption DEF Inv
  <2>. QED
    BY <1>2, <2>2, <2>3 DEF Inv, OnePerStart
<1>6. NeverDeaf'
  BY DEF NeverDeaf, Settled
<1>7. LoadingHasRequest'
  BY DEF Inv, LoadingHasRequest
<1>. QED
  BY <1>3, <1>4, <1>5, <1>6, <1>7 DEF Inv

LEMMA AnswerKeeps ==
    ASSUME Inv, NEW i \in Slots, PollAnswers(i)
    PROVE  Inv'
<1>1. polls[i] \in Answered /\ polls[i] # NoPoll /\ page \in Page /\ faulty \in BOOLEAN
  BY TypeView DEF Inv, PollAnswers, Poll, NoPoll, Sent, Answered
<1>2. polls[i].run \in Runs /\ polls[i].status \in Statuses /\ polls[i].first \in BOOLEAN
  BY <1>1 DEF Answered
<1>3. /\ page' = Return(Settle(SyncRunState(page, polls[i].run, polls[i].status)), polls[i].first)
      /\ polls' = [polls EXCEPT ![i] = NoPoll]
      /\ UNCHANGED <<starts, create, loads, server, faulty>>
  BY DEF PollAnswers
<1>4. /\ Settled(page') /\ page'.runId = page.runId /\ page'.detail = page.detail
      /\ page'.isStarting <=> page.isStarting /\ ~polls[i].first
  BY <1>1, <1>2, <1>3, PollReturns
<1>. QED
  BY <1>1, <1>3, <1>4, PollOverKeeps

LEMMA FailureKeeps ==
    ASSUME Inv, NEW i \in Slots, PollFails(i)
    PROVE  Inv'
<1>1. polls[i] \in Sent \cup Answered /\ polls[i] # NoPoll /\ page \in Page
  BY TypeView DEF Inv, PollFails, Poll, NoPoll, Sent, Answered
<1>2. polls[i].run \in Runs /\ polls[i].first \in BOOLEAN /\ "failed" \in Statuses
  BY <1>1 DEF Sent, Answered, Statuses
<1>3. /\ page' = Return(Settle(HandleRunError(page)), polls[i].first)
      /\ polls' = [polls EXCEPT ![i] = NoPoll] /\ faulty' = TRUE
      /\ UNCHANGED <<starts, create, loads, server>>
  BY DEF PollFails
<1>4. /\ Settled(page') /\ page'.runId = page.runId /\ page'.detail = page.detail
      /\ page'.isStarting <=> page.isStarting /\ ~polls[i].first
  BY <1>1, <1>2, <1>3, PollReturns
<1>. QED
  BY <1>1, <1>3, <1>4, PollOverKeeps

-----------------------------------------------------------------------------
(* The theorems. *)

LEMMA InvInitially == Init => Inv
<1> SUFFICES ASSUME Init
             PROVE  Inv
  OBVIOUS
<1>1. TypeOK
  <2>1. page \in Page /\ ~page.timer
    BY DEF Init, Page
  <2>2. starts \in 0..MaxStarts /\ create \in {"none", "sent", "accepted"}
    BY BoundsAssumption DEF Init
  <2>3. faulty \in BOOLEAN
    BY Zenon DEF Init
  <2>4. /\ polls \in [Slots -> Poll] /\ loads \in [Candidates -> 0..MaxLoads]
        /\ server \in [Runs -> Statuses]
    BY BoundsAssumption DEF Init, Poll, Statuses
  <2>. QED
    BY <2>1, <2>2, <2>3, <2>4, TypeView
<1>2. InUse(polls) = {}
  BY DEF Init, InUse
<1>3. StartAwaits
  BY <1>2 DEF Init, StartAwaits
<1>4. OnePerStart
  BY <1>2, FS_EmptySet DEF Init, OnePerStart, Sources
<1>5. NeverDeaf /\ LoadingHasRequest
  BY DEF Init, NeverDeaf, LoadingHasRequest
<1>. QED
  BY <1>1, <1>3, <1>4, <1>5 DEF Inv

LEMMA InvStep == Inv /\ [Next]_vars => Inv'
<1> SUFFICES ASSUME Inv, [Next]_vars
             PROVE  Inv'
  OBVIOUS
<1>1. CASE StartRun \/ LeavePage
  BY <1>1, StartKeeps, LeaveKeeps
<1>2. CASE CollapseResume \/ ExpandResume \/ RetryResume
  BY <1>2, CollapseKeeps, ExpandKeeps, RetryKeeps
<1>3. CASE CreateAnswers \/ CreateFails \/ PollTimerFires
  BY <1>3, CreateAnswersKeeps, CreateFailsKeeps, TimerKeeps
<1>4. CASE \E i \in Slots : PollAnswers(i) \/ PollFails(i) \/ ServePoll(i)
  BY <1>4, AnswerKeeps, FailureKeeps, ServePollKeeps
<1>5. CASE \E c \in Candidates : DetailAnswers(c)
  BY <1>5, DetailKeeps
<1>6. CASE ServeCreate \/ \E r \in Runs : WorkOn(r)
  BY <1>6, ServeCreateKeeps, WorkKeeps
<1>7. CASE UNCHANGED vars
  BY <1>7 DEF vars, Inv, TypeOK, StartAwaits, OnePerStart, Sources, InUse, NeverDeaf,
              LoadingHasRequest
<1>. QED
  BY <1>1, <1>2, <1>3, <1>4, <1>5, <1>6, <1>7 DEF Next

LEMMA InvAlways == Spec => []Inv
BY InvInitially, InvStep, PTL DEF Spec

\* Every variable of the page keeps its type, and the timer is set only between two polls
\* and only for a run (refreshRun, stopPolling).
THEOREM PageTypeCorrect == Spec => []TypeOK
BY InvAlways, PTL DEF Inv

\* A page that shows a pending run has a timer set or a poll of that run in flight, however
\* many starts there are and in whatever order their polls come back (refreshRun).
THEOREM PageNeverDeaf == Spec => []NeverDeaf
BY InvAlways, PTL DEF Inv

\* A panel that says it is loading has a request in flight (loadCandidateDetail).
THEOREM LoadingAlwaysHasRequest == Spec => []LoadingHasRequest
BY InvAlways, PTL DEF Inv

\* Polls do not pile up: with the timer and the request they may come from there are never
\* more of them than starts (startRun, refreshRun).
THEOREM PollsNeverPileUp == Spec => []OnePerStart
BY InvAlways, PTL DEF Inv
=============================================================================
