------------------------- MODULE ControlCenterProofs -------------------------
(***************************************************************************)
(* For every set of endpoints, polls, sessions, engines and maps and every *)
(* bound: the views of the Control Center tell the truth, its sessions     *)
(* agree with the gateway's, the keys of an input method stay in their     *)
(* field, and the components that mirror a state follow it.                *)
(*                                                                         *)
(* Most of these properties speak of a moment when nothing is under way,   *)
(* or of what a step did.  The invariant of each part says what holds in   *)
(* between: whom the last request of a view is for, what a poll has shown  *)
(* already, that a mount waits for one check at most, which engine is      *)
(* listened to, and what a flag says of the timer that will reset it.      *)
(* What charts, fields and servers show is proved of every input of which  *)
(* ContentAssumption holds.                                                *)
(*                                                                         *)
(* A step moves one part at most: what each part keeps under its own steps *)
(* it keeps under all (PartsMove).                                         *)
(***************************************************************************)
EXTENDS MCControlCenter, SequenceTheorems, FiniteSetTheorems, TLAPS

-----------------------------------------------------------------------------
(* The views that read the gateway.                                        *)

\* The last request of a view that asked in order is for what it shows.
LastAskedIsShown == inOrder /\ calls # <<>> => calls[Len(calls)] = key

ViewInv == ViewTypeOK /\ ViewSettles /\ ShowsItsOwn /\ LastAskedIsShown

\* A request more is the last one.
LEMMA CallAppended ==
  ASSUME NEW S, NEW s \in Seq(S), NEW k \in S
  PROVE  /\ Append(s, k) \in Seq(S) /\ Len(Append(s, k)) = Len(s) + 1
         /\ Append(s, k) # <<>> /\ Append(s, k)[Len(Append(s, k))] = k
<1>1. Append(s, k) \in Seq(S) /\ Len(Append(s, k)) = Len(s) + 1 /\ Append(s, k)[Len(s) + 1] = k
  BY AppendProperties
<1> QED  BY <1>1, EmptySeq, LenProperties

\* Without its first request a sequence has lost one, and its last is the same.
LEMMA FirstCallRemoved ==
  ASSUME NEW S, NEW s \in Seq(S), s # <<>>
  PROVE  /\ RemoveAt(s, 1) \in Seq(S) /\ Len(RemoveAt(s, 1)) = Len(s) - 1
         /\ RemoveAt(s, 1) # <<>> => RemoveAt(s, 1)[Len(RemoveAt(s, 1))] = s[Len(s)]
<1>1. Len(s) \in Nat /\ Len(s) >= 1
  BY EmptySeq
<1>2. SubSeq(s, 1, 0) = <<>>
  BY SubSeqEmpty
<1>3. /\ SubSeq(s, 2, Len(s)) \in Seq(S) /\ Len(SubSeq(s, 2, Len(s))) = Len(s) - 1
      /\ \A j \in 1 .. Len(s) - 1 : SubSeq(s, 2, Len(s))[j] = s[j + 1]
  BY <1>1, HeadTailProperties, TailIsSubSeq
<1>4. RemoveAt(s, 1) = SubSeq(s, 2, Len(s))
  <2>1. RemoveAt(s, 1) = SubSeq(s, 1, 0) \o SubSeq(s, 2, Len(s))
    BY DEF RemoveAt
  <2> QED  BY <1>2, <1>3, <2>1, ConcatEmptySeq
<1>5. RemoveAt(s, 1) # <<>> => Len(s) - 1 \in 1 .. Len(s) - 1
  BY <1>1, <1>3, <1>4
<1>6. Len(s) - 1 \in 1 .. Len(s) - 1 => SubSeq(s, 2, Len(s))[Len(s) - 1] = s[Len(s)]
  BY <1>1, <1>3
<1>7. RemoveAt(s, 1) \in Seq(S) /\ Len(RemoveAt(s, 1)) = Len(s) - 1
  BY <1>3, <1>4, Zenon
<1>8. RemoveAt(s, 1) # <<>> => RemoveAt(s, 1)[Len(RemoveAt(s, 1))] = s[Len(s)]
  BY <1>4, <1>5, <1>6, <1>7, Zenon
<1> QED  BY <1>7, <1>8, Zenon

\* Without any of its requests it is a sequence of one less.
LEMMA CallRemoved ==
  ASSUME NEW S, NEW s \in Seq(S), NEW i \in DOMAIN s
  PROVE  RemoveAt(s, i) \in Seq(S) /\ Len(RemoveAt(s, i)) = Len(s) - 1
<1>1. Len(s) \in Nat /\ DOMAIN s = 1 .. Len(s) /\ i \in 1 .. Len(s)
  BY LenProperties
<1>2. SubSeq(s, 1, i - 1) \in Seq(S) /\ Len(SubSeq(s, 1, i - 1)) = i - 1
  BY <1>1, SubSeqProperties
<1>3. SubSeq(s, i + 1, Len(s)) \in Seq(S) /\ Len(SubSeq(s, i + 1, Len(s))) = Len(s) - i
  BY <1>1, SubSeqProperties
<1>4. RemoveAt(s, i) = SubSeq(s, 1, i - 1) \o SubSeq(s, i + 1, Len(s))
  BY DEF RemoveAt
<1>5. /\ SubSeq(s, 1, i - 1) \o SubSeq(s, i + 1, Len(s)) \in Seq(S)
      /\ Len(SubSeq(s, 1, i - 1) \o SubSeq(s, i + 1, Len(s))) = i - 1 + (Len(s) - i)
  BY <1>2, <1>3, ConcatProperties
<1>6. Len(RemoveAt(s, i)) = i - 1 + (Len(s) - i)
  BY <1>4, <1>5, Zenon
<1>7. i - 1 + (Len(s) - i) = Len(s) - 1
  BY <1>1
<1>8. RemoveAt(s, i) \in Seq(S)
  BY <1>4, <1>5, Zenon
<1> QED  BY <1>6, <1>7, <1>8, Zenon

\* A key is never one of the words for an empty payload.
LEMMA KeysAreNoWords ==
  ASSUME NEW v \in DOMAIN KeysOf, NEW k \in KeysOf[v]
  PROVE  k # "nothing" /\ k # "empty"
BY ViewAssumption

LEMMA ViewBegins == ViewInit => ViewInv
<1> SUFFICES ASSUME ViewInit PROVE ViewInv
  OBVIOUS
<1>1. <<key>> \in Seq(KeysOf[view]) /\ Len(<<key>>) = 1 /\ <<key>>[1] = key /\ <<key>> # <<>>
  BY DEF ViewInit
<1>2. Len(<<key>>) <= MaxCalls
  BY <1>1, ViewAssumption
<1>3. calls \in Seq(KeysOf[view]) /\ Len(calls) <= MaxCalls
  BY <1>1, <1>2, Zenon DEF ViewInit
<1>4. ViewTypeOK
  BY <1>3, Zenon DEF ViewInit, ViewTypeOK
<1> QED  BY <1>1, <1>4 DEF ViewInit, ViewInv, ViewSettles, ShowsItsOwn, LastAskedIsShown

\* Another component begins with its own request alone.
LEMMA MountKeeps ==
  ASSUME NEW v \in DOMAIN KeysOf, NEW k \in KeysOf[v], Mount(v, k)
  PROVE  ViewInv'
<1>1. <<k>> \in Seq(KeysOf[v]) /\ Len(<<k>>) = 1 /\ <<k>>[1] = k /\ <<k>> # <<>>
  OBVIOUS
<1>2. Len(<<k>>) <= MaxCalls
  BY <1>1, ViewAssumption
<1>3. calls' \in Seq(KeysOf[view']) /\ Len(calls') <= MaxCalls
  BY <1>1, <1>2, Zenon DEF Mount
<1>4. ViewTypeOK'
  BY <1>3, Zenon DEF Mount, ViewTypeOK
<1> QED  BY <1>1, <1>4 DEF Mount, ViewInv, ViewSettles, ShowsItsOwn, LastAskedIsShown

\* The request for the key that is shown from now on is the last one.
LEMMA LoadKeeps ==
  ASSUME ViewInv, NEW k \in KeysOf[view], Load(k), key' = k, Len(calls) < MaxCalls,
         UNCHANGED <<view, payload, inOrder>>
  PROVE  ViewInv'
<1>1. /\ calls' \in Seq(KeysOf[view]) /\ Len(calls') = Len(calls) + 1
      /\ calls' # <<>> /\ calls'[Len(calls')] = k
  BY CallAppended DEF Load, ViewInv, ViewTypeOK
<1>2. Len(calls') <= MaxCalls
  BY <1>1, ViewAssumption, LenProperties DEF ViewInv, ViewTypeOK
<1>3. ViewTypeOK'
  BY <1>1, <1>2 DEF Load, ViewInv, ViewTypeOK
<1> QED  BY <1>1, <1>3 DEF Load, ViewInv, ViewSettles, ShowsItsOwn, LastAskedIsShown

\* What a request that ends leaves of the others.
LEMMA SettleLeaves ==
  ASSUME ViewInv, NEW i, Settle1(i)
  PROVE  /\ calls' \in Seq(KeysOf[view]) /\ Len(calls') <= MaxCalls
         /\ calls[i] \in KeysOf[view]
         /\ loading' = FALSE /\ view' = view /\ key' = key /\ inOrder' \in BOOLEAN
         /\ inOrder' /\ calls' # <<>> => calls'[Len(calls')] = key
         /\ inOrder' /\ calls' = <<>> => calls[i] = key
<1>1. /\ calls \in Seq(KeysOf[view]) /\ i \in DOMAIN calls /\ calls # <<>>
      /\ Len(calls) \in Nat /\ Len(calls) <= MaxCalls /\ MaxCalls \in Nat /\ inOrder \in BOOLEAN
  BY LenProperties, ViewAssumption DEF ViewInv, ViewTypeOK, Settle1
<1>2. /\ calls' = RemoveAt(calls, i) /\ inOrder' = (inOrder /\ i = 1)
      /\ loading' = FALSE /\ view' = view /\ key' = key
  BY DEF Settle1
<1>3. calls' \in Seq(KeysOf[view]) /\ Len(calls') = Len(calls) - 1
  BY <1>1, <1>2, CallRemoved
<1>4. Len(calls') <= MaxCalls
  BY <1>1, <1>3
<1>5. calls[i] \in KeysOf[view]
  BY <1>1, LenProperties
<1>6. ASSUME inOrder' PROVE calls[Len(calls)] = key /\ i = 1
  BY <1>1, <1>2, <1>6 DEF ViewInv, LastAskedIsShown
<1>7. ASSUME inOrder', calls' # <<>> PROVE calls'[Len(calls')] = key
  <2>1. calls' = RemoveAt(calls, 1)
    BY <1>2, <1>6, <1>7
  <2> QED  BY <1>1, <1>6, <1>7, <2>1, FirstCallRemoved
<1>8. ASSUME inOrder', calls' = <<>> PROVE calls[i] = key
  <2>1. Len(calls') = 0
    BY <1>8
  <2>2. Len(calls) = 1
    BY <1>1, <1>3, <2>1
  <2> QED  BY <1>6, <1>8, <2>2
<1> QED  BY <1>2, <1>3, <1>4, <1>5, <1>7, <1>8, <1>1

LEMMA AnswerKeeps ==
  ASSUME ViewInv, NEW i, AnswerArrives(i)
  PROVE  ViewInv'
<1>1. Settle1(i) /\ payload' \in {calls[i], "empty"} /\ error' = error
  BY DEF AnswerArrives
<1>2. /\ calls' \in Seq(KeysOf[view]) /\ Len(calls') <= MaxCalls
      /\ calls[i] \in KeysOf[view]
      /\ loading' = FALSE /\ view' = view /\ key' = key /\ inOrder' \in BOOLEAN
      /\ inOrder' /\ calls' # <<>> => calls'[Len(calls')] = key
      /\ inOrder' /\ calls' = <<>> => calls[i] = key
  BY <1>1, SettleLeaves
<1>3. calls[i] # "nothing"
  BY <1>2, KeysAreNoWords DEF ViewInv, ViewTypeOK
<1>4. ViewTypeOK'
  BY <1>1, <1>2 DEF ViewInv, ViewTypeOK
<1> QED  BY <1>1, <1>2, <1>3, <1>4 DEF ViewInv, ViewSettles, ShowsItsOwn, LastAskedIsShown

LEMMA FailureKeeps ==
  ASSUME ViewInv, NEW i, AnswerFails(i)
  PROVE  ViewInv'
<1>1. Settle1(i) /\ payload' = payload /\ error' = TRUE
  BY DEF AnswerFails
<1>2. /\ calls' \in Seq(KeysOf[view]) /\ Len(calls') <= MaxCalls
      /\ calls[i] \in KeysOf[view]
      /\ loading' = FALSE /\ view' = view /\ key' = key /\ inOrder' \in BOOLEAN
      /\ inOrder' /\ calls' # <<>> => calls'[Len(calls')] = key
      /\ inOrder' /\ calls' = <<>> => calls[i] = key
  BY <1>1, SettleLeaves
<1>3. ViewTypeOK'
  BY <1>1, <1>2 DEF ViewInv, ViewTypeOK
<1> QED  BY <1>1, <1>2, <1>3 DEF ViewInv, ViewSettles, ShowsItsOwn, LastAskedIsShown

LEMMA ViewStepKeeps == ViewInv /\ [ViewNext]_viewVars => ViewInv'
<1> SUFFICES ASSUME ViewInv, [ViewNext]_viewVars PROVE ViewInv'
  OBVIOUS
<1>1. CASE \E v \in DOMAIN KeysOf : \E k \in KeysOf[v] : Navigate(v, k)
  BY <1>1, MountKeeps DEF Navigate
<1>2. CASE \E k \in KeysOf[view] : ChangeKey(k)
  <2>1. PICK k \in KeysOf[view] : ChangeKey(k)
    BY <1>2
  <2> QED  BY <2>1, LoadKeeps DEF ChangeKey
<1>3. CASE Refresh
  <2>1. key \in KeysOf[view]
    BY DEF ViewInv, ViewTypeOK
  <2> QED  BY <1>3, <2>1, LoadKeeps DEF Refresh
<1>4. CASE \E i \in 1 .. MaxCalls : CallEnds(i)
  BY <1>4, AnswerKeeps, FailureKeeps DEF CallEnds
<1>5. CASE UNCHANGED viewVars
  BY <1>5 DEF viewVars, ViewInv, ViewTypeOK, ViewSettles, ShowsItsOwn, LastAskedIsShown
<1> QED  BY <1>1, <1>2, <1>3, <1>4, <1>5 DEF ViewNext

-----------------------------------------------------------------------------
(* The overview.                                                           *)

\* Of an overview whose polls do not overlap, at most one is under way, and the pill
\* shows already what that one was told of the health.
PollsAreOne ==
  ~overlapped =>
    /\ \A p, q \in Polls : poll[p].stage # "idle" /\ poll[q].stage # "idle" => p = q
    /\ \A p \in Polls : poll[p].stage \in {"status", "evidence"} => apiOnline = poll[p].answers.health

OverviewInv == OverviewTypeOK /\ PillTellsLastPoll /\ PollsAreOne

Stages == {"idle", "asked", "status", "evidence"}

PollStates == [stage : Stages, answers : Answers]

LEMMA StagesAreTyped ==
  ASSUME NEW stage \in Stages, NEW answers \in Answers
  PROVE  /\ At(stage, answers) \in PollStates /\ At(stage, answers).stage = stage
         /\ At(stage, answers).answers = answers
         /\ Idle \in PollStates /\ Idle.stage = "idle"
<1>1. AllRefused \in Answers
  BY DEF AllRefused, Answers
<1> HIDE DEF Answers
<1> QED  BY <1>1 DEF At, Idle, PollStates, Stages

LEMMA OverviewBegins == OverviewInit => OverviewInv
<1> SUFFICES ASSUME OverviewInit PROVE OverviewInv
  OBVIOUS
<1>1. PICK p \in Polls : poll = [q \in Polls |-> IF q = p THEN At("asked", AllRefused) ELSE Idle]
  BY DEF OverviewInit
<1>2. /\ At("asked", AllRefused) \in PollStates /\ At("asked", AllRefused).stage = "asked"
      /\ Idle \in PollStates /\ Idle.stage = "idle"
  <2>1. AllRefused \in Answers /\ "asked" \in Stages
    BY DEF AllRefused, Answers, Stages
  <2> QED  BY <2>1, StagesAreTyped
<1> HIDE DEF At, Idle, PollStates
<1>3. /\ poll \in [Polls -> PollStates] /\ poll[p].stage = "asked"
      /\ \A q \in Polls : q # p => poll[q].stage = "idle"
  BY <1>1, <1>2
<1>4. OverviewTypeOK
  <2>1. second \in 1 .. MaxSeconds /\ lastRefresh \in 0 .. MaxSeconds
    BY OverviewAssumption DEF OverviewInit
  <2>2. /\ {apiOnline, liveStatus, complete, overlapped} \subseteq BOOLEAN
        /\ recentEvidence \in {"demo", "live"}
    BY DEF OverviewInit
  <2>3. poll \in [Polls -> [stage : {"idle", "asked", "status", "evidence"}, answers : Answers]]
    BY <1>3, Zenon DEF PollStates, Stages
  <2> QED  BY <2>1, <2>2, <2>3, Zenon DEF OverviewTypeOK
<1>5. Polling # {}
  BY <1>3 DEF Polling
<1>6. \A q \in Polls : poll[q].stage = "idle" \/ (q = p /\ poll[q].stage = "asked")
  BY <1>3
<1> QED  BY <1>4, <1>5, <1>6 DEF OverviewInv, PillTellsLastPoll, PollsAreOne

\* A poll is put to another stage, or is over, and the others stay where they are.
LEMMA PollMoves ==
  ASSUME OverviewInv, NEW p \in Polls, NEW state \in PollStates,
         poll' = [poll EXCEPT ![p] = state]
  PROVE  /\ poll' \in [Polls -> PollStates] /\ poll'[p] = state
         /\ \A q \in Polls \ {p} : poll'[q] = poll[q]
BY DEF OverviewInv, OverviewTypeOK, PollStates, Stages

\* While one poll is under way, it alone makes the next state of the pill right.
LEMMA PollGoesOn ==
  ASSUME OverviewInv, NEW p \in Polls, poll[p].stage # "idle", NEW state \in PollStates,
         poll' = [poll EXCEPT ![p] = state],
         state.stage \in {"status", "evidence"} => apiOnline' = state.answers.health,
         state.stage # "asked",
         state.stage = "idle" => apiOnline' = complete',
         apiOnline' \in BOOLEAN, complete' \in BOOLEAN,
         liveStatus' \in BOOLEAN, recentEvidence' \in {"demo", "live"},
         UNCHANGED <<second, lastRefresh, overlapped>>
  PROVE  OverviewInv'
<1>1. /\ poll' \in [Polls -> PollStates] /\ poll'[p] = state
      /\ \A q \in Polls \ {p} : poll'[q] = poll[q]
  BY PollMoves
<1>2. OverviewTypeOK'
  BY <1>1 DEF OverviewInv, OverviewTypeOK, PollStates, Stages
<1>3. overlapped \/ \A q \in Polls \ {p} : poll[q].stage = "idle"
  BY DEF OverviewInv, PollsAreOne
<1>4. CASE overlapped
  BY <1>2, <1>4 DEF OverviewInv, PillTellsLastPoll, PollsAreOne
<1>5. CASE \A q \in Polls \ {p} : poll[q].stage = "idle"
  <2>1. \A q \in Polls : q = p \/ poll'[q].stage = "idle"
    BY <1>1, <1>5
  <2>2. (Polling = {})' => state.stage = "idle"
    BY <1>1 DEF Polling
  <2>3. PollsAreOne'
    <3>1. \A q \in Polls : poll'[q].stage \in {"status", "evidence"} => apiOnline' = poll'[q].answers.health
      BY <1>1, <2>1
    <3> QED  BY <2>1, <3>1 DEF PollsAreOne
  <2> QED  BY <1>2, <2>2, <2>3 DEF OverviewInv, PillTellsLastPoll
<1> QED  BY <1>3, <1>4, <1>5

\* The same of a poll that goes on to a stage, or to none.
LEMMA GoOnKeeps ==
  ASSUME OverviewInv, NEW p \in Polls, poll[p].stage # "idle",
         NEW stage \in {"idle", "status", "evidence"}, NEW answers \in Answers,
         GoOn(p, stage, answers), apiOnline' = answers.health,
         liveStatus' \in BOOLEAN, recentEvidence' \in {"demo", "live"}
  PROVE  OverviewInv'
<1> DEFINE state == IF stage = "idle" THEN Idle ELSE At(stage, answers)
<1>1. /\ At(stage, answers) \in PollStates /\ At(stage, answers).stage = stage
      /\ At(stage, answers).answers = answers
      /\ Idle \in PollStates /\ Idle.stage = "idle"
  BY StagesAreTyped DEF Stages
<1>2. state \in PollStates /\ state.stage = stage /\ (stage # "idle" => state.answers = answers)
  BY <1>1, Zenon
<1>3. /\ poll' = [poll EXCEPT ![p] = state]
      /\ complete' = IF stage = "idle" THEN answers.health ELSE complete
      /\ UNCHANGED <<second, lastRefresh, overlapped>>
  BY DEF GoOn
<1>4. answers.health \in BOOLEAN /\ complete \in BOOLEAN
  BY DEF Answers, OverviewInv, OverviewTypeOK
<1> HIDE DEF state
<1> QED  BY <1>2, <1>3, <1>4, PollGoesOn

\* Once two of them overlapped, nothing is promised of the pill any more.
LEMMA OverlappedGoesOn ==
  ASSUME OverviewInv, overlapped, NEW p \in Polls,
         NEW stage \in {"idle", "status", "evidence"}, NEW answers \in Answers,
         GoOn(p, stage, answers), apiOnline' \in BOOLEAN,
         liveStatus' \in BOOLEAN, recentEvidence' \in {"demo", "live"}
  PROVE  OverviewInv'
<1>1. (IF stage = "idle" THEN Idle ELSE At(stage, answers)) \in PollStates
  <2>1. At(stage, answers) \in PollStates /\ Idle \in PollStates
    BY StagesAreTyped DEF Stages
  <2> QED  BY <2>1, Zenon
<1>2. poll' \in [Polls -> PollStates] /\ overlapped' = overlapped
  BY <1>1, PollMoves DEF GoOn
<1>3. complete' \in BOOLEAN /\ second' = second /\ lastRefresh' = lastRefresh
  BY DEF GoOn, Answers, OverviewInv, OverviewTypeOK
<1>4. OverviewTypeOK'
  BY <1>2, <1>3 DEF OverviewInv, OverviewTypeOK, PollStates, Stages
<1> QED  BY <1>2, <1>4 DEF OverviewInv, PillTellsLastPoll, PollsAreOne

LEMMA RejectedKeeps ==
  ASSUME OverviewInv, NEW p \in Polls, poll[p].stage # "idle", Rejected(p),
         liveStatus' \in BOOLEAN, recentEvidence' \in {"demo", "live"}
  PROVE  OverviewInv'
<1>1. Idle \in PollStates /\ Idle.stage = "idle"
  <2>1. AllRefused \in Answers /\ "idle" \in Stages
    BY DEF AllRefused, Answers, Stages
  <2> QED  BY <2>1, StagesAreTyped
<1>2. /\ poll' = [poll EXCEPT ![p] = Idle] /\ apiOnline' = FALSE /\ complete' = FALSE
      /\ UNCHANGED <<second, lastRefresh, overlapped>>
  BY DEF Rejected
<1> QED  BY <1>1, <1>2, PollGoesOn

LEMMA RefreshKeeps ==
  ASSUME OverviewInv, NEW p \in Polls, RefreshOverview(p)
  PROVE  OverviewInv'
<1>1. /\ At("asked", AllRefused) \in PollStates /\ At("asked", AllRefused).stage = "asked"
  <2>1. AllRefused \in Answers /\ "asked" \in Stages
    BY DEF AllRefused, Answers, Stages
  <2> QED  BY <2>1, StagesAreTyped
<1>2. /\ poll' \in [Polls -> PollStates] /\ poll'[p].stage = "asked"
      /\ \A q \in Polls \ {p} : poll'[q] = poll[q]
  BY <1>1, PollMoves DEF RefreshOverview
<1>3. OverviewTypeOK'
  BY <1>2 DEF RefreshOverview, OverviewInv, OverviewTypeOK, PollStates, Stages
<1>4. Polling' # {}
  BY <1>2 DEF Polling
<1>5. PollsAreOne'
  <2>1. SUFFICES ASSUME ~overlapped' PROVE PollsAreOne'
    BY DEF PollsAreOne
  <2>2. ~overlapped /\ Polling = {}
    BY <2>1 DEF RefreshOverview, OverviewInv, OverviewTypeOK
  <2>3. \A q \in Polls \ {p} : poll'[q].stage = "idle"
    BY <1>2, <2>2 DEF Polling
  <2> QED  BY <1>2, <2>3 DEF PollsAreOne
<1> QED  BY <1>3, <1>4, <1>5 DEF OverviewInv, PillTellsLastPoll

LEMMA OverviewStepKeeps == OverviewInv /\ [OverviewNext]_overviewVars => OverviewInv'
<1> SUFFICES ASSUME OverviewInv, [OverviewNext]_overviewVars PROVE OverviewInv'
  OBVIOUS
<1>1. CASE SecondPasses
  BY <1>1, OverviewAssumption DEF SecondPasses, OverviewInv, OverviewTypeOK, PillTellsLastPoll, PollsAreOne, Polling
<1>2. ASSUME NEW p \in Polls, RefreshOverview(p) PROVE OverviewInv'
  BY <1>2, RefreshKeeps
<1>3. /\ liveStatus \in BOOLEAN /\ recentEvidence \in {"demo", "live"} /\ apiOnline \in BOOLEAN
      /\ \A p \in Polls : poll[p].answers \in Answers
  BY DEF OverviewInv, OverviewTypeOK
<1>4. ASSUME NEW p \in Polls, PollFails(p) PROVE OverviewInv'
  BY <1>3, <1>4, RejectedKeeps DEF PollFails
<1>5. ASSUME NEW answers \in Answers
      PROVE  /\ AfterStatus(answers) \in {"idle", "status", "evidence"}
             /\ AfterHealth(answers) \in {"idle", "status", "evidence"}
  BY DEF AfterStatus, AfterHealth
<1>6. ASSUME NEW p \in Polls, PollAnswered(p) PROVE OverviewInv'
  <2>1. PICK answers \in Answers : apiOnline' = answers.health /\ GoOn(p, AfterHealth(answers), answers)
    BY <1>6 DEF PollAnswered
  <2>2. poll[p].stage # "idle" /\ liveStatus' = liveStatus /\ recentEvidence' = recentEvidence
    BY <1>6 DEF PollAnswered
  <2> QED  BY <1>3, <1>5, <2>1, <2>2, GoOnKeeps
<1>7. ASSUME NEW p \in Polls, StatusRead(p) PROVE OverviewInv'
  <2> DEFINE answers == poll[p].answers
  <2>1. poll[p].stage = "status" /\ recentEvidence' = recentEvidence /\ answers \in Answers
    BY <1>3, <1>7 DEF StatusRead
  <2>2. CASE liveStatus' = TRUE /\ GoOn(p, AfterStatus(answers), answers) /\ apiOnline' = apiOnline
    <3>1. AfterStatus(answers) \in {"idle", "status", "evidence"}
      BY <1>5, <2>1
    <3>2. CASE overlapped
      BY <1>3, <2>1, <2>2, <3>1, <3>2, OverlappedGoesOn
    <3>3. CASE ~overlapped
      <4>1. apiOnline' = answers.health
        BY <2>1, <2>2, <3>3 DEF OverviewInv, PollsAreOne
      <4> QED  BY <1>3, <2>1, <2>2, <3>1, <4>1, GoOnKeeps
    <3> QED  BY <3>2, <3>3
  <2>3. CASE Rejected(p) /\ liveStatus' = liveStatus
    BY <1>3, <2>1, <2>3, RejectedKeeps
  <2> QED  BY <1>7, <2>2, <2>3 DEF StatusRead
<1>8. ASSUME NEW p \in Polls, EvidenceRead(p) PROVE OverviewInv'
  <2> DEFINE answers == poll[p].answers
  <2>1. poll[p].stage = "evidence" /\ liveStatus' = liveStatus /\ answers \in Answers
    BY <1>3, <1>8 DEF EvidenceRead
  <2>2. recentEvidence' \in {"demo", "live"}
    BY <1>3, <1>8 DEF EvidenceRead
  <2>3. CASE GoOn(p, "idle", answers) /\ apiOnline' = apiOnline
    <3>1. CASE overlapped
      BY <1>3, <2>1, <2>2, <2>3, <3>1, OverlappedGoesOn
    <3>2. CASE ~overlapped
      <4>1. apiOnline' = answers.health
        BY <2>1, <2>3, <3>2 DEF OverviewInv, PollsAreOne
      <4> QED  BY <1>3, <2>1, <2>2, <2>3, <4>1, GoOnKeeps
    <3> QED  BY <3>1, <3>2
  <2>4. CASE Rejected(p)
    BY <1>3, <2>1, <2>2, <2>4, RejectedKeeps
  <2> QED  BY <1>8, <2>3, <2>4 DEF EvidenceRead
<1>9. CASE UNCHANGED overviewVars
  BY <1>9 DEF overviewVars, OverviewInv, OverviewTypeOK, PillTellsLastPoll, PollsAreOne, Polling
<1> QED  BY <1>1, <1>2, <1>4, <1>6, <1>7, <1>8, <1>9 DEF OverviewNext, PollSteps

-----------------------------------------------------------------------------
(* The sessions of operators.                                              *)

\* Only a restart forgets a sign-out.
RevokedAreKept == restarted \/ revoked_sessions = signedOut

\* A slot that is free holds no call, and no call is of a mount to come.
CallsAreOfMounts ==
  \A s \in Slots :
    /\ request[s].mount <= mount
    /\ request[s].state = "free" => request[s].call = "none"

\* A team view that checks shows nobody yet.
CheckingShowsNobody == checking => shown = "team" /\ user = NoToken

Mine(s) == request[s].mount = mount

\* A mount has one check, which is waited for, of the session that is stored, and it
\* neither signs in nor out meanwhile.
OneCheck ==
  shown = "team" =>
    \A s \in Slots : request[s].call = "check" /\ Mine(s) =>
      /\ checking
      /\ crossed \/ stored = request[s].token
      /\ \A r \in Slots : Mine(r) => r = s \/ request[r].call \notin {"check", "login", "logout"}

\* What the page and the calls say of each other, and what the gateway's sets do.
CallsInv ==
  /\ SessionShownIsStored /\ CheckIsUnderWay
  /\ CallsAreOfMounts /\ CheckingShowsNobody /\ OneCheck

Calls1 == {"none", "check", "login", "logout", "scenario"}

States1 == {"free", "sent", "accepted", "refused", "failed"}

CallRecords ==
  [call : Calls1, token : Tokens \cup {NoToken}, mount : 0 .. MaxMounts, state : States1]

\* What holds of the calls and of the page, apart from what the gateway keeps.
CallsTyped ==
  /\ request \in [Slots -> CallRecords]
  /\ stored \in Tokens \cup {NoToken} /\ user \in Tokens \cup {NoToken}
  /\ checking \in BOOLEAN /\ crossed \in BOOLEAN
  /\ shown \in {"team", "lab"} /\ mount \in 0 .. MaxMounts /\ faults \in 0 .. MaxFaults

GatewayTyped ==
  /\ outlived \in BOOLEAN /\ restarted \in BOOLEAN
  /\ expired \subseteq issued /\ issued \subseteq Tokens
  /\ revoked_sessions \subseteq signedOut /\ signedOut \subseteq issued

SessionInv == CallsTyped /\ GatewayTyped /\ SignedOutIsRefused /\ RevokedAreKept /\ CallsInv

LEMMA SessionTypes == SessionInv => SessionTypeOK
<1>1. checking \in BOOLEAN /\ outlived \in BOOLEAN /\ restarted \in BOOLEAN /\ crossed \in BOOLEAN
        => {checking, outlived, restarted, crossed} \subseteq BOOLEAN
  OBVIOUS
<1> QED  BY <1>1, Zenon DEF SessionInv, SessionTypeOK, CallsTyped, GatewayTyped, CallRecords, Calls1, States1

LEMMA FreeIsACall == Free1 \in CallRecords /\ Free1.call = "none" /\ Free1.state = "free" /\ Free1.mount = 0
<1>1. 0 \in 0 .. MaxMounts
  BY SessionAssumption
<1> QED  BY <1>1 DEF Free1, CallRecords, Calls1, States1

\* One slot's call is another, the others' are as they were.
LEMMA OneCallChanges ==
  ASSUME CallsTyped, NEW s \in Slots, NEW call \in CallRecords,
         request' = [request EXCEPT ![s] = call]
  PROVE  /\ request' \in [Slots -> CallRecords] /\ request'[s] = call
         /\ \A r \in Slots \ {s} : request'[r] = request[r]
BY DEF CallsTyped

\* A call is sent, of the mount there is from now on.
LEMMA CallIsSent ==
  ASSUME CallsTyped, NEW s \in Slots, NEW name \in Calls1, NEW token \in Tokens \cup {NoToken},
         mount' \in 0 .. MaxMounts, Call(s, name, token)
  PROVE  /\ request' \in [Slots -> CallRecords]
         /\ request'[s].call = name /\ request'[s].token = token
         /\ request'[s].mount = mount' /\ request'[s].state = "sent"
         /\ \A r \in Slots \ {s} : request'[r] = request[r]
         /\ request[s].state = "free"
<1>1. [call |-> name, token |-> token, mount |-> mount', state |-> "sent"] \in CallRecords
  BY DEF CallRecords, States1
<1>2. PICK call \in CallRecords : call = [call |-> name, token |-> token, mount |-> mount', state |-> "sent"]
  BY <1>1
<1>3. request[s].state = "free" /\ request' = [request EXCEPT ![s] = call]
  BY <1>2 DEF Call
<1>4. call.call = name /\ call.token = token /\ call.mount = mount' /\ call.state = "sent"
  BY <1>2
<1> QED  BY <1>3, <1>4, OneCallChanges

-----------------------------------------------------------------------------
(* The gateway's own steps: a call keeps its kind, its mount, and, but for *)
(* one that signs in, its token.                                           *)

CallServed(s) ==
  /\ request' \in [Slots -> CallRecords]
  /\ \A r \in Slots \ {s} : request'[r] = request[r]
  /\ request'[s].call = request[s].call /\ request'[s].mount = request[s].mount
  /\ request[s].call = "login" \/ request'[s].token = request[s].token
  /\ request[s].state # "free" /\ request'[s].state # "free"

LEMMA ServedKeeps ==
  ASSUME SessionInv, NEW s \in Slots, CallServed(s), UNCHANGED <<page, crossed>>
  PROVE  CallsInv'
<1>1. /\ UNCHANGED <<stored, user, checking, shown, mount, crossed>>
      /\ CallsTyped
  BY DEF page, SessionInv
<1>2. \A r \in Slots :
        /\ request'[r].call = request[r].call /\ request'[r].mount = request[r].mount
        /\ request[r].call = "login" \/ request'[r].token = request[r].token
        /\ request'[r].state = "free" => request[r].state = "free"
  BY DEF CallServed
<1>3. \A r \in Slots : Mine(r)' <=> Mine(r)
  BY <1>1, <1>2 DEF Mine
<1>4. SessionShownIsStored' /\ CheckIsUnderWay' /\ CallsAreOfMounts' /\ CheckingShowsNobody'
  BY <1>1, <1>2 DEF SessionInv, CallsInv, SessionShownIsStored, CheckIsUnderWay, CallsAreOfMounts, CheckingShowsNobody
<1>5. OneCheck'
  BY <1>1, <1>2, <1>3 DEF SessionInv, CallsInv, OneCheck
<1> QED  BY <1>4, <1>5 DEF CallsInv

LEMMA ServeIsServed ==
  ASSUME SessionInv, NEW s \in Slots, NEW state \in {"accepted", "refused"},
         NEW token \in Tokens \cup {NoToken}, Serve1(s, state, token),
         request[s].call = "login" \/ token = request[s].token
  PROVE  CallServed(s)
<1>1. CallsTyped
  BY DEF SessionInv
<1>2. [request[s] EXCEPT !.state = state, !.token = token] \in CallRecords
  BY <1>1 DEF CallsTyped, CallRecords, States1
<1>3. PICK call \in CallRecords : call = [request[s] EXCEPT !.state = state, !.token = token]
  BY <1>2
<1>4. /\ call.call = request[s].call /\ call.mount = request[s].mount
      /\ call.state = state /\ call.token = token
  BY <1>1, <1>3 DEF CallsTyped, CallRecords
<1>5. request' = [request EXCEPT ![s] = call] /\ request[s].state = "sent"
  <2>1. request' = [request EXCEPT ![s].state = state, ![s].token = token]
    BY DEF Serve1
  <2>2. request' = [request EXCEPT ![s] = [request[s] EXCEPT !.state = state, !.token = token]]
    BY <1>1, <2>1 DEF CallsTyped
  <2> QED  BY <1>3, <2>2 DEF Serve1
<1>6. /\ request' \in [Slots -> CallRecords] /\ request'[s] = call
      /\ \A r \in Slots \ {s} : request'[r] = request[r]
  BY <1>1, <1>5, OneCallChanges
<1> QED  BY <1>4, <1>5, <1>6 DEF CallServed

LEMMA IssueKeeps ==
  ASSUME SessionInv, NEW s \in Slots, IssueSession(s)
  PROVE  SessionInv'
<1>1. CallServed(s) /\ issued \subseteq issued' /\ issued' \subseteq Tokens
  <2>1. request[s].call = "login" /\ issued \subseteq Tokens
    BY DEF IssueSession, SessionInv, GatewayTyped
  <2>2. CASE \E token \in Tokens \ issued : Serve1(s, "accepted", token) /\ issued' = issued \cup {token}
    BY <2>1, <2>2, ServeIsServed
  <2>3. CASE Serve1(s, "refused", NoToken) /\ UNCHANGED issued
    BY <2>1, <2>3, ServeIsServed
  <2> QED  BY <2>2, <2>3 DEF IssueSession
<1>2. UNCHANGED <<page, crossed, faults, expired, revoked_sessions, signedOut, outlived, restarted>>
  BY DEF IssueSession
<1>3. CallsInv'
  BY <1>1, <1>2, ServedKeeps
<1>4. GatewayTyped'
  BY <1>1, <1>2 DEF SessionInv, GatewayTyped
<1>5. CallsTyped'
  BY <1>1, <1>2 DEF SessionInv, CallsTyped, CallServed, page
<1> QED  BY <1>2, <1>3, <1>4, <1>5 DEF SessionInv, SignedOutIsRefused, RevokedAreKept

LEMMA CheckKeeps ==
  ASSUME SessionInv, NEW s \in Slots, CheckToken(s)
  PROVE  SessionInv'
<1>1. request[s].token \in Tokens \cup {NoToken}
  BY DEF SessionInv, CallsTyped, CallRecords
<1>2. CallServed(s)
  <2>1. Serve1(s, IF Accepted(request[s].token) THEN "accepted" ELSE "refused", request[s].token)
    BY DEF CheckToken
  <2>2. (IF Accepted(request[s].token) THEN "accepted" ELSE "refused") \in {"accepted", "refused"}
    OBVIOUS
  <2> QED  BY <1>1, <2>1, <2>2, ServeIsServed
<1>3. UNCHANGED <<page, crossed, faults, issued, expired, revoked_sessions, signedOut, restarted>>
  BY DEF CheckToken
<1>4. CallsInv'
  BY <1>2, <1>3, ServedKeeps
<1>5. outlived' = (outlived \/ (Accepted(request[s].token) /\ request[s].token \in signedOut))
  BY DEF CheckToken
<1>6. SignedOutIsRefused'
  BY <1>3, <1>5 DEF SessionInv, SignedOutIsRefused, RevokedAreKept, Accepted
<1>7. GatewayTyped'
  BY <1>3, <1>5 DEF SessionInv, GatewayTyped
<1>8. CallsTyped'
  BY <1>2, <1>3 DEF SessionInv, CallsTyped, CallServed, page
<1> QED  BY <1>3, <1>4, <1>6, <1>7, <1>8 DEF SessionInv, RevokedAreKept

LEMMA RevokeKeeps ==
  ASSUME SessionInv, NEW s \in Slots, RevokeSession(s)
  PROVE  SessionInv'
<1>1. request[s].token \in Tokens \cup {NoToken} /\ GatewayTyped
  BY DEF SessionInv, CallsTyped, CallRecords
<1>2. UNCHANGED <<page, crossed, faults, issued, expired, outlived, restarted>>
  BY DEF RevokeSession
<1>3. /\ CallServed(s)
      /\ revoked_sessions' \subseteq signedOut' /\ signedOut' \subseteq issued
      /\ restarted \/ revoked_sessions' = signedOut'
  <2>1. CASE /\ Accepted(request[s].token) /\ Serve1(s, "accepted", request[s].token)
             /\ revoked_sessions' = revoked_sessions \cup {request[s].token}
             /\ signedOut' = signedOut \cup {request[s].token}
    <3>1. CallServed(s)
      BY <1>1, <2>1, ServeIsServed
    <3> QED  BY <1>1, <2>1, <3>1 DEF SessionInv, RevokedAreKept, GatewayTyped, Accepted
  <2>2. CASE Serve1(s, "refused", request[s].token) /\ UNCHANGED <<revoked_sessions, signedOut>>
    <3>1. CallServed(s)
      BY <1>1, <2>2, ServeIsServed
    <3> QED  BY <1>1, <2>2, <3>1 DEF SessionInv, RevokedAreKept, GatewayTyped
  <2> QED  BY <2>1, <2>2 DEF RevokeSession
<1>4. CallsInv'
  BY <1>2, <1>3, ServedKeeps
<1>5. GatewayTyped'
  BY <1>1, <1>2, <1>3 DEF GatewayTyped
<1>6. CallsTyped'
  BY <1>2, <1>3 DEF SessionInv, CallsTyped, CallServed, page
<1> QED  BY <1>2, <1>3, <1>4, <1>5, <1>6 DEF SessionInv, SignedOutIsRefused, RevokedAreKept

LEMMA CallFailureKeeps ==
  ASSUME SessionInv, NEW s \in Slots, CallFails(s)
  PROVE  SessionInv'
<1>1. CallsTyped
  BY DEF SessionInv
<1>2. CallServed(s)
  <2>1. [request[s] EXCEPT !.state = "failed"] \in CallRecords
    BY <1>1 DEF CallsTyped, CallRecords, States1
  <2>2. PICK call \in CallRecords : call = [request[s] EXCEPT !.state = "failed"]
    BY <2>1
  <2>3. /\ call.call = request[s].call /\ call.mount = request[s].mount
        /\ call.state = "failed" /\ call.token = request[s].token
    BY <1>1, <2>2 DEF CallsTyped, CallRecords
  <2>4. request' = [request EXCEPT ![s] = call] /\ request[s].state # "free"
    BY <1>1, <2>2 DEF CallFails, CallsTyped
  <2>5. /\ request' \in [Slots -> CallRecords] /\ request'[s] = call
        /\ \A r \in Slots \ {s} : request'[r] = request[r]
    BY <1>1, <2>4, OneCallChanges
  <2> QED  BY <2>3, <2>4, <2>5 DEF CallServed
<1>3. UNCHANGED <<page, gateway, crossed>> /\ faults' \in 0 .. MaxFaults
  BY <1>1, SessionAssumption DEF CallFails, CallsTyped
<1>4. CallsInv'
  BY <1>2, <1>3, ServedKeeps
<1>5. CallsTyped'
  BY <1>1, <1>2, <1>3 DEF CallsTyped, CallServed, page
<1>6. GatewayTyped' /\ SignedOutIsRefused' /\ RevokedAreKept'
  BY <1>3 DEF SessionInv, GatewayTyped, gateway, SignedOutIsRefused, RevokedAreKept
<1> QED  BY <1>4, <1>5, <1>6 DEF SessionInv

\* A session expires, or the gateway forgets what it revoked: no call is told.
LEMMA GatewayAloneKeeps ==
  ASSUME SessionInv, GatewayRestarts \/ \E token \in Tokens : Expire(token)
  PROVE  SessionInv'
<1>1. UNCHANGED <<page, request, crossed>> /\ faults' \in 0 .. MaxFaults
  BY SessionAssumption DEF SessionInv, CallsTyped, GatewayRestarts, Expire
<1>2. CallsInv' /\ CallsTyped'
  BY <1>1 DEF page, SessionInv, CallsTyped, CallsInv, SessionShownIsStored, CheckIsUnderWay,
       CallsAreOfMounts, CheckingShowsNobody, OneCheck, Mine
<1>3. CASE GatewayRestarts
  BY <1>2, <1>3 DEF GatewayRestarts, SessionInv, GatewayTyped, SignedOutIsRefused, RevokedAreKept
<1>4. CASE \E token \in Tokens : Expire(token)
  BY <1>2, <1>4 DEF Expire, SessionInv, GatewayTyped, SignedOutIsRefused, RevokedAreKept
<1> QED  BY <1>3, <1>4

-----------------------------------------------------------------------------
(* The page's steps.                                                       *)

LEMMA SessionBegins == SessionInit => SessionInv
<1> SUFFICES ASSUME SessionInit PROVE SessionInv
  OBVIOUS
<1>1. \A s \in Slots : request[s] = Free1
  BY DEF SessionInit
<1>2. CallsTyped
  <2>1. 0 \in 0 .. MaxMounts /\ 0 \in 0 .. MaxFaults
    BY SessionAssumption
  <2>2. request \in [Slots -> CallRecords]
    BY FreeIsACall, Zenon DEF SessionInit
  <2> QED  BY <2>1, <2>2, Zenon DEF SessionInit, CallsTyped
<1>3. GatewayTyped /\ SignedOutIsRefused /\ RevokedAreKept
  BY DEF SessionInit, GatewayTyped, SignedOutIsRefused, RevokedAreKept
<1>4. CallsInv
  BY <1>1, FreeIsACall DEF SessionInit, CallsInv, SessionShownIsStored, CheckIsUnderWay, CallsAreOfMounts,
       CheckingShowsNobody, OneCheck
<1> QED  BY <1>2, <1>3, <1>4 DEF SessionInv

\* The page does nothing to the gateway.
LEMMA GatewayStays ==
  ASSUME SessionInv, UNCHANGED gateway, CallsTyped', CallsInv'
  PROVE  SessionInv'
BY DEF gateway, SessionInv, GatewayTyped, SignedOutIsRefused, RevokedAreKept

\* A team view that is opened has no call of its own but the check.
LEMMA OpenKeeps ==
  ASSUME SessionInv, OpenTeam
  PROVE  SessionInv'
<1>1. /\ shown' = "team" /\ mount' = mount + 1 /\ mount' \in 0 .. MaxMounts /\ mount \in Nat
      /\ user' = NoToken /\ checking' = (stored # NoToken)
      /\ UNCHANGED <<stored, gateway, faults, crossed>>
      /\ CallsTyped /\ \A s \in Slots : request[s].mount \in Nat /\ request[s].mount <= mount
  BY SessionAssumption DEF OpenTeam, SessionInv, CallsTyped, CallsInv, CallsAreOfMounts, CallRecords
<1>2. \A s \in Slots : request[s].mount # mount' /\ request[s].mount <= mount'
  BY <1>1
<1>3. CASE stored = NoToken /\ UNCHANGED request
  <2>1. CallsTyped'
    BY <1>1, <1>3 DEF CallsTyped
  <2>2. CallsInv'
    BY <1>1, <1>2, <1>3 DEF SessionInv, CallsInv, SessionShownIsStored, CheckIsUnderWay, CallsAreOfMounts,
         CheckingShowsNobody, OneCheck, Mine
  <2> QED  BY <1>1, <2>1, <2>2, GatewayStays
<1>4. ASSUME NEW s \in Slots, stored # NoToken, Call(s, "check", stored) PROVE SessionInv'
  <2>1. /\ request' \in [Slots -> CallRecords]
        /\ request'[s].call = "check" /\ request'[s].token = stored
        /\ request'[s].mount = mount' /\ request'[s].state = "sent"
        /\ \A r \in Slots \ {s} : request'[r] = request[r]
    <3>1. "check" \in Calls1 /\ stored \in Tokens \cup {NoToken}
      BY <1>1 DEF CallsTyped, Calls1
    <3> QED  BY <1>1, <1>4, <3>1, CallIsSent
  <2>2. CallsTyped'
    BY <1>1, <2>1 DEF CallsTyped
  <2>3. \A r \in Slots : Mine(r)' => r = s
    BY <1>2, <2>1 DEF Mine
  <2>4. CallsAreOfMounts'
    BY <1>1, <1>2, <2>1 DEF SessionInv, CallsInv, CallsAreOfMounts
  <2>5. SessionShownIsStored' /\ CheckIsUnderWay' /\ CheckingShowsNobody'
    BY <1>1, <2>1 DEF SessionShownIsStored, CheckIsUnderWay, CheckingShowsNobody
  <2>6. OneCheck'
    BY <1>1, <1>4, <2>1, <2>3 DEF OneCheck
  <2> QED  BY <1>1, <2>2, <2>4, <2>5, <2>6, GatewayStays DEF CallsInv
<1> QED  BY <1>3, <1>4 DEF OpenTeam

LEMMA LeaveKeeps ==
  ASSUME SessionInv, LeaveTeam
  PROVE  SessionInv'
<1>1. CallsTyped' /\ UNCHANGED gateway
  BY DEF LeaveTeam, SessionInv, CallsTyped
<1>2. CallsInv'
  BY DEF LeaveTeam, SessionInv, CallsInv, SessionShownIsStored, CheckIsUnderWay, CallsAreOfMounts,
       CheckingShowsNobody, OneCheck
<1> QED  BY <1>1, <1>2, GatewayStays

LEMMA ReloadKeeps ==
  ASSUME SessionInv, Reload
  PROVE  SessionInv'
<1>1. /\ shown' = "lab" /\ user' = NoToken /\ checking' = FALSE
      /\ UNCHANGED <<stored, mount, gateway, faults, crossed>> /\ CallsTyped
      /\ 0 \in 0 .. MaxMounts /\ 0 <= mount
  BY SessionAssumption DEF Reload, SessionInv, CallsTyped
<1>2. ASSUME NEW s \in Slots
      PROVE  /\ request'[s] \in CallRecords /\ request'[s].mount = 0
             /\ request'[s].state = "free" => request'[s].call = "none"
  <2>1. request'[s] = IF request[s].call = "logout" /\ request[s].state = "sent"
                      THEN [request[s] EXCEPT !.mount = 0] ELSE Free1
    BY DEF Reload
  <2>2. /\ [request[s] EXCEPT !.mount = 0] \in CallRecords
        /\ [request[s] EXCEPT !.mount = 0].mount = 0
        /\ [request[s] EXCEPT !.mount = 0].state = request[s].state
    BY <1>1 DEF CallsTyped, CallRecords
  <2>3. CASE request[s].call = "logout" /\ request[s].state = "sent"
    BY <2>1, <2>2, <2>3
  <2>4. CASE ~(request[s].call = "logout" /\ request[s].state = "sent")
    BY <2>1, <2>4, FreeIsACall, Zenon
  <2> QED  BY <2>3, <2>4
<1>3. request' \in [Slots -> CallRecords]
  <2>1. DOMAIN request' = Slots /\ request' = [s \in Slots |-> request'[s]]
    BY DEF Reload
  <2> QED  BY <1>2, <2>1
<1>4. CallsTyped'
  BY <1>1, <1>3 DEF CallsTyped
<1>5. CallsInv'
  BY <1>1, <1>2 DEF CallsInv, SessionShownIsStored, CheckIsUnderWay, CallsAreOfMounts, CheckingShowsNobody, OneCheck
<1> QED  BY <1>1, <1>4, <1>5, GatewayStays

\* A call is sent from a view that waits for no check: a sign-in or a sign-out, or one
\* from the other view.
LEMMA SendKeeps ==
  ASSUME SessionInv, NEW s \in Slots, NEW name \in {"login", "logout", "scenario"},
         NEW token \in Tokens \cup {NoToken}, UNCHANGED page, Call(s, name, token),
         shown = "lab" \/ ~checking, UNCHANGED <<gateway, faults, crossed>>
  PROVE  SessionInv'
<1>1. UNCHANGED <<stored, user, checking, shown, mount, crossed, faults>> /\ CallsTyped
  BY DEF page, SessionInv
<1>2. /\ request' \in [Slots -> CallRecords]
      /\ request'[s].call = name /\ request'[s].state = "sent" /\ request'[s].mount = mount
      /\ \A r \in Slots \ {s} : request'[r] = request[r]
      /\ request[s].state = "free"
  <2>1. name \in Calls1 /\ mount' \in 0 .. MaxMounts /\ mount' = mount
    BY <1>1 DEF CallsTyped, Calls1
  <2> QED  BY <1>1, <2>1, CallIsSent
<1>3. ~checking /\ mount <= mount
  BY <1>1 DEF SessionInv, CallsInv, CheckingShowsNobody, CallsTyped
<1>4. CallsTyped'
  BY <1>1, <1>2 DEF CallsTyped
<1>5. SessionShownIsStored' /\ CheckIsUnderWay' /\ CheckingShowsNobody'
  BY <1>1, <1>3 DEF SessionInv, CallsInv, SessionShownIsStored, CheckIsUnderWay, CheckingShowsNobody
<1>6. CallsAreOfMounts'
  BY <1>1, <1>2, <1>3 DEF SessionInv, CallsInv, CallsAreOfMounts
<1>7. OneCheck'
  <2>1. shown = "team" => \A r \in Slots : ~(request[r].call = "check" /\ Mine(r))
    BY <1>3 DEF SessionInv, CallsInv, OneCheck
  <2>2. shown = "team" => \A r \in Slots : ~(request'[r].call = "check" /\ request'[r].mount = mount)
    BY <1>2, <2>1 DEF Mine
  <2> QED  BY <1>1, <2>2 DEF OneCheck, Mine
<1> QED  BY <1>4, <1>5, <1>6, <1>7, GatewayStays DEF CallsInv

\* Signed out at once where no token is stored: nobody is shown.
LEMMA SignOutKeeps ==
  ASSUME SessionInv, user' = NoToken, UNCHANGED <<stored, checking, shown, mount, request, gateway, faults, crossed>>
  PROVE  SessionInv'
<1>1. CallsTyped'
  BY DEF SessionInv, CallsTyped
<1>2. CallsInv'
  BY DEF SessionInv, CallsInv, SessionShownIsStored, CheckIsUnderWay, CallsAreOfMounts, CheckingShowsNobody,
       OneCheck, Mine
<1> QED  BY <1>1, <1>2, GatewayStays

\* What an answer, or a failure, may do: the check of this mount is over; the others'
\* tell, or set, only what they may.
LEMMA SettleKeeps ==
  ASSUME SessionInv, NEW s \in Slots, CallSettles(s)
  PROVE  SessionInv'
<1> DEFINE answer == request[s]
           told == answer.mount = mount /\ shown = "team"
<1>1. /\ answer.state # "free" /\ request' = [request EXCEPT ![s] = Free1]
      /\ checking' = (checking /\ ~(answer.call = "check" /\ answer.mount = mount))
      /\ UNCHANGED <<shown, mount, gateway, faults>>
      /\ CallsTyped /\ answer \in CallRecords
  BY DEF CallSettles, EndChecking, SessionInv, CallsTyped
<1>2. /\ request' \in [Slots -> CallRecords] /\ request'[s] = Free1
      /\ \A r \in Slots \ {s} : request'[r] = request[r]
  BY <1>1, FreeIsACall, OneCallChanges
<1>3. /\ stored \in Tokens \cup {NoToken} /\ user \in Tokens \cup {NoToken}
      /\ answer.token \in Tokens \cup {NoToken} /\ mount \in Nat
      /\ crossed \in BOOLEAN /\ checking \in BOOLEAN
      /\ answer.call \in Calls1
  BY <1>1, SessionAssumption DEF CallsTyped, CallRecords
\* The four things that may happen.
<1>4. \/ /\ answer.call = "check" /\ told
         /\ user' = answer.token /\ UNCHANGED <<stored, crossed>>
      \/ /\ answer.call \in {"check", "login", "logout"} /\ told
         /\ \E token \in Tokens \cup {NoToken} : stored' = token /\ user' = token
         /\ UNCHANGED crossed
      \/ stored' \in Tokens \cup {NoToken} /\ UNCHANGED user /\ crossed' = TRUE /\ ~told
      \/ /\ UNCHANGED <<stored, user, crossed>>
         /\ ~(answer.call = "check" /\ told)
  <2>1. \A token \in Tokens \cup {NoToken} : SetSession(s, token) =>
          \/ told /\ stored' = token /\ user' = token /\ UNCHANGED crossed
          \/ stored' \in Tokens \cup {NoToken} /\ UNCHANGED user /\ crossed' = TRUE /\ ~told
    BY DEF SetSession
  <2>2. CASE /\ answer.call = "check" /\ answer.state = "accepted"
             /\ user' = IF answer.mount = mount /\ shown = "team" THEN answer.token ELSE user
             /\ UNCHANGED <<stored, crossed>>
    BY <2>2
  <2>3. CASE answer.call = "login" /\ answer.state = "accepted" /\ SetSession(s, answer.token)
    <3> HIDE DEF told
    <3> QED  BY <1>3, <2>1, <2>3
  <2>4. CASE /\ answer.call = "logout" \/ (answer.call = "check" /\ answer.state # "accepted")
             /\ ClearSession(s)
    <3>1. SetSession(s, NoToken)
      BY <2>4 DEF ClearSession
    <3> HIDE DEF told
    <3> QED  BY <2>1, <2>4, <3>1
  <2>5. CASE /\ answer.call = "scenario" \/ Unawaited(s) \/ (answer.call = "login" /\ answer.state # "accepted")
             /\ UNCHANGED <<stored, user, crossed>>
    BY <2>5 DEF Unawaited
  <2> QED  BY <2>2, <2>3, <2>4, <2>5 DEF CallSettles
<1> HIDE DEF told, answer
<1>5. CallsTyped'
  BY <1>1, <1>2, <1>3, <1>4 DEF CallsTyped
<1>6. CallsAreOfMounts'
  BY <1>1, <1>2, <1>3, FreeIsACall DEF SessionInv, CallsInv, CallsAreOfMounts
<1>7. CheckIsUnderWay'
  <2>1. SUFFICES ASSUME checking' PROVE CheckIsUnderWay'
    BY DEF CheckIsUnderWay
  <2>2. checking /\ ~(answer.call = "check" /\ answer.mount = mount)
    BY <1>1, <1>3, <2>1
  <2>3. PICK r \in Slots : request[r].call = "check" /\ request[r].mount = mount
    BY <2>2 DEF SessionInv, CallsInv, CheckIsUnderWay
  <2>4. r # s
    BY <2>2, <2>3 DEF answer
  <2> QED  BY <1>1, <1>2, <2>3, <2>4 DEF CheckIsUnderWay
\* While another check of the mount is under way nobody signs in or out in it.
<1>8. checking' => ~(told /\ answer.call \in {"check", "login", "logout"})
  <2>1. SUFFICES ASSUME checking', told, answer.call \in {"check", "login", "logout"} PROVE FALSE
    OBVIOUS
  <2>2. checking /\ answer.call # "check" /\ Mine(s) /\ shown = "team"
    BY <1>1, <1>3, <2>1 DEF told, answer, Mine
  <2>3. PICK r \in Slots : request[r].call = "check" /\ Mine(r)
    BY <2>2 DEF SessionInv, CallsInv, CheckIsUnderWay, Mine
  <2>4. s = r \/ request[s].call \notin {"check", "login", "logout"}
    BY <2>2, <2>3 DEF SessionInv, CallsInv, OneCheck
  <2> QED  BY <2>1, <2>2, <2>3, <2>4 DEF answer
<1>9. CheckingShowsNobody'
  BY <1>1, <1>3, <1>4, <1>8 DEF SessionInv, CallsInv, CheckingShowsNobody
<1>10. SessionShownIsStored'
  <2>1. CASE answer.call = "check" /\ told /\ user' = answer.token /\ UNCHANGED <<stored, crossed>>
    <3>1. crossed \/ stored = answer.token
      BY <2>1 DEF SessionInv, CallsInv, OneCheck, Mine, told, answer
    <3> QED  BY <1>3, <2>1, <3>1 DEF SessionShownIsStored
  <2> QED  BY <1>3, <1>4, <2>1 DEF SessionInv, CallsInv, SessionShownIsStored
<1>11. OneCheck'
  <2>1. SUFFICES ASSUME shown = "team", NEW r \in Slots, request'[r].call = "check", request'[r].mount = mount
                 PROVE  /\ checking' /\ (crossed' \/ stored' = request'[r].token)
                        /\ \A q \in Slots : request'[q].mount = mount =>
                             q = r \/ request'[q].call \notin {"check", "login", "logout"}
    BY <1>1 DEF OneCheck, Mine
  <2>2. r # s /\ request'[r] = request[r]
    BY <1>2, <2>1, FreeIsACall
  <2>3. /\ checking /\ (crossed \/ stored = request[r].token)
        /\ \A q \in Slots : request[q].mount = mount =>
             q = r \/ request[q].call \notin {"check", "login", "logout"}
    BY <2>1, <2>2 DEF SessionInv, CallsInv, OneCheck, Mine
  <2>4. ~(told /\ answer.call \in {"check", "login", "logout"})
    BY <2>2, <2>3 DEF told, answer
  <2>5. checking' /\ (crossed' \/ stored' = request'[r].token)
    BY <1>1, <1>3, <1>4, <2>1, <2>2, <2>3, <2>4 DEF told
  <2>6. \A q \in Slots : request'[q].mount = mount =>
          q = r \/ request'[q].call \notin {"check", "login", "logout"}
    BY <1>2, <2>3, FreeIsACall
  <2> QED  BY <2>5, <2>6
<1>12. CallsInv'
  BY <1>6, <1>7, <1>9, <1>10, <1>11 DEF CallsInv
<1> QED  BY <1>1, <1>5, <1>12, GatewayStays

LEMMA SessionStepKeeps == SessionInv /\ [SessionNext]_sessionVars => SessionInv'
<1> SUFFICES ASSUME SessionInv, [SessionNext]_sessionVars PROVE SessionInv'
  OBVIOUS
<1>1. CASE OpenTeam \/ LeaveTeam \/ Reload
  BY <1>1, OpenKeeps, LeaveKeeps, ReloadKeeps
<1>2. stored \in Tokens \cup {NoToken} /\ NoToken \in Tokens \cup {NoToken}
  BY DEF SessionInv, CallsTyped
<1>3. ASSUME NEW s \in Slots, Login(s) PROVE SessionInv'
  BY <1>2, <1>3, SendKeeps DEF Login
<1>4. ASSUME NEW s \in Slots, Logout(s) PROVE SessionInv'
  <2>1. CASE stored # NoToken /\ UNCHANGED user /\ Call(s, "logout", stored)
    <3>1. UNCHANGED page /\ ~checking /\ UNCHANGED <<gateway, faults, crossed>>
      BY <1>4, <2>1 DEF Logout, page, SessionInv, CallsInv, CheckingShowsNobody
    <3> QED  BY <1>2, <2>1, <3>1, SendKeeps
  <2>2. CASE stored = NoToken /\ user' = NoToken /\ UNCHANGED request
    BY <1>4, <2>2, SignOutKeeps DEF Logout
  <2> QED  BY <1>4, <2>1, <2>2 DEF Logout
<1>5. ASSUME NEW s \in Slots, RunScenario(s) PROVE SessionInv'
  BY <1>2, <1>5, SendKeeps DEF RunScenario
<1>6. ASSUME NEW s \in Slots, CallSettles(s) \/ IssueSession(s) \/ CheckToken(s) \/ RevokeSession(s) \/ CallFails(s)
      PROVE  SessionInv'
  BY <1>6, SettleKeeps, IssueKeeps, CheckKeeps, RevokeKeeps, CallFailureKeeps
<1>7. CASE GatewayRestarts \/ \E token \in Tokens : Expire(token)
  BY <1>7, GatewayAloneKeeps
<1>8. CASE UNCHANGED sessionVars
  <2>1. UNCHANGED <<stored, user, checking, shown, mount, request, gateway, faults, crossed>>
    BY <1>8 DEF sessionVars, page
  <2>2. CallsTyped'
    BY <2>1 DEF SessionInv, CallsTyped
  <2>3. CallsInv'
    BY <2>1 DEF SessionInv, CallsInv, SessionShownIsStored, CheckIsUnderWay, CallsAreOfMounts, CheckingShowsNobody,
         OneCheck, Mine
  <2> QED  BY <2>1, <2>2, <2>3, GatewayStays
<1> QED  BY <1>1, <1>3, <1>4, <1>5, <1>6, <1>7, <1>8 DEF SessionNext

-----------------------------------------------------------------------------
(* The components that mirror a state kept elsewhere.                      *)

LEMMA OddAlternates ==
  ASSUME NEW n \in Nat
  PROVE  Odd(n + 1) <=> ~Odd(n)
BY DEF Odd

SidebarInv == SidebarTypeOK /\ TogglesCount

LEMMA SidebarBegins == SidebarInit => SidebarInv
<1> SUFFICES ASSUME SidebarInit PROVE SidebarInv
  OBVIOUS
<1>1. toggles \in [phone : 0 .. MaxToggles, wide : 0 .. MaxToggles] /\ resizes \in 0 .. MaxResizes
  BY SidebarAssumption DEF SidebarInit
<1>2. SidebarTypeOK
  BY <1>1 DEF SidebarInit, SidebarTypeOK
<1>3. toggles.phone = 0 /\ toggles.wide = 0 /\ Odd(0) = FALSE
  BY DEF SidebarInit, Odd
<1>4. open = (defaultOpen # Odd(toggles.wide)) /\ openMobile = Odd(toggles.phone)
  BY <1>3, Zenon DEF SidebarInit
<1> QED  BY <1>2, <1>3, <1>4 DEF SidebarInit, SidebarInv, TogglesCount

\* A toggle counts on phones.
LEMMA PhoneToggleCounts ==
  ASSUME SidebarInv, toggles.phone < MaxToggles, openMobile' = ~openMobile,
         toggles' = [toggles EXCEPT !.phone = @ + 1],
         UNCHANGED <<ownership, defaultOpen, collapsible, narrow, isMobile, open, rendered, cookie, resizes, batched>>
  PROVE  SidebarInv'
<1>1. /\ toggles \in [phone : 0 .. MaxToggles, wide : 0 .. MaxToggles]
      /\ toggles.phone \in Nat /\ openMobile \in BOOLEAN
  BY SidebarAssumption DEF SidebarInv, SidebarTypeOK
<1>2. /\ toggles' \in [phone : 0 .. MaxToggles, wide : 0 .. MaxToggles]
      /\ toggles'.phone = toggles.phone + 1 /\ toggles'.wide = toggles.wide
  BY <1>1, SidebarAssumption
<1>3. SidebarTypeOK'
  BY <1>2 DEF SidebarInv, SidebarTypeOK
<1>4. Odd(toggles'.phone) <=> ~Odd(toggles.phone)
  BY <1>1, <1>2, OddAlternates
<1>5. openMobile' = Odd(toggles'.phone)
  <2>1. openMobile = Odd(toggles.phone) /\ Odd(toggles'.phone) \in BOOLEAN /\ Odd(toggles.phone) \in BOOLEAN
    BY DEF SidebarInv, TogglesCount, Odd
  <2> QED  BY <1>4, <2>1
<1> QED  BY <1>2, <1>3, <1>5 DEF SidebarInv, TogglesCount

\* A toggle counts on wide screens: the callback and the state see the same `open`
\* unless another toggle came since the last render.
LEMMA WideToggleCounts ==
  ASSUME SidebarInv, toggles.wide < MaxToggles, ToggleDesktop,
         toggles' = [toggles EXCEPT !.wide = @ + 1],
         batched' = (batched \/ open # rendered),
         UNCHANGED <<ownership, defaultOpen, collapsible, narrow, isMobile, rendered, resizes>>
  PROVE  SidebarInv'
<1>1. /\ toggles \in [phone : 0 .. MaxToggles, wide : 0 .. MaxToggles]
      /\ toggles.wide \in Nat
      /\ open \in BOOLEAN /\ rendered \in BOOLEAN /\ batched \in BOOLEAN /\ defaultOpen \in BOOLEAN
  BY SidebarAssumption DEF SidebarInv, SidebarTypeOK
<1>2. /\ toggles' \in [phone : 0 .. MaxToggles, wide : 0 .. MaxToggles]
      /\ toggles'.wide = toggles.wide + 1 /\ toggles'.phone = toggles.phone
      /\ toggles'.wide # 0
  BY <1>1, SidebarAssumption
<1>3. /\ cookie' = IF ~rendered THEN "true" ELSE "false"
      /\ open' \in BOOLEAN /\ openMobile' = openMobile
      /\ ownership = "own" => open' = ~rendered
  BY <1>1 DEF ToggleDesktop, SetOpen
<1>4. SidebarTypeOK'
  BY <1>1, <1>2, <1>3 DEF SidebarInv, SidebarTypeOK
<1>5. Odd(toggles'.wide) <=> ~Odd(toggles.wide)
  BY <1>1, <1>2, OddAlternates
<1>6. ASSUME ownership = "own", ~batched' PROVE open' = (defaultOpen # Odd(toggles'.wide))
  <2>1. open = (defaultOpen # Odd(toggles.wide)) /\ open' = ~open
    BY <1>1, <1>3, <1>6 DEF SidebarInv, TogglesCount
  <2>2. Odd(toggles'.wide) \in BOOLEAN /\ Odd(toggles.wide) \in BOOLEAN
    BY DEF Odd
  <2> QED  BY <1>1, <1>5, <2>1, <2>2
<1>7. openMobile' = Odd(toggles'.phone) /\ cookie' # "none"
  BY <1>2, <1>3 DEF SidebarInv, TogglesCount
<1>8. ownership = "own" => cookie' = IF open' THEN "true" ELSE "false"
  BY <1>1, <1>3
<1> QED  BY <1>2, <1>4, <1>6, <1>7, <1>8 DEF SidebarInv, TogglesCount

LEMMA SidebarStepKeeps == SidebarInv /\ [SidebarNext]_sidebarVars => SidebarInv'
<1> SUFFICES ASSUME SidebarInv, [SidebarNext]_sidebarVars PROVE SidebarInv'
  OBVIOUS
<1>1. ASSUME ToggleSidebar PROVE SidebarInv'
  <2>1. toggles.phone \in Nat /\ toggles.wide \in Nat
    BY SidebarAssumption DEF SidebarInv, SidebarTypeOK
  <2>2. toggles.phone < MaxToggles /\ toggles.wide < MaxToggles
    BY <1>1, <2>1, SidebarAssumption DEF ToggleSidebar
  <2>3. CASE ToggleMobile /\ toggles' = [toggles EXCEPT !.phone = @ + 1] /\ UNCHANGED batched
    BY <1>1, <2>2, <2>3, PhoneToggleCounts DEF ToggleSidebar, ToggleMobile
  <2>4. CASE /\ ToggleDesktop /\ toggles' = [toggles EXCEPT !.wide = @ + 1]
             /\ batched' = (batched \/ open # rendered)
    BY <1>1, <2>2, <2>4, WideToggleCounts DEF ToggleSidebar
  <2> QED  BY <1>1, <2>3, <2>4 DEF ToggleSidebar
<1>2. CASE SheetChanges
  BY <1>2, PhoneToggleCounts DEF SheetChanges
<1>3. CASE UseIsMobile \/ Render \/ UNCHANGED sidebarVars
  BY <1>3 DEF UseIsMobile, Render, sidebarVars, SidebarInv, SidebarTypeOK, TogglesCount
<1>4. CASE Resize
  <2>1. resizes' \in 0 .. MaxResizes
    BY <1>4, SidebarAssumption DEF Resize, SidebarInv, SidebarTypeOK
  <2> QED  BY <1>4, <2>1 DEF Resize, SidebarInv, SidebarTypeOK, TogglesCount
<1> QED  BY <1>1, <1>2, <1>3, <1>4 DEF SidebarNext, Trigger, Rail, Shortcut

\* What is shown of a sidebar depends on its state alone.
LEMMA SidebarNamesIcons == SidebarTypeOK => IconsAreNamed
<1> SUFFICES ASSUME SidebarTypeOK PROVE IconsAreNamed
  OBVIOUS
<1>1. Pieces \ (GroupHides \cup ItemHides \cup SubMenuHides) = {"menu-button"}
  BY DEF Pieces, GroupHides, ItemHides, SubMenuHides
<1>2. /\ Presentation = "icons" => ~rendered /\ ~isMobile
      /\ rendered \/ isMobile => Presentation # "icons"
      /\ Presentation \in {"whole", "sheet"} => rendered \/ isMobile \/ collapsible = "none"
  BY DEF Presentation
<1>3. /\ Presentation = "icons" => ShownPieces = {"menu-button"}
      /\ Presentation # "icons" => ShownPieces \in {Pieces, {}}
  BY <1>1 DEF ShownPieces
<1> QED  BY <1>2, <1>3 DEF IconsAreNamed, TooltipShows

-----------------------------------------------------------------------------

\* The component listens to the engine it has for both of its events.
EngineIsHeard == api # NoEngine => embla[api].heard = {"reInit", "select"}

CarouselInv == CarouselTypeOK /\ ButtonsTellScroll /\ EngineIsHeard

EngineStates == [snaps : 0 .. MaxSnaps, selected : 0 .. MaxSnaps - 1, heard : SUBSET {"reInit", "select"}]

LEMMA CarouselBegins == CarouselInit => CarouselInv
<1> SUFFICES ASSUME CarouselInit PROVE CarouselInv
  OBVIOUS
<1>1. Fresh \in EngineStates
  BY CarouselAssumption DEF Fresh, EngineStates
<1>2. embla \in [Engines -> EngineStates]
  BY <1>1 DEF CarouselInit
<1>3. CarouselTypeOK
  BY <1>2 DEF CarouselInit, CarouselTypeOK, EngineStates
<1> QED  BY <1>3 DEF CarouselInit, CarouselInv, ButtonsTellScroll, EngineIsHeard

\* An engine of which both events are heard tells what it has become.
LEMMA EmitKeeps ==
  ASSUME CarouselInv, api # NoEngine, NEW engine \in EngineStates, NEW event \in {"reInit", "select"},
         engine.heard = embla[api].heard, Emit(engine, event)
  PROVE  CarouselInv'
<1>1. api \in Engines /\ embla \in [Engines -> EngineStates] /\ embla[api].heard = {"reInit", "select"}
  BY DEF CarouselInv, CarouselTypeOK, EngineIsHeard, EngineStates
<1>2. /\ embla' \in [Engines -> EngineStates] /\ embla'[api] = engine
      /\ UNCHANGED <<api, given>>
      /\ canScrollPrev' = PrevOf(engine) /\ canScrollNext' = NextOf(engine)
  BY <1>1 DEF Emit, OnSelect
<1>3. canScrollPrev' \in BOOLEAN /\ canScrollNext' \in BOOLEAN
  BY <1>2 DEF PrevOf, NextOf
<1>4. CarouselTypeOK'
  BY <1>2, <1>3 DEF CarouselInv, CarouselTypeOK, EngineStates
<1>5. embla'[api'] = engine /\ given' = given /\ api' = api
  BY <1>2
<1> QED  BY <1>1, <1>2, <1>4, <1>5 DEF CarouselInv, ButtonsTellScroll, EngineIsHeard

LEMMA ScrollKeeps ==
  ASSUME CarouselInv, NEW step \in {-1, 1}, Scroll1(step)
  PROVE  CarouselInv'
<1>1. PICK engine : engine = [embla[api] EXCEPT !.selected = @ + step]
  OBVIOUS
<1>2. /\ api # NoEngine /\ embla[api].selected + step \in 0 .. embla[api].snaps - 1
      /\ Emit(engine, "select")
  BY <1>1 DEF Scroll1
<1>3. embla[api] \in EngineStates
  BY <1>2 DEF CarouselInv, CarouselTypeOK, EngineStates
<1>4. embla[api].selected + step \in 0 .. MaxSnaps - 1
  BY <1>2, <1>3, CarouselAssumption DEF EngineStates
<1>5. engine \in EngineStates /\ engine.heard = embla[api].heard
  BY <1>1, <1>3, <1>4 DEF EngineStates
<1> QED  BY <1>2, <1>5, EmitKeeps

LEMMA ReInitKeeps ==
  ASSUME CarouselInv, ReInit
  PROVE  CarouselInv'
<1>1. api # NoEngine /\ embla[api] \in EngineStates
  BY DEF ReInit, CarouselInv, CarouselTypeOK, EngineStates
<1>2. PICK n \in 1 .. MaxSnaps :
        Emit([embla[api] EXCEPT !.snaps = n, !.selected = IF @ < n THEN @ ELSE n - 1], "reInit")
  BY DEF ReInit
<1>3. PICK engine : engine = [embla[api] EXCEPT !.snaps = n, !.selected = IF @ < n THEN @ ELSE n - 1]
  OBVIOUS
<1>4. (IF embla[api].selected < n THEN embla[api].selected ELSE n - 1) \in 0 .. MaxSnaps - 1
  BY <1>1, CarouselAssumption DEF EngineStates
<1>5. engine \in EngineStates /\ engine.heard = embla[api].heard
  <2>1. n \in 0 .. MaxSnaps
    BY CarouselAssumption
  <2> QED  BY <1>1, <1>3, <1>4, <2>1 DEF EngineStates
<1>6. Emit(engine, "reInit")
  BY <1>2, <1>3, Zenon
<1> QED  BY <1>1, <1>5, <1>6, EmitKeeps

LEMMA CarouselStepKeeps == CarouselInv /\ [CarouselNext]_carouselVars => CarouselInv'
<1> SUFFICES ASSUME CarouselInv, [CarouselNext]_carouselVars PROVE CarouselInv'
  OBVIOUS
<1>1. ASSUME NEW e \in Engines, EngineStarts(e) PROVE CarouselInv'
  <2>1. PICK n \in 1 .. MaxSnaps : Subscribe(e, [Fresh EXCEPT !.snaps = n])
    BY <1>1 DEF EngineStarts
  <2>2. PICK engine : engine = [[Fresh EXCEPT !.snaps = n] EXCEPT !.heard = {"reInit", "select"}]
    OBVIOUS
  <2>3. /\ engine \in EngineStates /\ engine.heard = {"reInit", "select"}
        /\ engine.snaps = n /\ engine.selected = 0
    <3>1. n \in 0 .. MaxSnaps /\ 0 \in 0 .. MaxSnaps - 1
      BY CarouselAssumption
    <3> QED  BY <2>2, <3>1 DEF Fresh, EngineStates
  <2>4. [Fresh EXCEPT !.snaps = n].snaps = n /\ [Fresh EXCEPT !.snaps = n].selected = 0
    BY DEF Fresh
  <2>5. /\ embla' = [embla EXCEPT ![e] = engine] /\ api' = e /\ given' = e
        /\ canScrollPrev' = PrevOf(engine) /\ canScrollNext' = NextOf(engine)
    BY <1>1, <2>1, <2>2, <2>3, <2>4 DEF EngineStarts, Subscribe, OnSelect, PrevOf, NextOf
  <2>6. embla' \in [Engines -> EngineStates] /\ embla'[api'] = engine /\ given' = api' /\ api' \in Engines
    BY <2>3, <2>5 DEF CarouselInv, CarouselTypeOK, EngineStates
  <2>7. canScrollPrev' \in BOOLEAN /\ canScrollNext' \in BOOLEAN
    BY <2>5 DEF PrevOf, NextOf
  <2>8. CarouselTypeOK'
    BY <2>6, <2>7 DEF CarouselTypeOK, EngineStates
  <2> QED  BY <2>3, <2>5, <2>6, <2>8 DEF CarouselInv, ButtonsTellScroll, EngineIsHeard
<1>2. CASE EngineStops
  <2>1. embla' \in [Engines -> EngineStates] /\ api' = NoEngine
    BY <1>2 DEF EngineStops, CarouselInv, CarouselTypeOK, EngineStates
  <2>2. CarouselTypeOK'
    BY <1>2, <2>1 DEF EngineStops, CarouselInv, CarouselTypeOK, EngineStates
  <2> QED  BY <2>1, <2>2 DEF CarouselInv, ButtonsTellScroll, EngineIsHeard
<1>3. CASE ReInit
  BY <1>3, ReInitKeeps
<1>4. CASE ArrowKey \/ CarouselPrevious \/ CarouselNextButton
  BY <1>4, ScrollKeeps DEF ArrowKey, CarouselPrevious, CarouselNextButton
<1>5. CASE UNCHANGED carouselVars
  BY <1>5 DEF carouselVars, CarouselInv, CarouselTypeOK, ButtonsTellScroll, EngineIsHeard
<1> QED  BY <1>1, <1>2, <1>3, <1>4, <1>5 DEF CarouselNext

-----------------------------------------------------------------------------

\* Both hold behind the message of the boundary, too.
ThemeFollows ==
  ~themeDue => darkClass = (theme = "dark") /\ FirstTheme = IF switchable THEN theme ELSE "dark"

DialogFollows ==
  /\ ~effectDue => Shown = (openProp /\ (controlled \/ ~dismissed))
  /\ dismissed => closes > 0

ThemeTyped ==
  /\ switchable \in BOOLEAN /\ darkClass \in BOOLEAN /\ themeDue \in BOOLEAN
  /\ theme \in Themes \cup {"other"} /\ storedTheme \in Themes \cup {"none", "other"}
  /\ themeToggles \in 0 .. MaxThemeToggles

DialogTyped ==
  /\ controlled \in BOOLEAN /\ openProp \in BOOLEAN /\ internalOpen \in BOOLEAN
  /\ effectDue \in BOOLEAN /\ dismissed \in BOOLEAN /\ closes \in 0 .. MaxCloses

MapsTyped ==
  /\ mapView \in [Maps -> {"unmounted", "loading", "stalled", "ready"}]
  /\ mapScript \in [Maps -> {"none", "pending", "loaded", "failed"}]

\* The boundary has its own state, and each of the three is a part of its own.
ThemeInv == ThemeTyped /\ ThemeFollows

DialogInv == DialogTyped /\ DialogFollows

MapsInv == hasError \in BOOLEAN /\ MapsTyped /\ MapsFollowScripts

ShellInv == ThemeInv /\ DialogInv /\ MapsInv /\ reloads \in 0 .. MaxReloads

LEMMA ShellBegins == ShellInit => ShellInv
<1> SUFFICES ASSUME ShellInit PROVE ShellInv
  OBVIOUS
<1>1. {0} \subseteq (0 .. MaxThemeToggles) \cap (0 .. MaxReloads) \cap (0 .. MaxCloses)
  BY ShellAssumption
<1>2. ThemeInv
  BY <1>1 DEF ShellInit, ThemeInv, ThemeTyped, ThemeFollows, FirstTheme, Themes
<1>3. DialogInv
  BY <1>1 DEF ShellInit, DialogInv, DialogTyped, DialogFollows
<1>4. MapsInv
  BY DEF ShellInit, MapsInv, MapsTyped, MapsFollowScripts
<1> QED  BY <1>1, <1>2, <1>3, <1>4 DEF ShellInv, ShellInit

LEMMA ThemeKept == ThemeInv /\ UNCHANGED themeVars => ThemeInv'
BY DEF themeVars, ThemeInv, ThemeTyped, ThemeFollows, FirstTheme

LEMMA DialogKept == DialogInv /\ UNCHANGED dialogVars => DialogInv'
BY DEF dialogVars, DialogInv, DialogTyped, DialogFollows, Shown

LEMMA MapsKept == MapsInv /\ UNCHANGED <<hasError, mapVars>> => MapsInv'
BY DEF mapVars, MapsInv, MapsTyped, MapsFollowScripts

\* The effect gives the document and the storage the theme there is.
LEMMA ThemeKeeps == ShellInv /\ (ThemeEffect \/ ToggleTheme) => ShellInv'
<1> SUFFICES ASSUME ShellInv, ThemeEffect \/ ToggleTheme PROVE ShellInv'
  OBVIOUS
<1>1. ASSUME ThemeEffect PROVE ThemeInv'
  BY <1>1 DEF ThemeEffect, ShellInv, ThemeInv, ThemeTyped, ThemeFollows, FirstTheme, Themes
<1>2. ASSUME ToggleTheme PROVE ThemeInv'
  <2>1. themeToggles' \in 0 .. MaxThemeToggles
    BY <1>2, ShellAssumption DEF ToggleTheme, ShellInv, ThemeInv, ThemeTyped
  <2> QED  BY <1>2, <2>1 DEF ToggleTheme, ShellInv, ThemeInv, ThemeTyped, ThemeFollows, Themes
<1>3. UNCHANGED <<hasError, mapVars, dialogVars, reloads>>
  BY DEF ThemeEffect, ToggleTheme
<1> QED  BY <1>1, <1>2, <1>3, DialogKept, MapsKept DEF ShellInv

\* A script that loads or fails finds the container of its own mount, or none.
LEMMA MapsKeep ==
  ASSUME ShellInv, NEW m \in Maps, MountMap(m) \/ UnmountMap(m) \/ ScriptLoads(m) \/ ScriptFails(m)
  PROVE  ShellInv'
<1>1. MapsTyped /\ MapsFollowScripts /\ hasError \in BOOLEAN
  BY DEF ShellInv, MapsInv
<1>2. UNCHANGED <<hasError, themeVars, dialogVars, reloads>>
  BY DEF MountMap, UnmountMap, ScriptLoads, ScriptFails
<1>3. MapsTyped'
  BY <1>1 DEF MapsTyped, MountMap, UnmountMap, ScriptLoads, ScriptFails, LoadMapScript
<1>4. MapsFollowScripts'
  <2>1. \A o \in Maps \ {m} : mapView'[o] = mapView[o] /\ mapScript'[o] = mapScript[o]
    BY <1>1 DEF MapsTyped, MountMap, UnmountMap, ScriptLoads, ScriptFails, LoadMapScript
  <2>2. /\ mapView'[m] # "unmounted" => ~hasError /\ (mapView'[m] = "ready") = (mapScript'[m] = "loaded")
        /\ mapView'[m] = "stalled" => mapScript'[m] = "failed"
    <3>1. CASE MountMap(m)
      BY <1>1, <3>1 DEF MapsTyped, MountMap, LoadMapScript
    <3>2. CASE UnmountMap(m)
      BY <1>1, <3>2 DEF MapsTyped, UnmountMap
    <3>3. CASE ScriptLoads(m)
      BY <1>1, <3>3 DEF MapsTyped, MapsFollowScripts, ScriptLoads
    <3>4. CASE ScriptFails(m)
      BY <1>1, <3>4 DEF MapsTyped, MapsFollowScripts, ScriptFails
    <3> QED  BY <3>1, <3>2, <3>3, <3>4
  <2> QED  BY <1>1, <1>2, <2>1, <2>2 DEF MapsFollowScripts
<1> QED  BY <1>1, <1>2, <1>3, <1>4, ThemeKept, DialogKept DEF ShellInv, MapsInv

\* The dialog and its parent.
LEMMA DialogKeeps == ShellInv /\ (SetOpenProp \/ DialogEffect \/ HandleOpenChange) => ShellInv'
<1> SUFFICES ASSUME ShellInv, SetOpenProp \/ DialogEffect \/ HandleOpenChange PROVE ShellInv'
  OBVIOUS
<1>1. UNCHANGED <<hasError, themeVars, mapVars, reloads>> /\ DialogTyped /\ DialogFollows
  BY DEF SetOpenProp, DialogEffect, HandleOpenChange, ShellInv, DialogInv
<1>2. ASSUME SetOpenProp PROVE DialogInv'
  BY <1>1, <1>2 DEF SetOpenProp, DialogInv, DialogTyped, DialogFollows
<1>3. ASSUME DialogEffect PROVE DialogInv'
  BY <1>1, <1>3 DEF DialogEffect, DialogInv, DialogTyped, DialogFollows, Shown
<1>4. ASSUME HandleOpenChange PROVE DialogInv'
  <2>1. closes' \in 0 .. MaxCloses /\ closes' > 0
    BY <1>1, <1>4, ShellAssumption DEF HandleOpenChange, DialogTyped
  <2>2. CASE controlled
    BY <1>1, <1>4, <2>1, <2>2 DEF HandleOpenChange, DialogInv, DialogTyped, DialogFollows, Shown
  <2>3. CASE ~controlled
    BY <1>1, <1>4, <2>1, <2>3 DEF HandleOpenChange, DialogInv, DialogTyped, DialogFollows, Shown
  <2> QED  BY <2>2, <2>3
<1>5. DialogInv'
  BY <1>2, <1>3, <1>4
<1> QED  BY <1>1, <1>5, ThemeKept, MapsKept DEF ShellInv

LEMMA ShellStepKeeps == ShellInv /\ [ShellNext]_shellVars => ShellInv'
<1> SUFFICES ASSUME ShellInv, [ShellNext]_shellVars PROVE ShellInv'
  OBVIOUS
<1>1. CASE ChildThrows
  <2>1. UNCHANGED <<themeVars, dialogVars, reloads>> /\ hasError' = TRUE
    BY <1>1 DEF ChildThrows
  <2>2. MapsInv'
    BY <1>1, <2>1 DEF ChildThrows, ShellInv, MapsInv, MapsTyped, MapsFollowScripts
  <2> QED  BY <2>1, <2>2, ThemeKept, DialogKept DEF ShellInv
<1>2. CASE ReloadPage
  <2>1. reloads' \in 0 .. MaxReloads /\ 0 \in 0 .. MaxCloses
    BY <1>2, ShellAssumption DEF ReloadPage, ShellInv
  <2>2. ThemeInv'
    BY <1>2 DEF ReloadPage, ShellInv, ThemeInv, ThemeTyped, ThemeFollows, FirstTheme, Themes
  <2>3. DialogInv'
    BY <1>2, <2>1 DEF ReloadPage, ShellInv, DialogInv, DialogTyped, DialogFollows
  <2>4. MapsInv'
    BY <1>2 DEF ReloadPage, ShellInv, MapsInv, MapsTyped, MapsFollowScripts
  <2> QED  BY <2>1, <2>2, <2>3, <2>4 DEF ShellInv
<1>3. CASE UNCHANGED shellVars
  BY <1>3, ThemeKept, DialogKept, MapsKept DEF shellVars, ShellInv
<1> QED  BY <1>1, <1>2, <1>3, ThemeKeeps, MapsKeep, DialogKeeps DEF ShellNext

LEMMA ShellIsRight == ShellInv => ShellTypeOK /\ ThemeApplied /\ MapsFollowScripts /\ DialogObeys
<1> SUFFICES ASSUME ShellInv PROVE ShellTypeOK /\ ThemeApplied /\ MapsFollowScripts /\ DialogObeys
  OBVIOUS
<1> USE DEF ShellInv, ThemeInv, DialogInv, MapsInv
<1>1. {hasError, switchable, darkClass, controlled, openProp, internalOpen, effectDue, dismissed} \subseteq BOOLEAN
  BY DEF ThemeTyped, DialogTyped
<1>2. ShellTypeOK
  BY <1>1, Zenon DEF ShellTypeOK, ThemeTyped, DialogTyped, MapsTyped
<1> QED  BY <1>2, Zenon DEF ThemeFollows, ThemeApplied, DialogFollows, DialogObeys

-----------------------------------------------------------------------------
(* The fields under an input method editor.                                *)

\* What the flags of a field say of its composition and of its timers.
FieldFlags ==
  /\ composing => c /\ nested = 0 /\ confirming = "none" /\ ends < MaxEnds /\ dialogOpen
  /\ confirming # "none" => c /\ nested # 0 /\ dialogOpen
  /\ c => composing \/ nested # 0

\* What those of its dialog say; as long as no composition began within the delay of
\* another, the dialog knows of the one whose key is to come.
DialogFlags ==
  /\ composingRef => inDialog /\ (composing \/ delayed # <<>>)
  /\ justEndedRef => endTimer # 0
  /\ ~mistimed /\ inDialog /\ composing => composingRef /\ delayed = <<>>
  /\ ~mistimed /\ inDialog /\ confirming # "none" => composingRef /\ delayed = <<ends>>

FieldTyped ==
  /\ tag \in {"input", "textarea"} /\ inDialog \in BOOLEAN /\ safari \in BOOLEAN
  /\ composing \in BOOLEAN /\ c \in BOOLEAN /\ dialogOpen \in BOOLEAN
  /\ confirming \in {"none", "Enter", "Escape"} /\ nested \in {0, 1, 2} /\ ends \in 0 .. MaxEnds

RefsTyped ==
  /\ composingRef \in BOOLEAN /\ justEndedRef \in BOOLEAN /\ mistimed \in BOOLEAN
  /\ delayed \in Seq(1 .. MaxEnds) /\ endTimer \in 0 .. MaxEnds

KeysStay ==
  /\ leaked \subseteq {"close"} /\ ("close" \in leaked => mistimed)
  /\ swallowed \in BOOLEAN /\ (swallowed => tag = "input")

CompositionInv == FieldTyped /\ RefsTyped /\ FieldFlags /\ DialogFlags /\ KeysStay

LEMMA CompositionBegins == CompositionInit => CompositionInv
<1> SUFFICES ASSUME CompositionInit PROVE CompositionInv
  OBVIOUS
<1>1. 0 \in 0 .. MaxEnds /\ <<>> \in Seq(1 .. MaxEnds)
  BY CompositionAssumption
<1>2. FieldTyped /\ RefsTyped /\ KeysStay
  BY <1>1 DEF CompositionInit, DialogInit, FieldTyped, RefsTyped, KeysStay
<1>3. FieldFlags /\ DialogFlags
  BY DEF CompositionInit, DialogInit, FieldFlags, DialogFlags
<1> QED  BY <1>2, <1>3 DEF CompositionInv

LEMMA StartKeeps == CompositionInv /\ OnCompositionStart => CompositionInv'
<1> SUFFICES ASSUME CompositionInv, OnCompositionStart PROVE CompositionInv'
  OBVIOUS
<1>1. FieldTyped' /\ RefsTyped' /\ KeysStay'
  BY DEF CompositionInv, FieldTyped, RefsTyped, KeysStay, OnCompositionStart, browser
<1>2. FieldFlags'
  BY DEF OnCompositionStart, FieldFlags
<1>3. DialogFlags'
  BY DEF CompositionInv, OnCompositionStart, DialogFlags, RefsTyped, FieldTyped, browser
<1> QED  BY <1>1, <1>2, <1>3 DEF CompositionInv

LEMMA EndKeeps == CompositionInv /\ OnCompositionEnd => CompositionInv'
<1> SUFFICES ASSUME CompositionInv, OnCompositionEnd PROVE CompositionInv'
  OBVIOUS
<1>1. /\ composing /\ composing' = FALSE /\ nested' = 1 /\ ends' = ends + 1
      /\ confirming' \in {"none", "Enter", "Escape"}
      /\ UNCHANGED <<tag, inDialog, safari, c, composingRef, dialogOpen, leaked, swallowed, mistimed>>
      /\ HandleEnd(ends + 1)
  BY DEF OnCompositionEnd, browser
<1>2. /\ c /\ dialogOpen /\ ends < MaxEnds /\ ends \in 0 .. MaxEnds
      /\ ~mistimed /\ inDialog => composingRef /\ delayed = <<>>
  BY <1>1 DEF CompositionInv, FieldFlags, DialogFlags, FieldTyped
<1>3. ends' \in 1 .. MaxEnds /\ ends' \in 0 .. MaxEnds /\ ends' # 0
  BY <1>1, <1>2, CompositionAssumption
<1>4. /\ inDialog => justEndedRef' = TRUE /\ delayed' = Append(delayed, ends') /\ endTimer' = ends'
      /\ ~inDialog => UNCHANGED <<justEndedRef, delayed, endTimer>>
  BY <1>1 DEF HandleEnd
<1>5. /\ delayed \in Seq(1 .. MaxEnds) => Append(delayed, ends') \in Seq(1 .. MaxEnds)
      /\ delayed \in Seq(1 .. MaxEnds) => Append(delayed, ends') # <<>>
      /\ Append(<<>>, ends') = <<ends'>>
  BY <1>3, CallAppended
<1>6. FieldTyped' /\ KeysStay'
  BY <1>1, <1>3 DEF CompositionInv, FieldTyped, KeysStay
<1>7. RefsTyped'
  <2>1. CASE inDialog
    BY <1>1, <1>3, <1>4, <1>5, <2>1 DEF CompositionInv, RefsTyped
  <2>2. CASE ~inDialog
    BY <1>1, <1>4, <2>2 DEF CompositionInv, RefsTyped
  <2> QED  BY <2>1, <2>2
<1>8. FieldFlags'
  BY <1>1, <1>2 DEF FieldFlags
<1>9. DialogFlags'
  <2>1. CASE inDialog
    BY <1>1, <1>2, <1>3, <1>4, <1>5, <2>1 DEF CompositionInv, RefsTyped, DialogFlags
  <2>2. CASE ~inDialog
    BY <1>1, <1>4, <2>2 DEF CompositionInv, DialogFlags
  <2> QED  BY <2>1, <2>2
<1> QED  BY <1>6, <1>7, <1>8, <1>9 DEF CompositionInv

\* The three kinds of timers: the field's, the second of which never fires while a key
\* is owed; the dialog's, which may come before that one if the page is busy; the mark's.
LEMMA TimersKeep == CompositionInv /\ (Timer \/ SetNotComposing \/ EndTimer) => CompositionInv'
<1> SUFFICES ASSUME CompositionInv, Timer \/ SetNotComposing \/ EndTimer PROVE CompositionInv'
  OBVIOUS
<1>1. ASSUME Timer PROVE CompositionInv'
  <2>1. FieldTyped' /\ RefsTyped' /\ KeysStay'
    BY <1>1 DEF Timer, CompositionInv, FieldTyped, RefsTyped, KeysStay, browser
  <2>2. FieldFlags'
    BY <1>1 DEF Timer, CompositionInv, FieldTyped, FieldFlags, browser
  <2>3. DialogFlags'
    BY <1>1 DEF Timer, CompositionInv, DialogFlags, browser
  <2> QED  BY <2>1, <2>2, <2>3 DEF CompositionInv
<1>2. ASSUME SetNotComposing PROVE CompositionInv'
  <2>1. delayed # <<>> /\ Tail(delayed) \in Seq(1 .. MaxEnds) /\ delayed' = Tail(delayed) /\ composingRef' = FALSE
    BY <1>2, HeadTailProperties DEF SetNotComposing, CompositionInv, RefsTyped
  <2>2. FieldTyped' /\ RefsTyped' /\ KeysStay' /\ FieldFlags'
    BY <1>2, <2>1 DEF SetNotComposing, CompositionInv, FieldTyped, RefsTyped, KeysStay, FieldFlags, browser
  <2>3. inDialog /\ composing => mistimed'
    BY <1>2, <2>1 DEF SetNotComposing, CompositionInv, DialogFlags, RefsTyped
  <2>4. inDialog /\ confirming # "none" => mistimed'
    <3>1. SUFFICES ASSUME inDialog, confirming # "none", ~mistimed PROVE mistimed'
      BY <1>2 DEF SetNotComposing
    <3>2. delayed = <<ends>> /\ nested \in {1, 2}
      BY <3>1 DEF CompositionInv, DialogFlags, FieldFlags, FieldTyped
    <3>3. Head(delayed) = ends /\ ends \in Nat
      BY <3>2 DEF CompositionInv, FieldTyped
    <3>4. nested # 1
      BY <1>2, <3>3 DEF SetNotComposing
    <3>5. nested = 2
      BY <3>2, <3>4
    <3> QED  BY <1>2, <3>3, <3>5, Zenon DEF SetNotComposing
  <2>5. DialogFlags'
    BY <1>2, <2>1, <2>3, <2>4 DEF SetNotComposing, CompositionInv, DialogFlags, browser
  <2> QED  BY <2>2, <2>5 DEF CompositionInv
<1>3. ASSUME EndTimer PROVE CompositionInv'
  <2>1. 0 \in 0 .. MaxEnds
    BY CompositionAssumption
  <2>2. FieldTyped' /\ RefsTyped' /\ KeysStay' /\ FieldFlags'
    BY <1>3, <2>1 DEF EndTimer, CompositionInv, FieldTyped, RefsTyped, KeysStay, FieldFlags, browser
  <2>3. DialogFlags'
    BY <1>3 DEF EndTimer, CompositionInv, DialogFlags, browser
  <2> QED  BY <2>2, <2>3 DEF CompositionInv
<1> QED  BY <1>1, <1>2, <1>3

\* A key of the editor comes while the field composes, or while its flag still says
\* so: it does not submit, and the dialog is told of the composition.
LEMMA EditorKeyKeeps == CompositionInv /\ EditorKey => CompositionInv'
<1> SUFFICES ASSUME CompositionInv, EditorKey PROVE CompositionInv'
  OBVIOUS
<1>1. PICK pressed \in {"Enter", "Escape"} :
        /\ composing \/ pressed = confirming
        /\ leaked' = leaked \cup Effects(pressed, composing)
        /\ dialogOpen' = ("close" \notin Effects(pressed, composing))
  BY DEF EditorKey
<1>2. /\ dialogOpen /\ confirming' = "none"
      /\ UNCHANGED <<tag, inDialog, safari, composing, c, nested, composingRef, justEndedRef, delayed, endTimer,
                     ends, swallowed, mistimed>>
  BY DEF EditorKey, browser
<1>3. c /\ composing \in BOOLEAN
  BY <1>1 DEF CompositionInv, FieldFlags, FieldTyped
<1>4. "submit" \notin Effects(pressed, composing)
  BY <1>3 DEF Effects, Submits
<1>5. "close" \in Effects(pressed, composing) => ~composing /\ mistimed
  <2>1. SUFFICES ASSUME "close" \in Effects(pressed, composing) PROVE ~composing /\ mistimed
    OBVIOUS
  <2>2. inDialog /\ ~composing /\ ~composingRef
    BY <2>1 DEF Effects, Closes
  <2>3. confirming # "none"
    BY <1>1, <2>2
  <2> QED  BY <2>2, <2>3 DEF CompositionInv, DialogFlags, RefsTyped
<1>6. Effects(pressed, composing) \subseteq {"close"}
  BY <1>4 DEF Effects
<1>7. FieldTyped' /\ RefsTyped'
  BY <1>1, <1>2 DEF CompositionInv, FieldTyped, RefsTyped
<1>8. KeysStay'
  BY <1>1, <1>2, <1>5, <1>6 DEF CompositionInv, KeysStay
<1>9. FieldFlags' /\ DialogFlags'
  BY <1>1, <1>2, <1>5 DEF CompositionInv, FieldFlags, DialogFlags
<1> QED  BY <1>7, <1>8, <1>9 DEF CompositionInv

\* The user's own keys and clicks come while nothing is composed.
LEMMA UserKeeps ==
  CompositionInv /\ (UserShiftEnter \/ UserEscape \/ UserCloses \/ DialogTrigger) => CompositionInv'
<1> SUFFICES ASSUME CompositionInv, UserShiftEnter \/ UserEscape \/ UserCloses \/ DialogTrigger
             PROVE  CompositionInv'
  OBVIOUS
<1>1. ASSUME UserShiftEnter PROVE CompositionInv'
  <2>1. UNCHANGED <<tag, inDialog, safari, composing, confirming, c, nested, composingRef, justEndedRef, delayed,
                    endTimer, ends, dialogOpen, leaked, mistimed>>
    BY <1>1 DEF UserShiftEnter, browser
  <2>2. swallowed' \in BOOLEAN /\ (swallowed' => swallowed \/ ~Submits("Enter", TRUE, FALSE))
    BY <1>1 DEF UserShiftEnter, CompositionInv, KeysStay
  <2>3. ~Submits("Enter", TRUE, FALSE) => tag = "input"
    BY DEF Submits, CompositionInv, FieldTyped
  <2>4. KeysStay'
    BY <2>1, <2>2, <2>3 DEF CompositionInv, KeysStay
  <2>5. FieldTyped' /\ RefsTyped' /\ FieldFlags' /\ DialogFlags'
    BY <2>1 DEF CompositionInv, FieldTyped, RefsTyped, FieldFlags, DialogFlags
  <2> QED  BY <2>4, <2>5 DEF CompositionInv
<1>2. ASSUME UserEscape \/ UserCloses PROVE CompositionInv'
  <2>1. /\ UNCHANGED <<tag, inDialog, safari, composing, confirming, c, nested, composingRef, justEndedRef, delayed,
                       endTimer, ends, leaked, swallowed, mistimed>>
        /\ ~composing /\ confirming = "none" /\ dialogOpen' \in BOOLEAN
    BY <1>2 DEF UserEscape, UserCloses, Closes, browser
  <2>2. FieldTyped' /\ RefsTyped' /\ KeysStay' /\ FieldFlags' /\ DialogFlags'
    BY <2>1 DEF CompositionInv, FieldTyped, RefsTyped, KeysStay, FieldFlags, DialogFlags
  <2> QED  BY <2>2 DEF CompositionInv
<1>3. ASSUME DialogTrigger PROVE CompositionInv'
  <2>1. /\ UNCHANGED <<tag, inDialog, safari, composing, confirming, composingRef, justEndedRef, delayed,
                       endTimer, ends, leaked, swallowed, mistimed>>
        /\ ~dialogOpen /\ dialogOpen' = TRUE /\ c' = FALSE /\ nested' = 0
    BY <1>3 DEF DialogTrigger, browser
  <2>2. ~composing /\ confirming = "none"
    BY <2>1 DEF CompositionInv, FieldFlags, FieldTyped
  <2>3. FieldTyped' /\ RefsTyped' /\ KeysStay' /\ FieldFlags' /\ DialogFlags'
    BY <2>1, <2>2 DEF CompositionInv, FieldTyped, RefsTyped, KeysStay, FieldFlags, DialogFlags
  <2> QED  BY <2>3 DEF CompositionInv
<1> QED  BY <1>1, <1>2, <1>3

LEMMA CompositionStepKeeps == CompositionInv /\ [CompositionNext]_compositionVars => CompositionInv'
<1>1. CompositionInv /\ UNCHANGED compositionVars => CompositionInv'
  BY DEF compositionVars, CompositionInv, FieldTyped, RefsTyped, KeysStay, FieldFlags, DialogFlags
<1> QED  BY <1>1, StartKeeps, EndKeeps, TimersKeep, EditorKeyKeeps, UserKeeps DEF CompositionNext

LEMMA CompositionIsRight == CompositionInv => CompositionsStayInside
<1> SUFFICES ASSUME CompositionInv PROVE CompositionsStayInside
  OBVIOUS
<1>1. {inDialog, safari, composing, c, composingRef, justEndedRef, dialogOpen, swallowed, mistimed} \subseteq BOOLEAN
  BY DEF CompositionInv, FieldTyped, RefsTyped, KeysStay
<1>2. leaked \subseteq {"submit", "close"} /\ "submit" \notin leaked /\ ("close" \in leaked => mistimed)
  BY DEF CompositionInv, KeysStay
<1>3. CompositionTypeOK
  <2>1. 0 .. 2 = {0, 1, 2}
    OBVIOUS
  <2> QED  BY <1>1, <1>2, <2>1, Zenon DEF CompositionInv, CompositionTypeOK, FieldTyped, RefsTyped
<1>4. NewlinesArrive /\ FieldRecovers
  BY DEF CompositionInv, KeysStay, FieldFlags, DialogFlags, NewlinesArrive, FieldRecovers
<1> QED  BY <1>2, <1>3, <1>4 DEF CompositionsStayInside, EditorKeysStayInside

-----------------------------------------------------------------------------
(* Charts, fields and servers.                                             *)

\* A chart's one row holds the label, or its heading does; the set of the rows that do
\* is empty or the first.
LEMMA LabelIsShownOnce ==
  ASSUME NEW t, t.payload \in Seq(Items)
  PROVE  LabelShownOnce(t)
<1> DEFINE content == TooltipContent(t)
           row(i) == IF Formatted(t, t.payload[i]) THEN CustomRow ELSE TooltipRow(t, t.payload[i])
           nests == {i \in DOMAIN content.rows : content.rows[i].nested # ""}
           places == (IF content.heading # "" THEN 1 ELSE 0) + Cardinality(nests)
<1>1. SUFFICES ASSUME t.active, t.payload # <<>>, TooltipLabel(t) # ""
             PROVE  \/ places = 1
                    \/ places = 0 /\ NestLabel(t) /\ (t.payload[1].type = "none" \/ Formatted(t, t.payload[1]))
  BY Zenon DEF LabelShownOnce
<1>2. /\ content.heading = (IF NestLabel(t) THEN "" ELSE TooltipLabel(t))
      /\ content.rows = [i \in Visible(t.payload) |-> row(i)]
  BY <1>1 DEF TooltipContent
<1>3. TooltipLabel(t) # ""
  BY <1>1
<1> HIDE DEF content, row
<1>4. nests = {i \in Visible(t.payload) : row(i).nested # ""}
  BY <1>2
<1>5. \A i : row(i).nested = (IF ~Formatted(t, t.payload[i]) /\ NestLabel(t) THEN TooltipLabel(t) ELSE "")
  BY DEF row, CustomRow, TooltipRow
<1> HIDE DEF nests, places
<1>6. CASE ~NestLabel(t)
  <2>1. nests = {}
    BY <1>4, <1>5, <1>6
  <2>2. Cardinality(nests) = 0
    BY <2>1, FS_EmptySet
  <2>3. content.heading # ""
    BY <1>2, <1>6, <1>3
  <2>4. places = 1 + Cardinality(nests)
    BY <2>3, Zenon DEF places
  <2> QED  BY <2>2, <2>4
<1>7. CASE NestLabel(t)
  <2>1. content.heading = ""
    BY <1>2, <1>7
  <2>2. DOMAIN t.payload = {1}
    <3>1. Len(t.payload) = 1
      BY <1>7 DEF NestLabel
    <3>2. DOMAIN t.payload = 1 .. Len(t.payload)
      BY LenProperties
    <3> QED  BY <3>1, <3>2
  <2>3. CASE t.payload[1].type = "none" \/ Formatted(t, t.payload[1])
    <3>1. \A i \in Visible(t.payload) : row(i).nested = ""
      BY <1>5, <2>2, <2>3, Zenon DEF Visible
    <3>2. nests = {}
      BY <1>4, <3>1
    <3>3. Cardinality(nests) = 0
      BY <3>2, FS_EmptySet
    <3>4. places = 0 + Cardinality(nests)
      BY <2>1, Zenon DEF places
    <3>5. places = 0
      BY <3>3, <3>4
    <3> QED  BY <1>7, <2>3, <3>5, Zenon
  <2>4. CASE t.payload[1].type # "none" /\ ~Formatted(t, t.payload[1])
    <3>1. Visible(t.payload) = {1}
      BY <2>2, <2>4 DEF Visible
    <3>2. row(1).nested # ""
      BY <1>5, <1>7, <1>3, <2>4, Zenon
    <3>3. nests = {1}
      BY <1>4, <3>1, <3>2
    <3>4. Cardinality(nests) = 1
      BY <3>3, FS_Singleton
    <3>5. places = 0 + Cardinality(nests)
      BY <2>1, Zenon DEF places
    <3>6. places = 1
      BY <3>4, <3>5
    <3> QED  BY <3>6, Zenon
  <2> QED  BY <2>3, <2>4, Zenon
<1> QED  BY <1>6, <1>7, Zenon

\* With a name key, tooltip and legend look up the same entry.
LEMMA NamesAreTheSame ==
  ASSUME NEW t, t.payload \in Seq(Items)
  PROVE  SameNames(t)
<1> SUFFICES ASSUME t.active PROVE SameNames(t)
  BY DEF SameNames
<1> DEFINE rows == TooltipContent(t).rows
           legend == LegendContent(t)
<1>1. CASE t.payload = <<>>
  <2>1. Visible(t.payload) = {}
    BY <1>1 DEF Visible
  <2>2. rows = <<>> /\ DOMAIN legend = {}
    BY <1>1, <2>1 DEF TooltipContent, LegendContent
  <2> QED  BY <2>2 DEF SameNames
<1>2. CASE t.payload # <<>>
  <2>1. rows = [i \in Visible(t.payload) |->
                  IF Formatted(t, t.payload[i]) THEN CustomRow ELSE TooltipRow(t, t.payload[i])]
    BY <1>2 DEF TooltipContent
  <2>2. legend = [i \in Visible(t.payload) |-> LegendEntry(t, t.payload[i])]
    BY DEF LegendContent
  <2>3. ASSUME t.nameKey # "", NEW i \in Visible(t.payload), rows[i] # CustomRow
        PROVE  rows[i].label = Or(legend[i].label, t.payload[i].name)
    <3> DEFINE entry == GetPayloadConfig(t.config, t.payload[i], t.nameKey)
    <3>1. \A a, b : /\ Or(Or(t.nameKey, a), b) = t.nameKey
                   /\ Or(t.nameKey, a) = t.nameKey
      BY <2>3 DEF Or
    <3>2. rows[i] = TooltipRow(t, t.payload[i])
      BY <2>1, <2>3
    <3>3. TooltipRow(t, t.payload[i]).label = Or(entry.label, t.payload[i].name)
      BY <3>1 DEF TooltipRow
    <3>4. legend[i].label = entry.label
      BY <2>2, <3>1 DEF LegendEntry
    <3> HIDE DEF rows, legend
    <3> QED  BY <3>2, <3>3, <3>4
  <2> HIDE DEF rows, legend
  <2>4. DOMAIN rows = Visible(t.payload) /\ DOMAIN legend = Visible(t.payload)
    BY <2>1, <2>2
  <2>5. DOMAIN rows = DOMAIN legend
    BY <2>4
  <2>6. t.nameKey # "" => \A i \in DOMAIN rows : rows[i] = CustomRow \/ rows[i].label = Or(legend[i].label, t.payload[i].name)
    BY <2>3, <2>4, Zenon
  <2> QED  BY <2>5, <2>6, Zenon DEF rows, legend, SameNames
<1> QED  BY <1>1, <1>2

LEMMA NamedByTheirData ==
  ASSUME NEW t, "" \notin DOMAIN t.config
  PROVE  NamedByData(t)
<1> SUFFICES ASSUME NEW i \in Visible(t.payload), t.nameKey # "",
                    t.payload[i].own[t.nameKey] = "",
                    t.payload[i].data[t.nameKey] \in DOMAIN t.config
             PROVE  LegendContent(t)[i].label = t.config[t.payload[i].data[t.nameKey]].label
  BY Zenon DEF NamedByData, LegendContent
<1> DEFINE named == t.payload[i].data[t.nameKey]
<1>1. LegendContent(t)[i].label = GetPayloadConfig(t.config, t.payload[i], t.nameKey).label
  BY DEF LegendContent, LegendEntry, Or
<1>2. Or(Or(t.payload[i].own[t.nameKey], named), t.nameKey) = named
  BY DEF Or
<1>3. GetPayloadConfig(t.config, t.payload[i], t.nameKey) = t.config[named]
  BY <1>2 DEF GetPayloadConfig, Entry
<1> QED  BY <1>1, <1>3

\* The style sheet has the variables of its series that have a colour.
LEMMA Styled ==
  ASSUME NEW config
  PROVE  \A v : v \in ChartStyle(config) <=>
           v.color # "" /\ \E u \in Themes1 : \E k \in DOMAIN config : v = Variable(config, u, k)
<1>1. \A v : v \in Variables(config) <=>
               \E u \in Themes1 : \E k \in DOMAIN config : v = Variable(config, u, k)
  BY DEF Variables
<1> QED  BY <1>1, Zenon DEF ChartStyle

\* The variables of one series in one theme are one, the one of its colour there.
LEMMA ColouredOnce == ASSUME NEW config PROVE ColouredInEveryTheme(config)
<1>1. SUFFICES ASSUME NEW k \in DOMAIN config, NEW u \in Themes1,
                      config[k].color # "" \/ config[k].theme[u] # ""
               PROVE  Cardinality({v \in ChartStyle(config) : v.theme = u /\ v.key = k}) = 1
  BY DEF ColouredInEveryTheme
<1>2. Variable(config, u, k).color # ""
  BY <1>1 DEF Variable, Or
<1>3. \A w, n : Variable(config, w, n).theme = w /\ Variable(config, w, n).key = n
  BY DEF Variable
<1>4. Variable(config, u, k) \in ChartStyle(config)
  BY <1>2, Styled, Zenon
<1>5. ASSUME NEW v \in ChartStyle(config), v.theme = u, v.key = k PROVE v = Variable(config, u, k)
  <2>1. PICK w \in Themes1 : \E n \in DOMAIN config : v = Variable(config, w, n)
    BY Styled, Zenon
  <2>2. PICK n \in DOMAIN config : v = Variable(config, w, n)
    BY <2>1
  <2>3. w = u /\ n = k
    BY <1>3, <1>5, <2>2, Zenon
  <2> QED  BY <2>2, <2>3, Zenon
<1>6. {v \in ChartStyle(config) : v.theme = u /\ v.key = k} = {Variable(config, u, k)}
  BY <1>3, <1>4, <1>5
<1> QED  BY <1>6, FS_Singleton

\* Charts of one id, of which none was given it, were given the same one by React: they
\* are one chart.
LEMMA WornAreOwn ==
  ASSUME NEW screen,
         \A i, j \in DOMAIN screen : screen[i].unique = screen[j].unique => i = j
  PROVE  WearsItsOwn(screen)
<1> SUFFICES ASSUME NEW i \in DOMAIN screen,
                    \A j \in DOMAIN screen \ {i} :
                      /\ ~(screen[i].id = screen[j].id /\ screen[i].id # "")
                      /\ screen[i].id # screen[j].unique /\ screen[j].id # screen[i].unique
             PROVE  Worn(screen, i) = ChartStyle(screen[i].config)
  BY Zenon DEF WearsItsOwn
<1>1. \A j \in DOMAIN screen : ChartId(screen[j]) = ChartId(screen[i]) => j = i
  BY DEF ChartId
<1>2. {j \in DOMAIN screen : ChartId(screen[j]) = ChartId(screen[i])} = {i}
  BY <1>1
<1> QED  BY <1>2 DEF Worn

LEMMA SlidesAlongAxis == \A asked, axis : SlidesLieAlongAxis(asked, axis)
BY DEF SlidesLieAlongAxis, ItemSide, ContentSide, EngineAxis, ToldOrientation, Orientation

LEMMA FieldsTell ==
  ASSUME NEW f, f.range \subseteq {"start", "middle", "end"}
  PROVE  /\ ErrorsAnnounced(f) /\ MessagesListed(f.children, f.errors) /\ DaysMarked(f)
         /\ ThumbsOfValues(f.values, f.defaults)
<1>1. ErrorsAnnounced(f)
  BY DEF ErrorsAnnounced, FormControl, FormLabel, Rendered, MessageBody, Ids
<1>2. MessagesListed(f.children, f.errors)
  BY DEF MessagesListed, FieldError
<1>3. DaysMarked(f)
  BY DEF DaysMarked, DayMarks
<1>4. ThumbsOfValues(f.values, f.defaults)
  BY DEF ThumbsOfValues, SliderThumbs
<1> QED  BY <1>1, <1>2, <1>3, <1>4

LEMMA Appended ==
  ASSUME NEW S, NEW s \in Seq(S), NEW k \in S
  PROVE  /\ Append(s, k) \in Seq(S) /\ Len(Append(s, k)) = Len(s) + 1
         /\ \A i \in 1 .. Len(s) : Append(s, k)[i] = s[i]
         /\ Append(s, k)[Len(s) + 1] = k
BY AppendProperties

\* The slots of a password, of any characters.
LEMMA SlotsShow ==
  ASSUME NEW group, NEW looks, NEW C, NEW S, \A one \in S : one.char \in C, NEW slots \in Seq(S)
  PROVE  GroupsAgree(group, looks, slots)
<1>1. group # "" => \A one, two \in looks : ToggleVariant(group, one) = ToggleVariant(group, two)
  BY DEF ToggleVariant
<1> DEFINE seen == [i \in 1 .. Len(slots) + 1 |-> OTPSlot(slots, i).char]
           chars == [i \in DOMAIN slots |-> slots[i].char]
<1>2. DOMAIN slots = 1 .. Len(slots) /\ Len(slots) \in Nat
  OBVIOUS
<1>3. chars \in Seq(C) /\ Len(chars) = Len(slots) /\ DOMAIN chars = 1 .. Len(slots)
  <2>1. \A i \in 1 .. Len(slots) : slots[i].char \in C
    BY <1>2
  <2>2. chars \in [1 .. Len(slots) -> C]
    BY <1>2, <2>1
  <2> HIDE DEF chars
  <2> QED  BY <1>2, <2>2
<1>4. \A i \in 1 .. Len(slots) : chars[i] = slots[i].char
  BY <1>2
<1> HIDE DEF chars
<1>5. /\ Append(chars, "") \in Seq(C \cup {""}) /\ Len(Append(chars, "")) = Len(slots) + 1
      /\ \A i \in 1 .. Len(slots) : Append(chars, "")[i] = chars[i]
      /\ Append(chars, "")[Len(slots) + 1] = ""
  <2> DEFINE D == C \cup {""}
  <2>1. "" \in D /\ chars \in Seq(D)
    BY <1>3, SeqMonotonic
  <2> HIDE DEF D
  <2>2. /\ Append(chars, "") \in Seq(D) /\ Len(Append(chars, "")) = Len(chars) + 1
        /\ \A i \in 1 .. Len(chars) : Append(chars, "")[i] = chars[i]
        /\ Append(chars, "")[Len(chars) + 1] = ""
    BY <2>1, Appended
  <2> QED  BY <1>3, <2>2, Zenon DEF D
<1>6. \A i \in 1 .. Len(slots) : OTPSlot(slots, i).char = slots[i].char
  BY <1>2 DEF OTPSlot
<1>7. OTPSlot(slots, Len(slots) + 1).char = ""
  <2>1. Len(slots) + 1 \notin DOMAIN slots
    BY <1>2
  <2> QED  BY <2>1, Zenon DEF OTPSlot
<1>8. \A i \in 1 .. Len(slots) + 1 : OTPSlot(slots, i).char = Append(chars, "")[i]
  <2> TAKE i \in 1 .. Len(slots) + 1
  <2>1. CASE i \in 1 .. Len(slots)
    BY <1>5, <1>6, <1>4, <2>1, Zenon
  <2>2. CASE i \notin 1 .. Len(slots)
    <3>1. i = Len(slots) + 1
      BY <1>2, <2>2
    <3> QED  BY <1>5, <1>7, <3>1, Zenon
  <2> QED  BY <2>1, <2>2
<1>9. seen = Append(chars, "")
  <2>1. Append(chars, "") = [i \in 1 .. Len(slots) + 1 |-> Append(chars, "")[i]]
    <3> DEFINE all == Append(chars, "")
    <3>1. all \in Seq(C \cup {""}) /\ Len(all) = Len(slots) + 1
      BY <1>5
    <3> HIDE DEF all
    <3>2. all \in [1 .. Len(slots) + 1 -> C \cup {""}]
      BY <3>1, LenProperties
    <3>3. all = [i \in 1 .. Len(slots) + 1 |-> all[i]]
      BY <3>2, Zenon
    <3> QED  BY <3>3 DEF all
  <2> QED  BY <1>8, <2>1, Zenon
<1> QED  BY <1>1, <1>9 DEF GroupsAgree, chars

LEMMA ServersAnswer ==
  ASSUME NEW s \in Servers, NEW k
  PROVE  PagesFindTheirServer(s) /\ RedirectsAreSigned(s, k)
<1>1. s.server \in {"vite", "express"}
  BY DEF Servers
<1>2. PagesFindTheirServer(s)
  <2> DEFINE route == [kind |-> "route", method |-> "GET", key |-> "", payload |-> "object"]
             logs == [kind |-> "logs", method |-> "POST", key |-> "", payload |-> "object"]
  <2>1. ViteAnswer(s, route) = Answer(200, PageOf(s.environment))
    BY Zenon DEF ViteAnswer
  <2>2. ExpressAnswer(s, route) = Answer(200, PageOf(s.environment))
    BY Zenon DEF ExpressAnswer
  <2>3. ServerAnswer(s, route) = Answer(200, PageOf(s.environment))
    BY <2>1, <2>2, Zenon DEF ServerAnswer
  <2>4. s.server = "vite" => ServerAnswer(s, logs) = Answer(200, "success")
    BY Zenon DEF ServerAnswer, ViteAnswer, LogsAnswer
  <2>5. s.environment = "production" => PageOf(s.environment) # "page with collector"
    BY Zenon DEF PageOf
  <2>6. /\ Answer(200, PageOf(s.environment)).status = 200 /\ Answer(200, "success").status = 200
        /\ Answer(200, PageOf(s.environment)).body = PageOf(s.environment)
    BY Zenon DEF Answer
  <2> HIDE DEF route, logs
  <2>7. ServerAnswer(s, route).status = 200
    BY <2>3, <2>6, Zenon
  <2>8. ServerAnswer(s, route).body = "page with collector" /\ (s.server = "vite" \/ s.environment = "production") =>
          ServerAnswer(s, logs).status = 200
    <3>1. ServerAnswer(s, route).body = PageOf(s.environment)
      BY <2>3, <2>6, Zenon
    <3>2. s.server = "vite" => ServerAnswer(s, logs).status = 200
      BY <2>4, <2>6, Zenon
    <3> QED  BY <2>5, <3>1, <3>2, Zenon
  <2> QED  BY <2>7, <2>8, Zenon DEF PagesFindTheirServer, route, logs
<1>3. RedirectsAreSigned(s, k)
  <2> DEFINE storage == [kind |-> "storage", method |-> "GET", key |-> k, payload |-> "object"]
  <2>1. s.server = "vite" => ServerAnswer(s, storage) = StorageAnswer(k, s.configured, s.forge)
    BY Zenon DEF ServerAnswer, ViteAnswer
  <2>2. k # "" /\ s.configured /\ s.forge = "signed" =>
          StorageAnswer(k, s.configured, s.forge) = Answer(307, "signed URL")
    BY Zenon DEF StorageAnswer
  <2>3. ~(k # "" /\ s.configured /\ s.forge = "signed") =>
          StorageAnswer(k, s.configured, s.forge).status \in {400, 500, 502}
    <3>1. StorageAnswer(k, s.configured, s.forge).status = 400 \/ k # ""
      BY Zenon DEF StorageAnswer, Answer
    <3>2. k # "" /\ ~s.configured => StorageAnswer(k, s.configured, s.forge).status = 500
      BY Zenon DEF StorageAnswer, Answer
    <3>3. k # "" /\ s.configured /\ s.forge # "signed" => StorageAnswer(k, s.configured, s.forge).status = 502
      BY Zenon DEF StorageAnswer, Answer
    <3> QED  BY <3>1, <3>2, <3>3, Zenon
  <2> HIDE DEF storage
  <2>4. s.server = "vite" =>
          IF k # "" /\ s.configured /\ s.forge = "signed"
          THEN ServerAnswer(s, storage) = Answer(307, "signed URL")
          ELSE ServerAnswer(s, storage).status >= 400
    <3>1. s.server = "vite" /\ k # "" /\ s.configured /\ s.forge = "signed" =>
            ServerAnswer(s, storage) = Answer(307, "signed URL")
      BY <2>1, <2>2, Zenon
    <3>2. s.server = "vite" /\ ~(k # "" /\ s.configured /\ s.forge = "signed") =>
            ServerAnswer(s, storage).status >= 400
      <4>1. s.server = "vite" => ServerAnswer(s, storage).status = StorageAnswer(k, s.configured, s.forge).status
        BY <2>1, Zenon
      <4>2. ~(k # "" /\ s.configured /\ s.forge = "signed") => StorageAnswer(k, s.configured, s.forge).status >= 400
        <5>1. SUFFICES ASSUME ~(k # "" /\ s.configured /\ s.forge = "signed")
                     PROVE  StorageAnswer(k, s.configured, s.forge).status >= 400
          BY Zenon
        <5> DEFINE n == StorageAnswer(k, s.configured, s.forge).status
        <5>2. n \in {400, 500, 502}
          BY <2>3, <5>1, Zenon
        <5> HIDE DEF n
        <5>3. \A i \in {400, 500, 502} : i >= 400
          OBVIOUS
        <5>4. n >= 400
          BY <5>2, <5>3, Zenon
        <5> QED  BY <5>4 DEF n
      <4> QED  BY <4>1, <4>2, Zenon
    <3> QED  BY <3>1, <3>2, Zenon
  <2> QED  BY <2>4, Zenon DEF RedirectsAreSigned, storage
<1> QED  BY <1>2, <1>3

-----------------------------------------------------------------------------
(* The parts together.                                                     *)

\* A step of the Control Center is a step of each of its parts, or leaves it alone.
LEMMA PartsMove ==
  [Next]_vars => /\ [ViewNext]_viewVars /\ [OverviewNext]_overviewVars /\ [SessionNext]_sessionVars
                 /\ [SidebarNext]_sidebarVars /\ [CompositionNext]_compositionVars
                 /\ [CarouselNext]_carouselVars /\ [ShellNext]_shellVars
<1> HIDE DEF ViewNext, OverviewNext, SessionNext, SidebarNext, CompositionNext, CarouselNext, ShellNext,
             viewVars, overviewVars, sessionVars, sidebarVars, compositionVars, carouselVars, shellVars
<1> QED  BY Zenon DEF Next, vars, resting

LEMMA PartsBegin ==
  Init => /\ ViewInit /\ OverviewInit /\ SessionInit /\ SidebarInit /\ CompositionInit
          /\ CarouselInit /\ ShellInit
BY Zenon DEF Init

\* Every view is of its type, loads only while a request is under way and shows its own
\* answer if its requests were answered in order; and once the polls of an overview are
\* over, none of which overlapped, its pill tells what the last one found (Home.tsx
\* 97-118, 160, 239-258).
THEOREM ViewsAreTrue == Spec => []ViewsTellTruth
<1>1. ViewInv /\ OverviewInv => ViewsTellTruth
  BY DEF ViewInv, OverviewInv, ViewsTellTruth
<1>2. Init => ViewInv /\ OverviewInv
  BY PartsBegin, ViewBegins, OverviewBegins
<1>3. ViewInv /\ OverviewInv /\ [Next]_vars => (ViewInv /\ OverviewInv)'
  BY PartsMove, ViewStepKeeps, OverviewStepKeeps
<1> QED  BY <1>1, <1>2, <1>3, PTL DEF Spec

\* Whatever calls cross, fail or outlive their mount: a session that was signed out is
\* refused unless the gateway restarted, the session a view shows is the stored one
\* unless a call of an earlier mount parted them, and a check that is waited for is
\* under way (Home.tsx 193-211, operations.py 57-100).
THEOREM SessionsAreRight == Spec => []SessionsAgree
<1>1. SessionInv => SessionsAgree
  BY SessionTypes DEF SessionInv, CallsInv, SessionsAgree
<1>2. Init => SessionInv
  BY PartsBegin, SessionBegins
<1>3. SessionInv /\ [Next]_vars => SessionInv'
  BY PartsMove, SessionStepKeeps
<1> QED  BY <1>1, <1>2, <1>3, PTL DEF Spec

\* In every browser and whatever timers are late: the key that ends a composition never
\* submits, and closes a dialog only if a composition began within the 100 ms of another
\* or the page was so busy that these were over between the two nested timers; newlines
\* arrive; a field whose timers are over takes every key (useComposition.ts 40-70,
\* input.tsx 40-48, dialog.tsx 36-44, 103-119, textarea.tsx 22-35).
THEOREM EditorKeysAreKept == Spec => []CompositionsStayInside
<1>1. Init => CompositionInv
  BY PartsBegin, CompositionBegins
<1>2. CompositionInv /\ [Next]_vars => CompositionInv'
  BY PartsMove, CompositionStepKeeps
<1> QED  BY <1>1, <1>2, CompositionIsRight, PTL DEF Spec

\* The sidebar counts its toggles and names its icons, the carousel's buttons tell where
\* it can scroll, the document has the theme, maps follow their scripts and dialogs their
\* parents (sidebar.tsx 75-93, carousel.tsx 62-103, ThemeContext.tsx 24-49, Map.tsx
\* 95-151, ManusDialog.tsx 21-47).
THEOREM MirrorsFollow == Spec => []PartsFollowState
<1>1. SidebarInv /\ CarouselInv /\ ShellInv => PartsFollowState
  BY SidebarNamesIcons, ShellIsRight DEF SidebarInv, CarouselInv, PartsFollowState
<1>2. Init => SidebarInv /\ CarouselInv /\ ShellInv
  BY PartsBegin, SidebarBegins, CarouselBegins, ShellBegins
<1>3. SidebarInv /\ CarouselInv /\ ShellInv /\ [Next]_vars => (SidebarInv /\ CarouselInv /\ ShellInv)'
  BY PartsMove, SidebarStepKeeps, CarouselStepKeeps, ShellStepKeeps
<1> QED  BY <1>1, <1>2, <1>3, PTL DEF Spec

\* Whatever payload, configuration, page of charts, field or request is given: a label
\* and a name are shown as the configuration says, a series has one colour in each theme
\* and its chart no other's, a field's errors are announced, and a server answers for the
\* page it sent (chart.tsx 46-346, form.tsx 107-157, field.tsx 193-230, calendar.tsx
\* 186-195, slider.tsx 16-59, vite.config.ts 81-201, server/index.ts 15-22).
THEOREM ContentIsShown == Spec => []ContentShown
<1>1. ASSUME sample \in Sampled(part) PROVE ContentShown
  <2> SUFFICES ASSUME NEW s \in sample
      PROVE /\ part = "chart" => LabelShownOnce(s) /\ SameNames(s) /\ NamedByData(s)
            /\ part = "config" => ColouredInEveryTheme(s)
            /\ part = "page" => WearsItsOwn(s)
            /\ part = "slides" => SlidesLieAlongAxis(s.orientation, s.axis)
            /\ part = "form" => /\ ErrorsAnnounced(s) /\ MessagesListed(s.children, s.errors)
                                /\ DaysMarked(s) /\ ThumbsOfValues(s.values, s.defaults)
                                /\ GroupsAgree(s.group, {"", "default"}, Slots4(s.values))
            /\ part = "server" => PagesFindTheirServer(s) /\ \A k \in {"", "photo"} : RedirectsAreSigned(s, k)
    BY Zenon DEF ContentShown
  <2>1. CASE part = "chart"
    <3>1. s \in Charts
      BY <1>1, <2>1 DEF Sampled
    <3> QED  BY <2>1, <3>1, ContentAssumption, LabelIsShownOnce, NamesAreTheSame, NamedByTheirData
  <2>2. CASE part = "config"
    BY <2>2, ColouredOnce
  <2>3. CASE part = "page"
    <3>1. s \in Pages
      BY <1>1, <2>3 DEF Sampled
    <3> QED  BY <2>3, <3>1, ContentAssumption, WornAreOwn
  <2>4. CASE part = "slides"
    BY <2>4, SlidesAlongAxis
  <2>5. CASE part = "form"
    <3>1. s \in Forms
      BY <1>1, <2>5 DEF Sampled
    <3>2. Slots4(s.values) \in Seq([char : {"digit", ""}, caret : BOOLEAN, active : BOOLEAN])
      <4> DEFINE slot(i) == [char |-> IF i \in DOMAIN s.values THEN "digit" ELSE "", caret |-> i = 1, active |-> i = 1]
      <4>1. \A i \in 1 .. 4 : slot(i) \in [char : {"digit", ""}, caret : BOOLEAN, active : BOOLEAN]
        BY Zenon
      <4>2. Slots4(s.values) = [i \in 1 .. 4 |-> slot(i)]
        BY DEF Slots4
      <4> HIDE DEF slot
      <4>3. Slots4(s.values) \in [1 .. 4 -> [char : {"digit", ""}, caret : BOOLEAN, active : BOOLEAN]]
        BY <4>1, <4>2
      <4> DEFINE S == [char : {"digit", ""}, caret : BOOLEAN, active : BOOLEAN]
      <4> HIDE DEF S
      <4>4. \A n \in Nat : \A sq \in [1 .. n -> S] : sq \in Seq(S)
        OBVIOUS
      <4>5. 4 \in Nat
        OBVIOUS
      <4> QED  BY <4>3, <4>4, <4>5, Zenon DEF S
    <3>3. \A one \in [char : {"digit", ""}, caret : BOOLEAN, active : BOOLEAN] : one.char \in {"digit", ""}
      OBVIOUS
    <3> QED  BY <2>5, <3>1, <3>2, <3>3, ContentAssumption, FieldsTell, SlotsShow
  <2>6. CASE part = "server"
    <3>1. s \in Servers
      BY <1>1, <2>6 DEF Sampled
    <3> QED  BY <2>6, <3>1, ServersAnswer
  <2> QED  BY <2>1, <2>2, <2>3, <2>4, <2>5, <2>6
<1>2. Init => sample \in Sampled(part)
  BY DEF Init
<1>3. sample \in Sampled(part) /\ [Next]_vars => (sample \in Sampled(part))'
  BY DEF Next, vars, Sampled
<1> QED  BY <1>1, <1>2, <1>3, PTL DEF Spec

-----------------------------------------------------------------------------
(* The steps of a view are steps of Loadable.                              *)

LEMMA BeginsAsLoadable == Init => Loader!Init
<1>1. ViewInit => JsonState = "loading"
  BY DEF ViewInit, JsonState
<1> QED  BY <1>1, PartsBegin DEF Loader!Init, Phase

LEMMA ViewStepsAsLoadable ==
  ASSUME ViewTypeOK, [ViewNext]_viewVars
  PROVE  \/ JsonState' = "loading"
         \/ JsonState = "loading" /\ JsonState' \in {"answered", "failed"}
         \/ JsonState = "answered" /\ JsonState' = "failed"
         \/ JsonState' = JsonState
<1> USE DEF JsonState
<1>1. CASE \E v \in DOMAIN KeysOf : \E k \in KeysOf[v] : Navigate(v, k)
  BY <1>1 DEF Navigate, Mount
<1>2. CASE (\E k \in KeysOf[view] : ChangeKey(k)) \/ Refresh
  BY <1>2 DEF ChangeKey, Refresh, Load
<1>3. CASE \E i \in 1 .. MaxCalls : AnswerArrives(i)
  BY <1>3 DEF AnswerArrives, Settle1
<1>4. CASE \E i \in 1 .. MaxCalls : AnswerFails(i)
  BY <1>4 DEF AnswerFails, Settle1
<1>5. CASE UNCHANGED viewVars
  BY <1>5 DEF viewVars
<1> QED  BY <1>1, <1>2, <1>3, <1>4, <1>5 DEF ViewNext, CallEnds

LEMMA StepsAsLoadable == ViewTypeOK /\ [Next]_vars => [Loader!Next]_Phase
<1> SUFFICES ASSUME ViewTypeOK, [Next]_vars PROVE [Loader!Next]_Phase
  OBVIOUS
<1>1. part' = part
  BY DEF Next, vars
<1>2. CASE part = "view"
  <2>1. Phase = JsonState /\ Phase' = JsonState'
    BY <1>1, <1>2 DEF Phase
  <2> QED  BY <2>1, PartsMove, ViewStepsAsLoadable DEF Loader!Next, Loader!Begin, Loader!Settle, Loader!LateFailure
<1>3. CASE part # "view"
  BY <1>1, <1>3 DEF Phase
<1> QED  BY <1>2, <1>3

\* Every behaviour of a view, its fairness left aside, is one of Loadable (Home.tsx
\* 97-118, 151-163).
THEOREM ViewsTakeLoadableSteps == Spec => Loader!Init /\ [][Loader!Next]_Phase
<1>1. ViewInv => ViewTypeOK
  BY DEF ViewInv
<1>2. Init => ViewInv
  BY PartsBegin, ViewBegins
<1>3. ViewInv /\ [Next]_vars => ViewInv'
  BY PartsMove, ViewStepKeeps
<1> QED  BY <1>1, <1>2, <1>3, BeginsAsLoadable, StepsAsLoadable, PTL DEF Spec
=============================================================================
