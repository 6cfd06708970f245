----------------------------- MODULE DeskProofs -----------------------------
(***************************************************************************)
(* Proofs about what the desk asks for and is shown, for any number of     *)
(* desks, instances, calls and texts: EgressIsKnown of its requests on a   *)
(* call, TranscriptIsWhole of an open call, TeamIsShown of the team card and *)
(* PresenceMatches of its sockets.                                         *)
(***************************************************************************)
EXTENDS CallWork, CallView, TeamView, DeskSockets, SequenceTheorems, TLAPS

-----------------------------------------------------------------------------
(***************************************************************************)
(* Requests on a call.  Whenever nothing is under way, what LiveKit records *)
(* is what the row of the call says.  The property speaks of moments of rest *)
(* only; the invariant says what an undisturbed request has done to the    *)
(* egresses at each of its awaits.                                         *)
(***************************************************************************)
WorkPcs == {"rest", "begin", "finish", "set"}
WorkSteps == [pc: WorkPcs, action: Actions, read: Ids, new: Ids]

WorkTypes ==
  /\ isLive \in BOOLEAN /\ hasRoom \in BOOLEAN /\ disturbed \in BOOLEAN
  /\ recording \in {"off", "on", "paused"} /\ egress \in Ids /\ running \subseteq 1..MaxEgresses
  /\ begun \in Nat /\ handler \in [Handlers -> WorkSteps]
  /\ ending \in [pc: {"rest", "finish", "off", "room", "ended"}, read: Ids]

\* Nothing records without a room, and a call that is over has none.
RoomInv ==
  /\ ~hasRoom => running = {}
  /\ ending.pc = "ended" => ~hasRoom
  /\ ~isLive => ~hasRoom

\* The row and the egresses at rest, and with nothing to record.
RowIsTrue ==
  /\ running = IF recording = "on" THEN {egress} ELSE {}
  /\ recording = "on" <=> egress # NoEgress
NoneRecords == running = {} /\ recording # "on" /\ egress = NoEgress

\* What the request r leaves behind at the await it is at.
RequestIsTrue(r) ==
  /\ r.pc = "begin" =>
       NoneRecords /\ r.action \in {"start", "resume"} /\ r.read = NoEgress /\ r.new = NoEgress
  /\ r.pc = "finish" =>
       IF r.action \in {"start", "resume"}
       THEN running = {r.new} /\ r.new # NoEgress /\ r.read = NoEgress
       ELSE running \subseteq {r.read} /\ r.new = NoEgress
  /\ r.pc = "set" =>
       /\ running = IF r.new = NoEgress THEN {} ELSE {r.new}
       /\ r.action \in {"start", "resume"} <=> r.new # NoEgress

EndIsTrue ==
  /\ ending.pc = "finish" => running = {ending.read}
  /\ ending.pc = "off" => running = {}
  /\ ending.pc \in {"room", "ended"} => NoneRecords

\* Undisturbed: one at a time, each leaves behind what it should.
OrderInv ==
  /\ \A h \in Handlers : handler[h].pc # "rest" => Alone(h) /\ isLive /\ RequestIsTrue(handler[h])
  /\ EndIsTrue
  /\ NothingUnderWay => RowIsTrue /\ (~isLive => NoneRecords)

WorkInv == WorkTypes /\ RoomInv /\ (~disturbed => OrderInv)

-----------------------------------------------------------------------------
LEMMA RestIsStep == Rest \in WorkSteps /\ Rest.pc = "rest"
  BY DEF Rest, WorkSteps, WorkPcs, Actions, Ids

LEMMA WorkInitInv == WorkInit => WorkInv
<1> SUFFICES ASSUME WorkInit PROVE WorkInv
  OBVIOUS
<1>1. \A h \in Handlers : handler[h] = Rest
  BY DEF WorkInit
<1>2. WorkTypes
  BY RestIsStep DEF WorkInit, WorkTypes, Ids
<1>3. RoomInv
  BY DEF WorkInit, RoomInv
<1>4. OrderInv
  BY <1>1, RestIsStep DEF WorkInit, OrderInv, EndIsTrue, NothingUnderWay, RowIsTrue
<1> QED
  BY <1>2, <1>3, <1>4 DEF WorkInv

\* What a step of request h to the record r does to the other requests: nothing.
LEMMA OnlyOwn ==
  ASSUME WorkTypes, NEW h \in Handlers, NEW r \in WorkSteps,
         handler' = [handler EXCEPT ![h] = r]
  PROVE  /\ handler' \in [Handlers -> WorkSteps] /\ handler'[h] = r
         /\ \A g \in Handlers : g # h => handler'[g] = handler[g]
  BY DEF WorkTypes

\* A request that goes on, undisturbed, is alone before and after.
LEMMA OwnTurn ==
  ASSUME WorkInv, NEW h \in Handlers, NEW r \in WorkSteps,
         handler' = [handler EXCEPT ![h] = r], UNCHANGED <<ending, isLive>>,
         Alone(h), isLive,
         r.pc # "rest" => RequestIsTrue(r)',
         r.pc = "rest" => RowIsTrue',
         EndIsTrue
  PROVE  OrderInv'
<1>1. /\ handler'[h] = r
      /\ \A g \in Handlers : g # h => handler'[g] = handler[g] /\ handler'[g].pc = "rest"
  BY OnlyOwn DEF WorkInv, Alone
<1>2. Alone(h)' /\ isLive' /\ ending'.pc = "rest"
  BY <1>1 DEF Alone
<1>3. EndIsTrue'
  BY <1>2 DEF EndIsTrue
<1>4. ASSUME NEW g \in Handlers, handler'[g].pc # "rest"
      PROVE  Alone(g)' /\ isLive' /\ RequestIsTrue(handler[g])'
  <2>1. g = h
    BY <1>1, <1>4
  <2> QED
    BY <1>1, <1>2, <1>4, <2>1 DEF RequestIsTrue, NoneRecords
<1>5. NothingUnderWay' => RowIsTrue' /\ (~isLive' => NoneRecords')
  BY <1>1, <1>2 DEF NothingUnderWay
<1> QED
  BY <1>3, <1>4, <1>5 DEF OrderInv

-----------------------------------------------------------------------------
\* Flow.recording, statement by statement.

LEMMA RequestStep ==
  ASSUME WorkInv, NEW h \in Handlers, NEW action \in Actions, Request(h, action)
  PROVE  WorkInv'
<1>1. PICK r : r = [pc |-> IF action \in {"start", "resume"} THEN "begin" ELSE "finish",
                    action |-> action, read |-> egress, new |-> NoEgress]
  OBVIOUS
<1>2. r \in WorkSteps
  BY <1>1 DEF WorkInv, WorkTypes, WorkSteps, WorkPcs, Ids
<1>3. /\ handler' = [handler EXCEPT ![h] = r] /\ disturbed' = (disturbed \/ ~Alone(h))
      /\ UNCHANGED <<isLive, hasRoom, recording, egress, running, ending, begun>>
      /\ handler[h].pc = "rest" /\ isLive /\ recording \in Allowed(action)
  BY <1>1 DEF Request
<1>4. WorkTypes' /\ RoomInv'
  BY <1>2, <1>3, OnlyOwn DEF WorkInv, WorkTypes, RoomInv
<1>5. ASSUME ~disturbed' PROVE OrderInv'
  <2>1. ~disturbed /\ Alone(h) /\ OrderInv
    BY <1>3, <1>5 DEF WorkInv, WorkTypes
  <2>2. NothingUnderWay
    BY <2>1, <1>3 DEF NothingUnderWay, Alone
  <2>3. RowIsTrue /\ EndIsTrue
    BY <2>1, <2>2 DEF OrderInv
  <2>4. action \in {"start", "resume"} => NoneRecords
    BY <1>3, <2>3 DEF Allowed, RowIsTrue, NoneRecords
  <2>5. RequestIsTrue(r)
    BY <1>1, <2>3, <2>4 DEF RequestIsTrue, RowIsTrue, NoneRecords
  <2>6. RequestIsTrue(r)' /\ r.pc # "rest"
    BY <1>1, <1>3, <2>5 DEF RequestIsTrue, NoneRecords
  <2> QED
    BY <1>2, <1>3, <2>1, <2>3, <2>6, OwnTurn
<1> QED
  BY <1>4, <1>5 DEF WorkInv

LEMMA BeginStep ==
  ASSUME WorkInv, NEW h \in Handlers, StartRecording(h)
  PROVE  WorkInv'
<1>1. handler[h] \in WorkSteps /\ handler[h].pc = "begin"
  BY DEF WorkInv, WorkTypes, StartRecording
<1>2. ~disturbed => OrderInv /\ Alone(h) /\ isLive /\ RequestIsTrue(handler[h]) /\ EndIsTrue
  BY <1>1 DEF WorkInv, OrderInv
<1>3. ~disturbed => NoneRecords /\ handler[h].action \in {"start", "resume"} /\ handler[h].read = NoEgress
  BY <1>1, <1>2 DEF RequestIsTrue
<1>4. CASE /\ hasRoom /\ begun < MaxEgresses /\ begun' = begun + 1
           /\ running' = running \cup {begun'}
           /\ handler' = [handler EXCEPT ![h].pc = "finish", ![h].new = begun']
  <2>1. begun' \in 1..MaxEgresses /\ begun' # NoEgress
    BY <1>4, CallWorkAssumption DEF WorkInv, WorkTypes
  <2>2. PICK r : r = [handler[h] EXCEPT !.pc = "finish", !.new = begun']
    OBVIOUS
  <2>3. /\ r \in WorkSteps /\ r.pc = "finish" /\ r.new = begun' /\ r.action = handler[h].action
        /\ r.read = handler[h].read
    BY <1>1, <2>1, <2>2 DEF WorkSteps, WorkPcs, Ids
  <2>4. handler' = [handler EXCEPT ![h] = r]
    BY <1>4, <2>2 DEF WorkInv, WorkTypes, WorkSteps
  <2>5. UNCHANGED <<isLive, hasRoom, recording, egress, ending, disturbed>>
    BY DEF StartRecording
  <2>6. WorkTypes' /\ RoomInv'
    BY <1>4, <2>1, <2>3, <2>4, <2>5, OnlyOwn DEF WorkInv, WorkTypes, RoomInv
  <2>7. ~disturbed => RequestIsTrue(r)'
    BY <1>3, <1>4, <2>1, <2>3, <2>5 DEF RequestIsTrue, NoneRecords
  <2> QED
    BY <1>2, <2>3, <2>4, <2>5, <2>6, <2>7, OwnTurn DEF WorkInv
<1>5. CASE Finish(h) /\ UNCHANGED <<running, begun>>
  <2>1. /\ handler' = [handler EXCEPT ![h] = Rest]
        /\ UNCHANGED <<isLive, hasRoom, recording, egress, running, begun, ending, disturbed>>
    BY <1>5 DEF Finish, StartRecording
  <2>2. WorkTypes' /\ RoomInv'
    BY <2>1, OnlyOwn, RestIsStep DEF WorkInv, WorkTypes, RoomInv
  <2>3. ~disturbed => RowIsTrue'
    BY <1>3, <2>1 DEF RowIsTrue, NoneRecords
  <2> QED
    BY <1>2, <2>1, <2>2, <2>3, OwnTurn, RestIsStep DEF WorkInv
<1> QED
  BY <1>4, <1>5 DEF StartRecording

LEMMA StopStep ==
  ASSUME WorkInv, NEW h \in Handlers, StopRecording(h)
  PROVE  WorkInv'
<1>1. handler[h] \in WorkSteps /\ handler[h].pc = "finish"
  BY DEF WorkInv, WorkTypes, StopRecording
<1>2. ~disturbed => OrderInv /\ Alone(h) /\ isLive /\ RequestIsTrue(handler[h]) /\ EndIsTrue
  BY <1>1 DEF WorkInv, OrderInv
<1>3. PICK r : r = [handler[h] EXCEPT !.pc = "set"]
  OBVIOUS
<1>4. /\ r \in WorkSteps /\ r.pc = "set" /\ r.new = handler[h].new /\ r.action = handler[h].action
      /\ r.read = handler[h].read
  BY <1>1, <1>3 DEF WorkSteps, WorkPcs
<1>5. /\ handler' = [handler EXCEPT ![h] = r] /\ running' = running \ {r.read}
      /\ UNCHANGED <<isLive, hasRoom, recording, egress, ending, disturbed, begun>>
  BY <1>3, <1>4 DEF StopRecording, Goto, Finished, WorkInv, WorkTypes, WorkSteps
<1>6. WorkTypes' /\ RoomInv'
  BY <1>4, <1>5, OnlyOwn DEF WorkInv, WorkTypes, RoomInv
<1>7. ~disturbed => RequestIsTrue(r)'
  BY <1>1, <1>2, <1>4, <1>5 DEF RequestIsTrue
<1> QED
  BY <1>2, <1>4, <1>5, <1>6, <1>7, OwnTurn DEF WorkInv

LEMMA SetStep ==
  ASSUME WorkInv, NEW h \in Handlers, SetRecording(h)
  PROVE  WorkInv'
<1>1. handler[h] \in WorkSteps /\ handler[h].pc = "set"
  BY DEF WorkInv, WorkTypes, SetRecording
<1>2. ~disturbed => OrderInv /\ Alone(h) /\ isLive /\ RequestIsTrue(handler[h]) /\ EndIsTrue
  BY <1>1 DEF WorkInv, OrderInv
<1>3. /\ handler' = [handler EXCEPT ![h] = Rest] /\ egress' = handler[h].new
      /\ recording' = IF handler[h].action = "pause" THEN "paused"
                      ELSE IF handler[h].new = NoEgress THEN "off" ELSE "on"
      /\ UNCHANGED <<isLive, hasRoom, running, ending, disturbed, begun>>
  BY DEF SetRecording, Finish
<1>4. WorkTypes' /\ RoomInv'
  BY <1>1, <1>3, OnlyOwn, RestIsStep DEF WorkInv, WorkTypes, RoomInv, WorkSteps
<1>5. ~disturbed => RowIsTrue'
  BY <1>1, <1>2, <1>3 DEF RequestIsTrue, RowIsTrue
<1> QED
  BY <1>2, <1>3, <1>4, <1>5, OwnTurn, RestIsStep DEF WorkInv

\* A handler that dies disturbs: nothing is claimed of the order afterwards.
LEMMA DieStep ==
  ASSUME WorkInv, NEW h \in Handlers, Die(h)
  PROVE  WorkInv'
  BY OnlyOwn, RestIsStep DEF Die, Finish, WorkInv, WorkTypes, RoomInv

-----------------------------------------------------------------------------
\* Flow.end, statement by statement.

LEMMA FinishStep ==
  ASSUME WorkInv, BeginEnd \/ EndSegment \/ SetOff \/ DeleteRoom \/ SetEnded
  PROVE  WorkInv'
<1> USE DEF BeginEnd, EndSegment, SetOff, DeleteRoom, SetEnded
<1>1. WorkTypes'
  <2>1. CASE BeginEnd
    BY <2>1 DEF WorkInv, WorkTypes
  <2>2. CASE EndSegment
    BY <2>2 DEF WorkInv, WorkTypes
  <2>3. CASE SetOff
    BY <2>3 DEF WorkInv, WorkTypes, Ids
  <2>4. CASE DeleteRoom
    BY <2>4 DEF WorkInv, WorkTypes
  <2>5. CASE SetEnded
    BY <2>5 DEF WorkInv, WorkTypes, Ids
  <2> QED
    BY <2>1, <2>2, <2>3, <2>4, <2>5
<1>2. RoomInv'
  BY DEF WorkInv, WorkTypes, RoomInv
<1>3. handler' = handler
  OBVIOUS
<1>4. ASSUME ~disturbed'
      PROVE  OrderInv /\ \A h \in Handlers : handler[h].pc = "rest"
  <2>1. CASE BeginEnd
    BY <1>4, <2>1 DEF WorkInv, WorkTypes
  <2>2. CASE ~BeginEnd
    <3>1. ending.pc # "rest" /\ ~disturbed
      BY <1>4, <2>2
    <3> QED
      BY <3>1 DEF WorkInv, OrderInv, Alone
  <2> QED
    BY <2>1, <2>2
<1>5. ASSUME ~disturbed' PROVE EndIsTrue'
  <2>1. ending.pc = "rest" => RowIsTrue
    BY <1>4, <1>5 DEF OrderInv, NothingUnderWay
  <2> QED
    BY <1>4, <1>5, <2>1 DEF OrderInv, EndIsTrue, RowIsTrue, NoneRecords, WorkInv, WorkTypes
<1>6. ASSUME ~disturbed', ending'.pc = "rest" PROVE RowIsTrue' /\ NoneRecords'
  <2>1. ending.pc = "ended"
    BY <1>6 DEF WorkInv, WorkTypes
  <2> QED
    BY <1>4, <1>6, <2>1 DEF OrderInv, EndIsTrue, RowIsTrue, NoneRecords
<1>7. ~disturbed' => OrderInv'
  BY <1>3, <1>4, <1>5, <1>6 DEF OrderInv, NothingUnderWay
<1> QED
  BY <1>1, <1>2, <1>7 DEF WorkInv

LEMMA WorkStep == WorkInv /\ [WorkNext]_workVars => WorkInv'
<1> SUFFICES ASSUME WorkInv, [WorkNext]_workVars PROVE WorkInv'
  OBVIOUS
<1>1. CASE UNCHANGED workVars
  <2>1. WorkTypes' /\ RoomInv'
    BY <1>1 DEF workVars, WorkInv, WorkTypes, RoomInv
  <2>2. OrderInv => OrderInv'
    BY <1>1 DEF workVars, OrderInv, Alone, RequestIsTrue, EndIsTrue, NothingUnderWay, RowIsTrue,
                NoneRecords
  <2> QED
    BY <1>1, <2>1, <2>2 DEF workVars, WorkInv
<1>2. CASE WorkNext
  BY <1>2, RequestStep, BeginStep, StopStep, SetStep, DieStep, FinishStep DEF WorkNext
<1> QED
  BY <1>1, <1>2

-----------------------------------------------------------------------------
\* At each await of an undisturbed Flow.recording or Flow.end, what records is what its
\* last statement left behind.
THEOREM WorkInvariant == WorkSpec => []WorkInv
  BY WorkInitInv, WorkStep, PTL DEF WorkSpec

\* At rest an undisturbed call records what its row says, and nothing records once a
\* call is over, also when requests overlapped or died (flow.ts:562-600).
THEOREM EgressIsKnownHolds == WorkSpec => []EgressIsKnown
<1>1. WorkInv => EgressIsKnown
  BY DEF WorkInv, RoomInv, OrderInv, RowIsTrue, NoneRecords, EgressIsKnown
<1> QED
  BY <1>1, WorkInvariant, PTL

-----------------------------------------------------------------------------
(***************************************************************************)
(* The transcript of an open call.  The invariant is a balance: a segment  *)
(* stored is on its way, shown, or was never heard, and no fetch returns   *)
(* more than was stored when it read the rows.                             *)
(***************************************************************************)
TextBag == [Texts -> Nat]

ViewTypes ==
  /\ stored \in TextBag /\ published \in TextBag /\ onSocket \in TextBag /\ shownLive \in TextBag
  /\ detail \in TextBag /\ unheard \in TextBag
  /\ DOMAIN fetching = 1..2 /\ fetching[2] \in TextBag

\* The balance of the text x.
Balanced(x) ==
  /\ stored[x] = published[x] + onSocket[x] + shownLive[x] + unheard[x]
  /\ detail[x] <= stored[x] /\ fetching[2][x] <= stored[x]

ViewInv == ViewTypes /\ \A x \in Texts : Balanced(x)

LEMMA ViewInitInv == ViewInit => ViewInv
  BY DEF ViewInit, ViewInv, ViewTypes, Balanced, TextBag, Nothing, Requested

LEMMA ViewStep ==
  ASSUME ViewInv, [ViewNext]_viewVars PROVE ViewInv'
<1>0. SUFFICES ASSUME ViewTypes, \A x \in Texts : Balanced(x)
               PROVE  ViewTypes' /\ \A x \in Texts : Balanced(x)'
  BY DEF ViewInv
<1>n. ASSUME NEW y \in Texts
      PROVE  /\ stored[y] \in Nat /\ published[y] \in Nat /\ onSocket[y] \in Nat /\ shownLive[y] \in Nat
             /\ detail[y] \in Nat /\ unheard[y] \in Nat /\ fetching[2][y] \in Nat
  BY <1>0 DEF ViewTypes, TextBag
<1> DEFINE Goal == ViewTypes' /\ \A x \in Texts : Balanced(x)'
<1>1. ASSUME NEW x \in Texts, Say(x) PROVE Goal
  <2>1. ViewTypes'
    BY <1>0, <1>1 DEF Say, ViewTypes, TextBag
  <2>2. ASSUME NEW y \in Texts PROVE Balanced(y)'
    <3>1. /\ stored'[y] = stored[y] + (IF y = x THEN 1 ELSE 0)
          /\ published'[y] = published[y] + (IF y = x THEN 1 ELSE 0)
          /\ UNCHANGED <<onSocket, shownLive, detail, unheard, fetching>>
      BY <1>0, <1>1, <1>n DEF Say, ViewTypes, TextBag
    <3> QED BY <1>0, <1>n, <3>1 DEF Balanced
  <2> QED BY <2>1, <2>2
<1>2. ASSUME NEW x \in Texts, Deliver(x) PROVE Goal
  <2>1. /\ published' = [published EXCEPT ![x] = @ - 1] /\ published[x] > 0
        /\ UNCHANGED <<stored, shownLive, detail, fetching>>
    BY <1>2 DEF Deliver
  <2>2. CASE onSocket' = [onSocket EXCEPT ![x] = @ + 1] /\ UNCHANGED unheard
    <3>1. ViewTypes'
      BY <1>0, <1>n, <2>1, <2>2 DEF ViewTypes, TextBag
    <3>2. ASSUME NEW y \in Texts PROVE Balanced(y)'
      <4>1. /\ published'[y] = published[y] - (IF y = x THEN 1 ELSE 0)
            /\ onSocket'[y] = onSocket[y] + (IF y = x THEN 1 ELSE 0)
        BY <1>0, <1>n, <2>1, <2>2 DEF ViewTypes, TextBag
      <4> QED BY <1>0, <1>n, <2>1, <2>2, <4>1 DEF Balanced
    <3> QED BY <3>1, <3>2
  <2>3. CASE unheard' = [unheard EXCEPT ![x] = @ + 1] /\ UNCHANGED onSocket
    <3>1. ViewTypes'
      BY <1>0, <1>n, <2>1, <2>3 DEF ViewTypes, TextBag
    <3>2. ASSUME NEW y \in Texts PROVE Balanced(y)'
      <4>1. /\ published'[y] = published[y] - (IF y = x THEN 1 ELSE 0)
            /\ unheard'[y] = unheard[y] + (IF y = x THEN 1 ELSE 0)
        BY <1>0, <1>n, <2>1, <2>3 DEF ViewTypes, TextBag
      <4> QED BY <1>0, <1>n, <2>1, <2>3, <4>1 DEF Balanced
    <3> QED BY <3>1, <3>2
  <2> QED BY <1>2, <2>2, <2>3 DEF Deliver
<1>3. ASSUME NEW x \in Texts, HearSegment(x) PROVE Goal
  <2>1. ViewTypes'
    BY <1>0, <1>n, <1>3 DEF HearSegment, ViewTypes, TextBag
  <2>2. ASSUME NEW y \in Texts PROVE Balanced(y)'
    <3>1. /\ onSocket'[y] = onSocket[y] - (IF y = x THEN 1 ELSE 0)
          /\ shownLive'[y] = shownLive[y] + (IF y = x THEN 1 ELSE 0)
          /\ UNCHANGED <<stored, published, detail, unheard, fetching>>
      BY <1>0, <1>3, <1>n DEF HearSegment, ViewTypes, TextBag
    <3> QED BY <1>0, <1>n, <3>1, Z3 DEF Balanced
  <2> QED BY <2>1, <2>2
<1>4. CASE HearSubscribe \/ SocketUp \/ UNCHANGED viewVars
  BY <1>0, <1>4 DEF HearSubscribe, SocketUp, viewVars, ViewTypes, Balanced
<1>5. CASE SocketCut
  <2>1. ViewTypes'
    BY <1>0, <1>n, <1>5 DEF SocketCut, Nothing, ViewTypes, TextBag
  <2>2. ASSUME NEW y \in Texts PROVE Balanced(y)'
    <3>1. /\ onSocket'[y] = 0 /\ unheard'[y] = unheard[y] + onSocket[y]
          /\ UNCHANGED <<stored, published, shownLive, detail, fetching>>
      BY <1>5 DEF SocketCut, Nothing
    <3> QED BY <1>0, <1>n, <3>1 DEF Balanced
  <2> QED BY <2>1, <2>2
<1>6. CASE Refetch \/ ReadRows \/ ShowRows
  <2>1. UNCHANGED <<stored, published, onSocket, shownLive, unheard>>
    BY <1>6 DEF Refetch, ReadRows, ShowRows
  <2>2. Nothing \in TextBag /\ \A y \in Texts : Nothing[y] = 0
    BY DEF Nothing, TextBag
  <2>3. detail' \in {detail, fetching[2]} /\ DOMAIN fetching' = 1..2
        /\ fetching'[2] \in {Nothing, stored, fetching[2]}
    BY <1>6 DEF Refetch, ReadRows, ShowRows
  <2>4. ViewTypes'
    BY <1>0, <2>1, <2>2, <2>3 DEF ViewTypes
  <2>5. ASSUME NEW y \in Texts PROVE Balanced(y)'
    BY <1>0, <1>n, <2>1, <2>2, <2>3 DEF Balanced
  <2> QED BY <2>4, <2>5
<1> QED BY <1>1, <1>2, <1>3, <1>4, <1>5, <1>6 DEF ViewNext

\* The balance holds in every reachable state.
THEOREM ViewInvariant == ViewSpec => []ViewInv
<1>1. ViewInv /\ [ViewNext]_viewVars => ViewInv'
  BY ViewStep
<1> QED BY ViewInitInv, <1>1, PTL DEF ViewSpec

\* The merged transcript lists no segment twice, and all of them once every frame has
\* arrived, whatever the fetches saw (CallPage.tsx:87-103).
THEOREM TranscriptIsWholeHolds == ViewSpec => []TranscriptIsWhole
<1>1. ASSUME ViewInv, NEW x \in Texts
      PROVE  /\ Transcript(x) <= stored[x]
             /\ published[x] = 0 /\ onSocket[x] = 0 /\ unheard[x] = 0 => Transcript(x) = stored[x]
  <2>1. /\ stored[x] \in Nat /\ published[x] \in Nat /\ onSocket[x] \in Nat
        /\ shownLive[x] \in Nat /\ detail[x] \in Nat /\ unheard[x] \in Nat
    BY <1>1 DEF ViewInv, ViewTypes, TextBag
  <2>2. stored[x] = published[x] + onSocket[x] + shownLive[x] + unheard[x] /\ detail[x] <= stored[x]
    BY <1>1 DEF ViewInv, Balanced
  <2>3. Transcript(x) = detail[x] + (IF shownLive[x] > detail[x] THEN shownLive[x] - detail[x] ELSE 0)
    BY DEF Transcript, Uncaught
  <2> QED BY <2>1, <2>2, <2>3, Z3
<1>2. ViewInv => TranscriptIsWhole
  BY <1>1 DEF TranscriptIsWhole
<1> QED BY ViewInvariant, <1>2, PTL

\* What the bound on segments leaves of the balance: no row counts more than was said.
ViewBounds ==
  /\ said \in 0..MaxSaid /\ listening \in {"queued", "sent", "heard", "gone"}
  /\ \A x \in Texts : stored[x] <= said

LEMMA ViewBoundsStep ==
  ASSUME ViewInv, ViewBounds, [ViewNext]_viewVars PROVE ViewBounds'
<1>1. ASSUME NEW x \in Texts, Say(x) PROVE ViewBounds'
  <2>1. /\ said' = said + 1 /\ said < MaxSaid /\ UNCHANGED listening
        /\ \A y \in Texts : stored'[y] = stored[y] + (IF y = x THEN 1 ELSE 0) /\ stored[y] \in Nat
    BY <1>1 DEF Say, ViewInv, ViewTypes, TextBag
  <2> QED
    BY <2>1, CallViewAssumption DEF ViewBounds
<1>2. CASE UNCHANGED <<stored, said>> /\ listening' \in {listening, "sent", "heard", "gone"}
  BY <1>2 DEF ViewBounds
<1> QED
  BY <1>1, <1>2 DEF ViewNext, Deliver, HearSegment, HearSubscribe, SocketUp, SocketCut, Refetch,
     ReadRows, ShowRows, viewVars

\* Segments stored, on their way, shown or lost never count more than was said.
THEOREM ViewTypeHolds == ViewSpec => []ViewTypeOK
<1>1. ViewInit => ViewBounds
  BY CallViewAssumption DEF ViewInit, ViewBounds, Nothing
<1>2. ViewInv /\ ViewInv' /\ ViewBounds /\ [ViewNext]_viewVars => ViewBounds'
  BY ViewBoundsStep
<1>3. ASSUME ViewInv, ViewBounds PROVE ViewTypeOK
  <2>1. ASSUME NEW x \in Texts
        PROVE  /\ stored[x] \in 0..MaxSaid /\ published[x] \in 0..MaxSaid
               /\ onSocket[x] \in 0..MaxSaid /\ shownLive[x] \in 0..MaxSaid
               /\ detail[x] \in 0..MaxSaid /\ unheard[x] \in 0..MaxSaid
    <3>1. /\ stored[x] \in Nat /\ published[x] \in Nat /\ onSocket[x] \in Nat
          /\ shownLive[x] \in Nat /\ detail[x] \in Nat /\ unheard[x] \in Nat
      BY <1>3 DEF ViewInv, ViewTypes, TextBag
    <3>2. /\ stored[x] = published[x] + onSocket[x] + shownLive[x] + unheard[x]
          /\ detail[x] <= stored[x] /\ stored[x] <= said /\ said \in 0..MaxSaid
      BY <1>3 DEF ViewInv, Balanced, ViewBounds
    <3> QED
      BY <3>1, <3>2, CallViewAssumption
  <2> QED
    BY <1>3, <2>1 DEF ViewInv, ViewTypes, ViewBounds, ViewTypeOK, TextBag
<1> QED
  BY <1>1, <1>2, <1>3, ViewInvariant, PTL DEF ViewSpec

-----------------------------------------------------------------------------
(***************************************************************************)
(* The team card.  A notice carries no data and snapshots may overtake each *)
(* other: the invariant says which snapshot in line is the newest.         *)
(***************************************************************************)
TeamAnswers == [rows: Team, late: BOOLEAN]

\* The last snapshot in line is newer than every write, unless it was pushed already:
\* then those still in line are late, and every desk shows the table or a late one.
NewestInLine ==
  /\ Len(snapshots) > 0
  /\ ~snapshots[Len(snapshots)].late /\ snapshots[Len(snapshots)].rows = states

NewestPushed ==
  /\ \A i \in 1..Len(snapshots) : snapshots[i].late
  /\ \A a \in Staff : team[a] = Shut \/ behind[a] \/ team[a] = states

TeamInv ==
  /\ TeamTypeOK
  /\ notices \in Nat /\ queries \in Nat /\ moves \in Nat /\ snapshots \in Seq(TeamAnswers)
  /\ behind \in [Staff -> BOOLEAN]
  /\ notices = 0 /\ queries = 0 => NewestInLine \/ NewestPushed

LEMMA RowsOfTeam ==
  /\ Gone \in AgentPresence
  /\ \A state \in AgentState, c \in Worked \cup {NoWork} : In(state, c) \in AgentPresence
  BY DEF Gone, In, AgentPresence, AgentState

LEMMA TeamInitInv == TeamInit => TeamInv
<1> SUFFICES ASSUME TeamInit PROVE TeamInv
  OBVIOUS
<1>1. states \in Team /\ team \in [Staff -> Team \cup {Shut}]
  BY RowsOfTeam DEF TeamInit, Team
<1>2. TeamTypeOK
  BY <1>1 DEF TeamInit, TeamTypeOK, Resting
<1>3. snapshots \in Seq(TeamAnswers) /\ Len(snapshots) = 0
  BY DEF TeamInit
<1>4. NewestPushed
  BY <1>3 DEF TeamInit, NewestPushed
<1> QED
  BY <1>2, <1>3, <1>4 DEF TeamInit, TeamInv

\* A write is announced, so nothing is claimed of the desks until its snapshot.
LEMMA Written ==
  ASSUME TeamInv, NEW a \in Staff, NEW p \in AgentPresence, Enter(a, p)
  PROVE  states' \in Team /\ notices' \in Nat /\ notices' > 0 /\ moves' \in Nat
  BY DEF TeamInv, TeamTypeOK, Enter, Team

\* Between the desks nothing moves.
LEMMA OwnRow ==
  ASSUME TeamInv, NEW a \in Staff
  PROVE  /\ Mine(a) \in AgentPresence /\ states[a] \in AgentPresence
         /\ Mine(a).call \in Worked \cup {NoWork} /\ states[a].call \in Worked \cup {NoWork}
         /\ states[a].state \in AgentState \cup {"offline"}
         /\ [states[a] EXCEPT !.extended = TRUE] \in AgentPresence
<1>1. Mine(a) \in AgentPresence /\ states[a] \in AgentPresence
  BY RowsOfTeam DEF TeamInv, TeamTypeOK, Mine, Team
<1> QED
  BY <1>1 DEF AgentPresence

LEMMA WriteStep ==
  ASSUME TeamInv, NEW a \in Staff, NEW p \in AgentPresence, Enter(a, p),
         UNCHANGED <<pushVars, coded, required>>,
         finishing' \in [Staff -> [pc: {"rest", "asked", "checked"}, call: Worked \cup {NoWork}]]
  PROVE  TeamInv'
  BY Written DEF TeamInv, TeamTypeOK, pushVars

LEMMA MarkedLate ==
  ASSUME NEW r \in TeamAnswers
  PROVE  LET old == [r EXCEPT !.late = TRUE]
         IN  old \in TeamAnswers /\ old.rows = r.rows /\ old.late = TRUE
  BY DEF TeamAnswers

LEMMA TeamStep == TeamInv /\ [TeamNext]_teamVars => TeamInv'
<1> SUFFICES ASSUME TeamInv, [TeamNext]_teamVars PROVE TeamInv'
  OBVIOUS
<1>t. TeamTypeOK
  BY DEF TeamInv
<1>f. finishing \in [Staff -> [pc: {"rest", "asked", "checked"}, call: Worked \cup {NoWork}]]
  BY <1>t DEF TeamTypeOK
<1>1. ASSUME NEW a \in Staff, Connect(a) PROVE TeamInv'
  <2>1. In("not_ready", NoWork) \in AgentPresence
    BY RowsOfTeam DEF AgentState
  <2>2. states' \in Team /\ notices' \in Nat /\ notices' > 0 /\ moves' \in Nat
    BY <1>1, <2>1, Written DEF Connect
  <2>3. team' \in [Staff -> Team \cup {Shut}] /\ behind' \in [Staff -> BOOLEAN]
    BY <1>1, <1>t, RowsOfTeam DEF Connect, TeamInv, TeamTypeOK, Team
  <2> QED
    BY <1>1, <2>2, <2>3 DEF Connect, TeamInv, TeamTypeOK
<1>2. ASSUME NEW a \in Staff, Disconnect(a) PROVE TeamInv'
  <2>2. states' \in Team /\ notices' \in Nat /\ notices' > 0 /\ moves' \in Nat
    BY <1>2, RowsOfTeam, Written DEF Disconnect
  <2>3. team' \in [Staff -> Team \cup {Shut}] /\ behind' \in [Staff -> BOOLEAN]
    BY <1>2, <1>t DEF Disconnect, TeamInv, TeamTypeOK
  <2> QED
    BY <1>2, <2>2, <2>3 DEF Disconnect, TeamInv, TeamTypeOK
<1>3. ASSUME NEW a \in Staff, CallOver(a) PROVE TeamInv'
  <2>1. /\ In("acw", states[a].call) \in AgentPresence
        /\ In("ready", NoWork) \in AgentPresence
    BY RowsOfTeam, OwnRow DEF AgentState
  <2> QED
    BY <1>3, <1>f, <2>1, WriteStep DEF CallOver
<1>4. ASSUME NEW a \in Staff, WrapUpExpires(a) PROVE TeamInv'
  <2>1. In("ready", NoWork) \in AgentPresence
    BY RowsOfTeam DEF AgentState
  <2> QED
    BY <1>4, <1>f, <2>1, WriteStep DEF WrapUpExpires
<1>5. ASSUME NEW a \in Staff, Extend(a) PROVE TeamInv'
  BY <1>5, <1>f, OwnRow, WriteStep DEF Extend
<1>6. ASSUME NEW a \in Staff, Dispose(a) PROVE TeamInv'
  <2>1. Mine(a).call \in Worked
    BY <1>6, OwnRow DEF Dispose
  <2>2. coded' \subseteq Worked
    BY <1>6, <1>t, <2>1 DEF Dispose, TeamTypeOK
  <2> QED
    BY <1>6, <2>2 DEF Dispose, TeamInv, TeamTypeOK, pushVars, NewestInLine, NewestPushed
<1>7. ASSUME NEW a \in Staff, AskDone(a) PROVE TeamInv'
  <2>1. finishing' \in [Staff -> [pc: {"rest", "asked", "checked"}, call: Worked \cup {NoWork}]]
    BY <1>7, <1>f, OwnRow DEF AskDone
  <2> QED
    BY <1>7, <2>1 DEF AskDone, TeamInv, TeamTypeOK, pushVars, NewestInLine, NewestPushed
<1>8. ASSUME NEW a \in Staff, CheckCode(a) PROVE TeamInv'
  <2>1. finishing' \in [Staff -> [pc: {"rest", "asked", "checked"}, call: Worked \cup {NoWork}]]
    BY <1>8, <1>f DEF CheckCode, Resting
  <2> QED
    BY <1>8, <2>1 DEF CheckCode, TeamInv, TeamTypeOK, pushVars, NewestInLine, NewestPushed
<1>9. ASSUME NEW a \in Staff, Done(a) PROVE TeamInv'
  <2>1. finishing' \in [Staff -> [pc: {"rest", "asked", "checked"}, call: Worked \cup {NoWork}]]
    BY <1>9, <1>f DEF Done, Resting
  <2>2. CASE Enter(a, In("ready", NoWork))
    <3>1. In("ready", NoWork) \in AgentPresence
      BY RowsOfTeam DEF AgentState
    <3> QED
      BY <1>9, <2>1, <2>2, <3>1, WriteStep DEF Done
  <2>3. CASE UNCHANGED <<states, notices, moves>>
    BY <1>9, <2>1, <2>3 DEF Done, TeamInv, TeamTypeOK, pushVars, NewestInLine, NewestPushed
  <2> QED
    BY <1>9, <2>2, <2>3 DEF Done
<1>10. ASSUME NEW a \in Staff, NEW c \in Worked, TakesCall(a, c) PROVE TeamInv'
  <2>1. In("busy", c) \in AgentPresence
    BY RowsOfTeam DEF AgentState
  <2> QED
    BY <1>10, <1>f, <2>1, WriteStep DEF TakesCall
<1>11. ASSUME NEW a \in Staff, NEW state \in {"ready", "not_ready"},
              SetOwnState(a, state) \/ \E d \in Staff : ForceState(d, a, state)
       PROVE  TeamInv'
  <2>1. In(state, NoWork) \in AgentPresence
    BY RowsOfTeam DEF AgentState
  <2> QED
    BY <1>11, <1>f, <2>1, WriteStep DEF SetOwnState, ForceState
<1>12. CASE HearNotice
  <2>1. notices' \in Nat /\ queries' \in Nat /\ queries' > 0
    BY <1>12 DEF HearNotice, TeamInv
  <2> QED
    BY <1>12, <2>1 DEF HearNotice, TeamInv, TeamTypeOK
<1>13. CASE Snapshot
  <2> DEFINE new == [rows |-> states, late |-> FALSE]
  <2>1. new \in TeamAnswers
    BY <1>t DEF TeamTypeOK, TeamAnswers
  <2>2. queries' \in Nat /\ UNCHANGED <<states, notices, team, behind, coded, required, finishing, moves>>
    BY <1>13 DEF Snapshot, TeamInv
  <2>3. snapshots \in Seq(TeamAnswers) /\ snapshots' = Append(snapshots, new)
    BY <1>13 DEF Snapshot, TeamInv
  <2> HIDE DEF new
  <2>4. snapshots' \in Seq(TeamAnswers) /\ Len(snapshots') > 0 /\ snapshots'[Len(snapshots')] = new
    BY <2>1, <2>3
  <2>5. NewestInLine'
    BY <2>2, <2>4 DEF NewestInLine, new
  <2> QED
    BY <2>2, <2>4, <2>5 DEF TeamInv, TeamTypeOK
<1>14. ASSUME NEW i \in DOMAIN snapshots, Push(i) PROVE TeamInv'
  <2> DEFINE n == Len(snapshots)
             seen == [j \in DOMAIN snapshots |->
                        IF j < i THEN [snapshots[j] EXCEPT !.late = TRUE] ELSE snapshots[j]]
  <2>1. snapshots \in Seq(TeamAnswers) /\ DOMAIN snapshots = 1..n /\ n \in Nat /\ i \in 1..n
    BY DEF TeamInv
  <2>2. ASSUME NEW j \in 1..n
        PROVE  /\ snapshots[j] \in TeamAnswers /\ seen[j] \in TeamAnswers
               /\ seen[j] = (IF j < i THEN [snapshots[j] EXCEPT !.late = TRUE] ELSE snapshots[j])
               /\ seen[j].rows = snapshots[j].rows
               /\ snapshots[j].late => seen[j].late
    <3>1. snapshots[j] \in TeamAnswers
      BY <2>1
    <3>2. seen[j] = IF j < i THEN [snapshots[j] EXCEPT !.late = TRUE] ELSE snapshots[j]
      BY <2>1
    <3>3. LET old == [snapshots[j] EXCEPT !.late = TRUE]
          IN  old \in TeamAnswers /\ old.rows = snapshots[j].rows /\ old.late = TRUE
      BY <3>1, MarkedLate
    <3>4. CASE j < i
      BY <3>1, <3>2, <3>3, <3>4
    <3>5. CASE ~(j < i)
      BY <3>1, <3>2, <3>5
    <3> QED
      BY <3>4, <3>5
  <2>3. seen \in Seq(TeamAnswers) /\ Len(seen) = n
    BY <2>1, <2>2
  <2>4. snapshots' = SubSeq(seen, 1, i - 1) \o SubSeq(seen, i + 1, Len(seen))
    BY <1>14 DEF Push, RemoveAt
  <2>5. UNCHANGED <<states, notices, queries, coded, required, finishing, moves>>
    BY <1>14 DEF Push
  <2>6. team' = [a \in Staff |-> IF team[a] = Shut THEN Shut ELSE snapshots[i].rows]
    BY <1>14 DEF Push
  <2>7. behind' = [a \in Staff |-> team[a] # Shut /\ snapshots[i].late]
    BY <1>14 DEF Push
  <2>8. team' \in [Staff -> Team \cup {Shut}] /\ behind' \in [Staff -> BOOLEAN]
    BY <2>1, <2>2, <2>6, <2>7 DEF TeamAnswers
  <2> HIDE DEF seen
  <2>9. /\ snapshots' \in Seq(TeamAnswers) /\ Len(snapshots') = n - 1
        /\ \A j \in 1..(n - 1) : snapshots'[j] = seen[IF j < i THEN j ELSE j + 1]
    <3>1. /\ SubSeq(seen, 1, i - 1) \in Seq(TeamAnswers) /\ Len(SubSeq(seen, 1, i - 1)) = i - 1
          /\ SubSeq(seen, i + 1, n) \in Seq(TeamAnswers) /\ Len(SubSeq(seen, i + 1, n)) = n - i
          /\ \A j \in 1..(i - 1) : SubSeq(seen, 1, i - 1)[j] = seen[j]
          /\ \A j \in 1..(n - i) : SubSeq(seen, i + 1, n)[j] = seen[i + j]
      BY <2>1, <2>3
    <3> DEFINE p == SubSeq(seen, 1, i - 1)
               q == SubSeq(seen, i + 1, n)
    <3> HIDE DEF p, q
    <3>2. snapshots' = p \o q
      BY <2>3, <2>4 DEF p, q
    <3>3. snapshots' \in Seq(TeamAnswers) /\ Len(snapshots') = Len(p) + Len(q)
      BY <3>1, <3>2 DEF p, q
    <3>4. Len(p) = i - 1 /\ Len(q) = n - i
      BY <3>1 DEF p, q
    <3>5. p \in Seq(TeamAnswers) /\ q \in Seq(TeamAnswers)
      BY <3>1 DEF p, q
    <3>6. \A j \in 1..Len(p) + Len(q) :
            (p \o q)[j] = IF j <= Len(p) THEN p[j] ELSE q[j - Len(p)]
      BY <3>5, ConcatProperties
    <3>7. ASSUME NEW j \in 1..(n - 1) PROVE snapshots'[j] = seen[IF j < i THEN j ELSE j + 1]
      <4>1. CASE j < i
        <5>1. snapshots'[j] = p[j]
          <6>1. j \in 1..Len(p) + Len(q) /\ j <= Len(p)
            BY <4>1, <3>4, <2>1
          <6> QED
            BY <6>1, <3>2, <3>6
        <5> QED
          BY <4>1, <5>1, <3>1, <2>1 DEF p
      <4>2. CASE ~(j < i)
        <5>1. snapshots'[j] = q[j - (i - 1)]
          <6>1. j \in 1..Len(p) + Len(q) /\ ~(j <= Len(p))
            BY <4>2, <3>4, <2>1
          <6> QED
            BY <6>1, <3>2, <3>4, <3>6
        <5>2. j - (i - 1) \in 1..(n - i) /\ i + (j - (i - 1)) = j + 1
          BY <4>2, <2>1
        <5> QED
          BY <4>2, <5>1, <5>2, <3>1 DEF q
      <4> QED
        BY <4>1, <4>2
    <3> QED
      BY <3>3, <3>4, <3>7, <2>1
  <2>10. ASSUME notices' = 0, queries' = 0 PROVE NewestInLine' \/ NewestPushed'
    <3>1. CASE NewestInLine /\ i < n
      <4>1. snapshots'[n - 1] = seen[n] /\ seen[n] = snapshots[n]
        <5>1. n - 1 \in 1..(n - 1) /\ ~(n - 1 < i) /\ n - 1 + 1 = n /\ n \in 1..n
          BY <3>1, <2>1
        <5>2. snapshots'[n - 1] = seen[n]
          BY <5>1, <2>9
        <5>3. seen[n] = snapshots[n]
          <6>1. ~(n < i)
            BY <3>1, <2>1
          <6> QED
            BY <6>1, <5>1, <2>2
        <5> QED
          BY <5>2, <5>3
      <4> QED
        BY <3>1, <4>1, <2>1, <2>5, <2>9 DEF NewestInLine
    <3>2. CASE NewestInLine /\ i = n
      <4>1. ASSUME NEW j \in 1..(n - 1) PROVE snapshots'[j].late
        <5>1. j < i /\ j \in 1..n /\ snapshots'[j] = seen[j]
          BY <3>2, <2>1, <2>9
        <5> QED
          BY <5>1, <2>2 DEF TeamAnswers
      <4> QED
        BY <3>2, <4>1, <2>5, <2>6, <2>9 DEF NewestInLine, NewestPushed
    <3>3. CASE NewestPushed
      <4>1. ASSUME NEW j \in 1..(n - 1) PROVE snapshots'[j].late
        <5>1. PICK k \in 1..n : snapshots'[j] = seen[k]
          <6>1. (IF j < i THEN j ELSE j + 1) \in 1..n
            BY <2>1
          <6> QED
            BY <6>1, <2>9
        <5> QED
          BY <3>3, <5>1, <2>2 DEF NewestPushed
      <4> QED
        BY <3>3, <4>1, <2>1, <2>6, <2>7, <2>9 DEF NewestPushed
    <3> QED
      BY <2>1, <2>5, <2>10, <3>1, <3>2, <3>3 DEF TeamInv
  <2> QED
    BY <1>t, <2>5, <2>8, <2>9, <2>10 DEF TeamInv, TeamTypeOK
<1>15. CASE UNCHANGED teamVars
  BY <1>15 DEF teamVars, TeamInv, TeamTypeOK, NewestInLine, NewestPushed
<1> QED
  BY <1>1, <1>2, <1>3, <1>4, <1>5, <1>6, <1>7, <1>8, <1>9, <1>10, <1>11, <1>12, <1>13, <1>14, <1>15
  DEF TeamNext


-----------------------------------------------------------------------------
\* While no notice and no query is under way, the newest of the snapshots still to be
\* pushed is the table, or it was pushed and the others are marked late.
THEOREM TeamInvariant == TeamSpec => []TeamInv
  BY TeamInitInv, TeamStep, PTL DEF TeamSpec

\* When every announcement was queried and every answer pushed, each open desk shows
\* the table of states, except one that a newer snapshot reached before an older one
\* or that missed a push on its reconnect (realtime.ts; TeamCard.tsx).
THEOREM TeamIsShownHolds == TeamSpec => []TeamIsShown
<1>1. TeamInv => TeamIsShown
  <2> SUFFICES ASSUME TeamInv, notices = 0, queries = 0, snapshots = <<>>
               PROVE  NewestPushed
    BY DEF TeamIsShown, NewestPushed
  <2>1. ~(Len(snapshots) > 0)
    BY EmptySeq
  <2> QED
    BY <2>1 DEF TeamInv, NewestInLine
<1> QED
  BY <1>1, TeamInvariant, PTL

-----------------------------------------------------------------------------
(***************************************************************************)
(* Sockets.  The invariant ties three things that handlers change apart: the *)
(* map of connections of an instance, the sockets themselves and the row of *)
(* the presence table.                                                     *)
(***************************************************************************)
\* Sockets of each instance whose close handler is set and has not run.
Handled == [i \in Instances |->
  {s \in Sockets : socket[s].open /\ socket[s].on = i /\ socket[s].pc \in {"connect", "serve"}}]

\* The handlers know the sockets of their instance.  A desk that is served has a row;
\* and the instance a row names has a socket left, or is about to delete it.
SocketsInv ==
  /\ SocketsTypeOK /\ crossed \in BOOLEAN
  /\ asked \in [Sockets -> SUBSET Calls] /\ subscribed \in [Sockets -> SUBSET Calls]
  /\ \A s \in Sockets : /\ socket[s].pc \in {"session", "connect", "serve"} => socket[s].on \in Instances
                        /\ socket[s].open => socket[s].pc \in {"session", "connect", "serve"}
                        /\ socket[s].pc = "serve" => subscribed[s] = asked[s]
  /\ \A d \in deletes : d.beside = {}
  /\ missed = {} => \A i \in Instances : conns[i] = Handled[i]
  /\ ~crossed /\ Serving # {} => presence # NoRow
  /\ ~crossed /\ missed = {} /\ presence \in up =>
       Handled[presence] # {} \/ \E d \in deletes : d.on = presence

SocketRow == [pc: {"unused", "session", "connect", "serve", "refused"},
              on: Instances \cup {NoRow}, open: BOOLEAN]

LEMMA SocketsTypes ==
  ASSUME SocketsInv
  PROVE  /\ socket \in [Sockets -> SocketRow] /\ conns \in [Instances -> SUBSET Sockets]
         /\ deletes \subseteq [on: Instances, beside: SUBSET Sockets]
         /\ up \subseteq Instances /\ logouts \subseteq Instances
         /\ missed \subseteq Sockets /\ presence \in Instances \cup {NoRow}
  BY DEF SocketsInv, SocketsTypeOK, SocketRow

LEMMA SocketSet ==
  ASSUME SocketsInv, NEW s \in Sockets, NEW r \in SocketRow, socket' = [socket EXCEPT ![s] = r]
  PROVE  /\ \A t \in Sockets : t # s => socket'[t] = socket[t]
         /\ socket'[s] = r /\ socket' \in [Sockets -> SocketRow]
  BY SocketsTypes

LEMMA SocketsInitInv == SocketsInit => SocketsInv
<1> SUFFICES ASSUME SocketsInit PROVE SocketsInv
  OBVIOUS
<1>1. \A s \in Sockets : socket[s].pc = "unused" /\ ~socket[s].open
  BY DEF SocketsInit, Unused
<1>2. SocketsTypeOK
  BY DEF SocketsInit, SocketsTypeOK, Unused
<1>3. \A i \in Instances : conns[i] = {} /\ Handled[i] = {}
  BY <1>1 DEF SocketsInit, Handled
<1>4. presence = NoRow /\ NoRow \notin up /\ Serving = {}
  BY <1>1, DeskSocketsAssumption DEF SocketsInit, Serving
<1> QED
  BY <1>1, <1>2, <1>3, <1>4 DEF SocketsInit, SocketsInv

LEMMA UpgradeStep ==
  ASSUME SocketsInv, NEW s \in Sockets, NEW i \in Instances, Upgrade(s, i) PROVE SocketsInv'
<1> DEFINE new == [pc |-> "session", on |-> i, open |-> TRUE]
<1>1. /\ \A t \in Sockets : socket'[t] = IF t = s THEN new ELSE socket[t]
      /\ UNCHANGED <<up, conns, presence, deletes, asked, subscribed, logouts, missed, crossed>>
      /\ socket[s].pc = "unused" /\ ~socket[s].open
  BY SocketsTypes DEF Upgrade, Unused
<1>2. socket' \in [Sockets -> SocketRow]
  BY SocketsTypes DEF Upgrade, SocketRow
<1>3. Handled' = Handled
  BY <1>1 DEF Handled
<1>4. Serving' = Serving
  BY <1>1 DEF Serving
<1>5. SocketsTypeOK'
  BY <1>1, <1>2 DEF SocketsInv, SocketsTypeOK, SocketRow
<1> QED
  BY <1>1, <1>3, <1>4, <1>5, SocketsTypes DEF SocketsInv

LEMMA AuthenticatedStep ==
  ASSUME SocketsInv, NEW s \in Sockets, Authenticated(s) PROVE SocketsInv'
<1>1. /\ socket[s].pc = "session" /\ socket[s] \in SocketRow /\ socket[s].on \in Instances
      /\ UNCHANGED <<up, presence, deletes, asked, subscribed, logouts, crossed>>
  BY SocketsTypes DEF Authenticated, SocketsInv
<1>2. CASE /\ socket' = [socket EXCEPT ![s].pc = "connect"]
           /\ conns' = [conns EXCEPT ![socket[s].on] = @ \cup {s}]
           /\ missed' = IF socket[s].open THEN missed ELSE missed \cup {s}
  <2>1. /\ \A t \in Sockets : t # s => socket'[t] = socket[t]
        /\ socket'[s].pc = "connect" /\ socket'[s].on = socket[s].on /\ socket'[s].open = socket[s].open
        /\ socket' \in [Sockets -> SocketRow]
    <3> DEFINE r == [socket[s] EXCEPT !.pc = "connect"]
    <3>1. socket' = [socket EXCEPT ![s] = r]
      BY <1>1, <1>2, SocketsTypes
    <3>2. r \in SocketRow /\ r.pc = "connect" /\ r.on = socket[s].on /\ r.open = socket[s].open
      BY <1>1 DEF SocketRow
    <3> HIDE DEF r
    <3> QED
      BY <1>1, <3>1, <3>2, SocketSet
  <2>2. /\ conns' \in [Instances -> SUBSET Sockets]
        /\ \A j \in Instances : conns'[j] = IF j = socket[s].on THEN conns[j] \cup {s} ELSE conns[j]
    BY <1>1, <1>2, SocketsTypes
  <2>3. missed' \subseteq Sockets /\ (missed' = {} => missed = {} /\ socket[s].open)
    BY <1>2, SocketsTypes
  <2>4. Serving' = Serving
    BY <1>1, <2>1 DEF Serving
  <2>5. \A j \in Instances :
          Handled'[j] = IF j = socket[s].on /\ socket[s].open THEN Handled[j] \cup {s} ELSE Handled[j]
    BY <1>1, <2>1 DEF Handled
  <2>6. SocketsTypeOK'
    BY <1>1, <2>1, <2>2, <2>3 DEF SocketsInv, SocketsTypeOK, SocketRow
  <2>7. missed' = {} => \A j \in Instances : conns'[j] = Handled'[j]
    BY <2>2, <2>3, <2>5 DEF SocketsInv
  <2>8. ASSUME ~crossed, missed' = {}, presence \in up
        PROVE  Handled'[presence] # {} \/ \E d \in deletes : d.on = presence
    <3>1. presence \in Instances /\ missed = {}
      BY <2>3, <2>8, SocketsTypes
    <3>2. Handled[presence] \subseteq Handled'[presence]
      BY <2>5, <3>1
    <3> QED
      BY <2>8, <3>1, <3>2 DEF SocketsInv
  <2> QED
    BY <1>1, <2>1, <2>4, <2>6, <2>7, <2>8 DEF SocketsInv
<1>3. CASE /\ socket' = [socket EXCEPT ![s].pc = "refused", ![s].open = FALSE]
           /\ UNCHANGED <<conns, missed>>
  <2>1. /\ \A t \in Sockets : t # s => socket'[t] = socket[t]
        /\ socket'[s].pc = "refused" /\ socket'[s].open = FALSE
        /\ socket' \in [Sockets -> SocketRow]
    <3> DEFINE r == [socket[s] EXCEPT !.pc = "refused", !.open = FALSE]
    <3>1. socket' = [socket EXCEPT ![s] = r]
      BY <1>1, <1>3, SocketsTypes
    <3>2. r \in SocketRow /\ r.pc = "refused" /\ r.on = socket[s].on /\ r.open = FALSE
      BY <1>1 DEF SocketRow
    <3> HIDE DEF r
    <3> QED
      BY <1>1, <3>1, <3>2, SocketSet
  <2>2. Serving' = Serving /\ Handled' = Handled
    BY <1>1, <2>1 DEF Serving, Handled
  <2>3. SocketsTypeOK'
    BY <1>1, <1>3, <2>1 DEF SocketsInv, SocketsTypeOK, SocketRow
  <2> QED
    BY <1>1, <1>3, <2>1, <2>2, <2>3, SocketsTypes DEF SocketsInv
<1> QED
  BY <1>2, <1>3 DEF Authenticated

LEMMA UpsertStep == ASSUME SocketsInv, NEW s \in Sockets, Upsert(s) PROVE SocketsInv'
<1>1. /\ socket[s].pc = "connect" /\ socket[s] \in SocketRow /\ socket[s].on \in Instances
      /\ presence' = socket[s].on /\ subscribed' = [subscribed EXCEPT ![s] = asked[s]]
      /\ socket' = [socket EXCEPT ![s].pc = "serve"]
      /\ UNCHANGED <<up, conns, deletes, asked, logouts, missed>>
      /\ crossed' = (crossed \/ (~socket[s].open /\ \A d \in deletes : d.on # socket[s].on))
  BY SocketsTypes DEF Upsert, Served, SocketsInv
<1>2. /\ \A t \in Sockets : t # s => socket'[t] = socket[t]
      /\ socket'[s].pc = "serve" /\ socket'[s].on = socket[s].on /\ socket'[s].open = socket[s].open
      /\ socket' \in [Sockets -> SocketRow]
  <2> DEFINE r == [socket[s] EXCEPT !.pc = "serve"]
  <2>1. socket' = [socket EXCEPT ![s] = r]
    BY <1>1, SocketsTypes
  <2>2. r \in SocketRow /\ r.pc = "serve" /\ r.on = socket[s].on /\ r.open = socket[s].open
    BY <1>1 DEF SocketRow
  <2> HIDE DEF r
  <2> QED
    BY <1>1, <2>1, <2>2, SocketSet
<1>3. Handled' = Handled
  BY <1>1, <1>2 DEF Handled
<1>4. presence' # NoRow
  BY <1>1, DeskSocketsAssumption
<1>5. crossed' \in BOOLEAN /\ (~crossed' => ~crossed)
  BY <1>1 DEF SocketsInv
<1>6. ~crossed' => Handled'[presence'] # {} \/ \E d \in deletes' : d.on = presence'
  <2>1. CASE socket[s].open
    <3>1. s \in Handled[socket[s].on]
      BY <1>1, <2>1 DEF Handled
    <3> QED
      BY <1>1, <1>3, <3>1
  <2>2. CASE ~socket[s].open
    BY <1>1, <2>2
  <2> QED
    BY <2>1, <2>2
<1>7. /\ subscribed' \in [Sockets -> SUBSET Calls] /\ subscribed'[s] = asked[s]
      /\ \A t \in Sockets : t # s => subscribed'[t] = subscribed[t]
  BY <1>1 DEF SocketsInv
<1>8. SocketsTypeOK'
  BY <1>1, <1>2 DEF SocketsInv, SocketsTypeOK, SocketRow
<1> QED
  BY <1>1, <1>2, <1>3, <1>4, <1>5, <1>6, <1>7, <1>8 DEF SocketsInv

LEMMA SubscribeStep ==
  ASSUME SocketsInv, NEW s \in Sockets, NEW c \in Calls, Subscribe(s, c) PROVE SocketsInv'
<1>1. /\ asked' = [asked EXCEPT ![s] = @ \cup {c}]
      /\ subscribed' = IF socket[s].pc = "serve" THEN [subscribed EXCEPT ![s] = @ \cup {c}]
                       ELSE subscribed
      /\ UNCHANGED <<up, socket, conns, presence, deletes, logouts, missed, crossed>>
  BY DEF Subscribe
<1>2. /\ asked' \in [Sockets -> SUBSET Calls] /\ subscribed' \in [Sockets -> SUBSET Calls]
      /\ \A t \in Sockets : socket[t].pc = "serve" => subscribed'[t] = asked'[t]
  BY <1>1 DEF SocketsInv
<1>3. Serving' = Serving /\ Handled' = Handled
  BY <1>1 DEF Serving, Handled
<1> QED
  BY <1>1, <1>2, <1>3 DEF SocketsInv, SocketsTypeOK

LEMMA CloseStep == ASSUME SocketsInv, NEW s \in Sockets, Close(s) PROVE SocketsInv'
<1> DEFINE i == socket[s].on
<1>1. /\ socket[s].open /\ socket[s] \in SocketRow /\ i \in Instances
      /\ socket[s].pc \in {"session", "connect", "serve"}
      /\ socket' = [socket EXCEPT ![s].open = FALSE]
      /\ UNCHANGED <<up, presence, asked, subscribed, logouts, missed, crossed>>
  BY SocketsTypes DEF Close, Closes, SocketsInv
<1>2. /\ \A t \in Sockets : t # s => socket'[t] = socket[t]
      /\ socket'[s].pc = socket[s].pc /\ socket'[s].on = i /\ socket'[s].open = FALSE
      /\ socket' \in [Sockets -> SocketRow]
  <2> DEFINE r == [socket[s] EXCEPT !.open = FALSE]
  <2>1. socket' = [socket EXCEPT ![s] = r]
    BY <1>1, SocketsTypes
  <2>2. r \in SocketRow /\ r.pc = socket[s].pc /\ r.on = socket[s].on /\ r.open = FALSE
    BY <1>1 DEF SocketRow
  <2> HIDE DEF r
  <2> QED
    BY <1>1, <2>1, <2>2, SocketSet
<1>3. Serving' \subseteq Serving
  BY <1>2 DEF Serving
<1>4. CASE socket[s].pc = "session" /\ UNCHANGED <<conns, deletes>>
  <2>1. Handled' = Handled
    BY <1>2, <1>4 DEF Handled
  <2>2. SocketsTypeOK'
    BY <1>1, <1>2, <1>4 DEF SocketsInv, SocketsTypeOK, SocketRow
  <2> QED
    BY <1>1, <1>2, <1>3, <1>4, <2>1, <2>2, SocketsTypes DEF SocketsInv
<1>5. CASE /\ socket[s].pc # "session"
           /\ conns' = [conns EXCEPT ![i] = @ \ {s}]
           /\ deletes' = IF LastHere(s) THEN Drop(i, conns[i] \ {s}) ELSE deletes
  <2>1. \A j \in Instances : Handled'[j] = IF j = i THEN Handled[j] \ {s} ELSE Handled[j]
    BY <1>1, <1>2 DEF Handled
  <2>2. /\ conns' \in [Instances -> SUBSET Sockets]
        /\ \A j \in Instances : conns'[j] = IF j = i THEN conns[j] \ {s} ELSE conns[j]
    BY <1>1, <1>5, SocketsTypes
  <2>3. \/ /\ conns[i] \ {s} = {} /\ deletes' = deletes \cup {[on |-> i, beside |-> {}]}
        \/ conns[i] \ {s} # {} /\ deletes' = deletes
    BY <1>5 DEF LastHere, Drop
  <2>4. /\ deletes' \subseteq [on: Instances, beside: SUBSET Sockets]
        /\ \A d \in deletes' : d.beside = {}
    BY <1>1, <2>3, SocketsTypes DEF SocketsInv
  <2>5. SocketsTypeOK'
    BY <1>1, <1>2, <2>2, <2>4 DEF SocketsInv, SocketsTypeOK, SocketRow
  <2>6. missed = {} => \A j \in Instances : conns[j] = Handled[j] /\ conns'[j] = Handled'[j]
    BY <2>1, <2>2 DEF SocketsInv
  <2>7. ASSUME ~crossed, missed = {}, presence \in up
        PROVE  Handled'[presence'] # {} \/ \E d \in deletes' : d.on = presence
    <3>1. presence \in Instances /\ deletes \subseteq deletes'
      BY <2>3, <2>7, SocketsTypes
    <3>2. CASE \E d \in deletes : d.on = presence
      BY <3>1, <3>2
    <3>3. CASE Handled[presence] # {} /\ presence # i
      BY <1>1, <2>1, <3>1, <3>3
    <3>4. CASE Handled[presence] # {} /\ presence = i
      <4>1. conns[i] = Handled[i]
        BY <1>1, <2>6, <2>7
      <4> QED
        BY <1>1, <2>1, <2>3, <3>1, <3>4, <4>1
    <3> QED
      BY <2>7, <3>2, <3>3, <3>4 DEF SocketsInv
  <2> QED
    BY <1>1, <1>2, <1>3, <2>4, <2>5, <2>6, <2>7 DEF SocketsInv
<1> QED
  BY <1>1, <1>4, <1>5 DEF Close, Closes

LEMMA DeleteStep == ASSUME SocketsInv, NEW d \in deletes, Delete(d) PROVE SocketsInv'
<1>1. /\ deletes' = deletes \ {d} /\ presence' = NoRow
      /\ crossed' = (crossed \/ Serving # {})
      /\ UNCHANGED <<up, socket, conns, asked, subscribed, logouts, missed>>
  BY DEF Delete, SocketsInv
<1>2. Serving' = Serving /\ Handled' = Handled
  BY <1>1 DEF Serving, Handled
<1>3. NoRow \notin up
  BY SocketsTypes, DeskSocketsAssumption
<1> QED
  BY <1>1, <1>2, <1>3 DEF SocketsInv, SocketsTypeOK

LEMMA CloseUserStep == ASSUME SocketsInv, NEW i \in Instances, CloseUser(i) PROVE SocketsInv'
<1>1. /\ logouts' = logouts \ {i} /\ conns' = [conns EXCEPT ![i] = {s \in @ : s \in missed}]
      /\ socket' = [s \in Sockets |-> IF s \in conns[i] THEN [socket[s] EXCEPT !.open = FALSE]
                                      ELSE socket[s]]
      /\ deletes' = IF conns[i] # {} /\ conns[i] \cap missed = {} THEN Drop(i, {}) ELSE deletes
      /\ UNCHANGED <<up, presence, asked, subscribed, missed, crossed>>
  BY DEF CloseUser
<1>2. /\ socket' \in [Sockets -> SocketRow]
      /\ \A s \in Sockets : socket'[s].pc = socket[s].pc /\ socket'[s].on = socket[s].on
                            /\ socket'[s].open = (socket[s].open /\ s \notin conns[i])
  <2>1. ASSUME NEW s \in Sockets
        PROVE  /\ socket'[s] \in SocketRow
               /\ socket'[s].pc = socket[s].pc /\ socket'[s].on = socket[s].on
               /\ socket'[s].open = (socket[s].open /\ s \notin conns[i])
    <3>1. socket[s] \in SocketRow /\ socket[s].open \in BOOLEAN
      BY SocketsTypes DEF SocketRow
    <3>2. CASE s \in conns[i]
      <4>1. socket'[s] = [socket[s] EXCEPT !.open = FALSE]
        BY <1>1, <3>2
      <4>2. /\ [socket[s] EXCEPT !.open = FALSE] \in SocketRow
            /\ [socket[s] EXCEPT !.open = FALSE].pc = socket[s].pc
            /\ [socket[s] EXCEPT !.open = FALSE].on = socket[s].on
            /\ [socket[s] EXCEPT !.open = FALSE].open = FALSE
        BY <3>1 DEF SocketRow
      <4> QED
        BY <3>1, <3>2, <4>1, <4>2
    <3>3. CASE s \notin conns[i]
      BY <1>1, <3>1, <3>3
    <3> QED
      BY <3>2, <3>3
  <2> QED
    BY <1>1, <2>1
<1>3. /\ conns' \in [Instances -> SUBSET Sockets]
      /\ \A j \in Instances : conns'[j] = IF j = i THEN conns[i] \cap missed ELSE conns[j]
  BY <1>1, SocketsTypes
<1>4. /\ deletes' \subseteq [on: Instances, beside: SUBSET Sockets] /\ deletes \subseteq deletes'
      /\ \A d \in deletes' : d.beside = {}
      /\ missed = {} /\ conns[i] # {} => \E d \in deletes' : d.on = i
  <2>1. deletes' = (IF conns[i] # {} /\ conns[i] \cap missed = {}
                    THEN deletes \cup {[on |-> i, beside |-> {}]} ELSE deletes)
    BY <1>1 DEF Drop
  <2>2. deletes' \subseteq [on: Instances, beside: SUBSET Sockets] /\ deletes \subseteq deletes'
    BY <2>1, SocketsTypes
  <2>3. \A d \in deletes' : d.beside = {}
    BY <2>1 DEF SocketsInv
  <2>4. ASSUME missed = {}, conns[i] # {} PROVE \E d \in deletes' : d.on = i
    <3>1. [on |-> i, beside |-> {}] \in deletes'
      BY <2>1, <2>4
    <3> QED
      BY <3>1
  <2> QED
    BY <2>2, <2>3, <2>4
<1>5. SocketsTypeOK'
  BY <1>1, <1>2, <1>3, <1>4 DEF SocketsInv, SocketsTypeOK, SocketRow
<1>6. Serving' \subseteq Serving
  BY <1>2 DEF Serving
<1>7. \A j \in Instances : Handled'[j] = Handled[j] \ conns[i]
  BY <1>2 DEF Handled
<1>8. missed = {} => \A j \in Instances : conns'[j] = Handled'[j]
  <2>1. ASSUME missed = {}, NEW j \in Instances PROVE conns'[j] = Handled'[j]
    <3>1. conns[i] = Handled[i] /\ conns[j] = Handled[j]
      BY <2>1 DEF SocketsInv
    <3>2. CASE j = i
      BY <1>3, <1>7, <2>1, <3>1, <3>2
    <3>3. CASE j # i
      <4>1. Handled[j] \cap Handled[i] = {}
        BY <3>3 DEF Handled
      <4> QED
        BY <1>3, <1>7, <3>1, <3>3, <4>1
    <3> QED
      BY <3>2, <3>3
  <2> QED
    BY <2>1
<1>9. ASSUME ~crossed, missed = {}, presence \in up
      PROVE  Handled'[presence'] # {} \/ \E d \in deletes' : d.on = presence
  <2>1. presence \in Instances
    BY <1>9, SocketsTypes
  <2>2. CASE \E d \in deletes : d.on = presence
    BY <1>4, <2>2
  <2>3. CASE Handled[presence] # {} /\ presence = i
    BY <1>4, <1>9, <2>1, <2>3 DEF SocketsInv
  <2>4. CASE Handled[presence] # {} /\ presence # i
    <3>1. conns[i] = Handled[i] /\ Handled[presence] \cap Handled[i] = {}
      BY <1>9, <2>1, <2>4 DEF SocketsInv, Handled
    <3> QED
      BY <1>1, <1>7, <2>1, <2>4, <3>1
  <2> QED
    BY <1>9, <2>2, <2>3, <2>4 DEF SocketsInv
<1> QED
  BY <1>1, <1>2, <1>4, <1>5, <1>6, <1>8, <1>9 DEF SocketsInv

LEMMA CrashStep == ASSUME SocketsInv, NEW i \in Instances, Crash(i) PROVE SocketsInv'
<1>1. /\ up' = up \ {i} /\ conns' = [conns EXCEPT ![i] = {}]
      /\ socket' = [s \in Sockets |-> IF socket[s].on = i
                                      THEN [socket[s] EXCEPT !.open = FALSE, !.pc = "refused"]
                                      ELSE socket[s]]
      /\ deletes' = {d \in deletes : d.on # i} /\ logouts' = logouts \ {i}
      /\ UNCHANGED <<presence, asked, subscribed, missed, crossed>>
  BY DEF Crash
<1>2. ASSUME NEW s \in Sockets
      PROVE  /\ socket'[s] \in SocketRow
             /\ socket[s].on # i => socket'[s] = socket[s]
             /\ socket'[s].on = socket[s].on
             /\ socket[s].on = i => socket'[s].pc = "refused" /\ socket'[s].open = FALSE
  <2>1. socket[s] \in SocketRow
    BY SocketsTypes
  <2>2. CASE socket[s].on = i
    <3>1. socket'[s] = [socket[s] EXCEPT !.open = FALSE, !.pc = "refused"]
      BY <1>1, <2>2
    <3> DEFINE r == [socket[s] EXCEPT !.open = FALSE, !.pc = "refused"]
    <3>2. r \in SocketRow /\ r.pc = "refused" /\ r.on = socket[s].on /\ r.open = FALSE
      BY <2>1 DEF SocketRow
    <3> HIDE DEF r
    <3>3. socket'[s] = r
      BY <3>1 DEF r
    <3> QED
      BY <2>2, <3>2, <3>3
  <2>3. CASE socket[s].on # i
    BY <1>1, <2>1, <2>3
  <2> QED
    BY <2>2, <2>3
<1>3. socket' \in [Sockets -> SocketRow]
  BY <1>1, <1>2
<1>4. SocketsTypeOK'
  BY <1>1, <1>3, SocketsTypes DEF SocketsTypeOK, SocketRow
<1>5. Serving' \subseteq Serving
  BY <1>2 DEF Serving
<1>6. \A j \in Instances : Handled'[j] = IF j = i THEN {} ELSE Handled[j]
  BY <1>2 DEF Handled
<1>7. \A j \in Instances : conns'[j] = IF j = i THEN {} ELSE conns[j]
  BY <1>1, SocketsTypes
<1>8. ASSUME ~crossed, missed = {}, presence \in up'
      PROVE  Handled'[presence'] # {} \/ \E d \in deletes' : d.on = presence
  <2>1. presence \in up /\ presence # i /\ presence \in Instances
    BY <1>1, <1>8, SocketsTypes
  <2> QED
    BY <1>1, <1>6, <1>8, <2>1 DEF SocketsInv
<1>9. \A s \in Sockets : /\ socket'[s].pc \in {"session", "connect", "serve"} => socket'[s].on \in Instances
                         /\ socket'[s].open => socket'[s].pc \in {"session", "connect", "serve"}
                         /\ socket'[s].pc = "serve" => subscribed'[s] = asked'[s]
  BY <1>1, <1>2 DEF SocketsInv
<1>10. missed' = {} => \A j \in Instances : conns'[j] = Handled'[j]
  BY <1>1, <1>6, <1>7 DEF SocketsInv
<1> QED
  BY <1>1, <1>4, <1>5, <1>8, <1>9, <1>10 DEF SocketsInv

LEMMA SocketsStep == SocketsInv /\ [SocketsNext]_socketVars => SocketsInv'
<1>1. ASSUME SocketsInv, Logout PROVE SocketsInv'
  <2>1. Serving' = Serving /\ Handled' = Handled
    BY <1>1 DEF Logout, Serving, Handled
  <2> QED
    BY <1>1, <2>1 DEF Logout, SocketsInv, SocketsTypeOK
<1>2. ASSUME SocketsInv, Sweep PROVE SocketsInv'
  <2>1. Serving' = Serving /\ Handled' = Handled
    BY <1>2 DEF Sweep, Serving, Handled
  <2>2. NoRow \notin up
    BY <1>2, SocketsTypes, DeskSocketsAssumption
  <2> QED
    BY <1>2, <2>1, <2>2 DEF Sweep, SocketsInv, SocketsTypeOK
<1>3. ASSUME SocketsInv, UNCHANGED socketVars PROVE SocketsInv'
  <2>1. Serving' = Serving /\ Handled' = Handled
    BY <1>3 DEF socketVars, Serving, Handled
  <2> QED
    BY <1>3, <2>1 DEF socketVars, SocketsInv, SocketsTypeOK
<1> QED
  BY <1>1, <1>2, <1>3, UpgradeStep, AuthenticatedStep, UpsertStep, SubscribeStep, CloseStep,
     DeleteStep, CloseUserStep, CrashStep DEF SocketsNext


-----------------------------------------------------------------------------
\* Whatever opens, closes or crashes on however many instances, the connection map of
\* each is the set of its sockets whose close handler has yet to run (ws.ts).
THEOREM SocketsInvariant == SocketsSpec => []SocketsInv
  BY SocketsInitInv, SocketsStep, PTL DEF SocketsSpec

\* With nothing under way an agent has a presence row exactly while a desk is served,
\* and a served desk is subscribed to what it asked for, but for the agents whose
\* close and connect crossed between instances (ws.ts; presence).
THEOREM PresenceMatchesHolds == SocketsSpec => []PresenceMatches
<1>1. SocketsInv => PresenceMatches
  <2> SUFFICES ASSUME SocketsInv PROVE PresenceMatches
    OBVIOUS
  <2>1. \A s \in Serving : subscribed[s] = asked[s]
    BY DEF SocketsInv, Serving
  <2>2. ASSUME Settled, missed = {}, ~crossed, presence # NoRow PROVE Serving # {}
    <3>1. presence \in up /\ deletes = {} /\ \A s \in Sockets : socket[s].pc \notin {"session", "connect"}
      BY <2>2 DEF Settled
    <3>2. PICK s \in Sockets : s \in Handled[presence]
      BY <2>2, <3>1, SocketsTypes DEF SocketsInv, Handled
    <3> QED
      BY <3>1, <3>2, SocketsTypes DEF Handled, Serving
  <2> QED
    BY <2>1, <2>2 DEF PresenceMatches, SocketsInv
<1> QED
  BY <1>1, SocketsInvariant, PTL
=============================================================================
