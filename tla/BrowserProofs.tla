---------------------------- MODULE BrowserProofs ----------------------------
(***************************************************************************)
(* Proofs about what runs in the browsers, for any number of calls, rings, *)
(* desks, clicks and connections: MicIsShown of the customer's call button, *)
(* DialogShowsRing of the desk's ring dialog, and AudioFollowsHold of the  *)
(* desks' microphones and audio.                                           *)
(***************************************************************************)
EXTENDS CallButton, DeskOffers, DeskAudio, SequenceTheorems, TLAPS

-----------------------------------------------------------------------------
(***************************************************************************)
(* The call button.  While calls are not started over one another, all     *)
(* rooms the hook knows of are that of the last call: the invariant        *)
(* relates where its start() is to the label and to room.current.          *)
(***************************************************************************)
Labels == [kind: {"idle", "connecting", "waiting", "in_call", "ended", "error"},
           with: {"nobody", "ai", "human"}, muted: BOOLEAN]

ButtonTypes ==
  /\ button \in Labels /\ current \in Attempts \cup {NoRoom} /\ leaving \subseteq Attempts
  /\ attempt \in [Attempts -> {"none", "post", "join", "aborted", "mic", "over"}]
  /\ live \subseteq joined /\ joined \subseteq Attempts
  /\ peers \in [Attempts -> SUBSET Roles] /\ mounted \in BOOLEAN
  /\ started \in 0..MaxAttempts
  /\ overlapped \in BOOLEAN /\ removed \in BOOLEAN /\ (removed => ~mounted)

\* A call whose start() is under way: the label says so, and nothing is being left.
Starting ==
  /\ mounted /\ leaving = {} /\ live = {} /\ attempt[started] # "aborted"
  /\ attempt[started] = "post" => button.kind = "connecting" /\ current = NoRoom /\ joined = {}
  /\ attempt[started] = "join" => button.kind = "connecting" /\ current = started /\ joined = {}
  /\ attempt[started] = "mic" =>
       \/ button.kind = "connecting" /\ current = started /\ joined = {started}
       \/ ~InCall /\ button.kind # "connecting" /\ current = NoRoom /\ joined = {}

\* A call that started, or failed to: its room is the current one, or being left.
Standing ==
  \/ mounted /\ InCall /\ current = started /\ started \in Attempts
       /\ joined = {started} /\ leaving = {}
  \/ button.kind # "connecting" /\ current = NoRoom
       /\ joined \subseteq leaving /\ leaving \subseteq {started}

\* Nothing of an earlier call is left when one is started.
Calm ==
  /\ Busy \subseteq {started}
  /\ IF Busy = {} THEN Standing ELSE Starting

ButtonInv == ButtonTypes /\ (overlapped \/ removed \/ Calm)

-----------------------------------------------------------------------------
LEMMA InvariantInit == ButtonInit => ButtonInv
<1> SUFFICES ASSUME ButtonInit PROVE ButtonInv
  OBVIOUS
<1>1. ButtonTypes
  <2>1. button \in Labels
    BY DEF ButtonInit, Labels, Plain
  <2>2. started \in 0..MaxAttempts
    BY CallButtonAssumption DEF ButtonInit
  <2> QED
    BY <2>1, <2>2 DEF ButtonInit, ButtonTypes
<1>2. Busy = {}
  BY DEF ButtonInit, Busy
<1>3. Standing
  BY DEF ButtonInit, Standing, Plain
<1> QED
  BY <1>1, <1>2, <1>3 DEF ButtonInv, Calm

\* What the reducer returns, and how it moves the label.
LEMMA Reducer ==
  ASSUME NEW b \in Labels
  PROVE  /\ OnConnected(b) \in Labels /\ OnToggleMute(b) \in Labels
         /\ OnDisconnected(b) \in Labels
         /\ OnDisconnected(b).kind \in {"idle", "error", "ended"}
         /\ OnClick(b) \in Labels /\ Plain("error") \in Labels /\ Plain("error").kind = "error"
         /\ OnToggleMute(b).kind = b.kind
         /\ b.kind \in {"idle", "ended", "error"} => OnClick(b).kind = "connecting"
         /\ OnConnected(b).kind = IF b.kind = "connecting" THEN "waiting" ELSE b.kind
  BY DEF Labels, Plain, OnConnected, OnToggleMute, OnDisconnected, OnClick

\* A peer turns waiting into a call, and nothing else.
LEMMA PeerLabel ==
  ASSUME NEW b \in Labels, NEW role \in Roles
  PROVE  /\ OnPeerJoined(b, role) \in Labels
         /\ OnPeerJoined(b, role).kind \in {b.kind, "in_call"}
         /\ b.kind \notin {"waiting", "in_call"} => OnPeerJoined(b, role).kind = b.kind
  BY DEF Labels, Plain, OnPeerJoined, Roles

LEMMA EveryoneLabel ==
  ASSUME NEW b \in Labels, NEW roles \in SUBSET Roles
  PROVE  /\ OnEveryone(b, roles) \in Labels
         /\ OnEveryone(b, roles).kind \in {b.kind, "in_call"}
         /\ b.kind \notin {"waiting", "in_call"} => OnEveryone(b, roles).kind = b.kind
  BY PeerLabel DEF OnEveryone, Roles

\* The attempts under way after attempt a has come to pc.
LEMMA BusyMoves ==
  ASSUME ButtonTypes, NEW a \in Attempts,
         NEW pc \in {"none", "post", "join", "aborted", "mic", "over"},
         attempt' = [attempt EXCEPT ![a] = pc]
  PROVE  /\ attempt' \in [Attempts -> {"none", "post", "join", "aborted", "mic", "over"}]
         /\ attempt'[a] = pc
         /\ Busy' = IF pc \in {"post", "join", "mic", "aborted"} THEN Busy \cup {a} ELSE Busy \ {a}
  BY DEF ButtonTypes, Busy

\* end() leaves the current room, unless it is gone by itself.
LEMMA LeaveTypes ==
  ASSUME ButtonTypes, NEW b \in Labels, NEW gone \in SUBSET Attempts, Leave(b, gone)
  PROVE  /\ current' = NoRoom /\ leaving' \subseteq Attempts /\ button' \in Labels
         /\ leaving' = (leaving \cup {current}) \ ({NoRoom} \cup gone)
         /\ mounted => button'.kind \in {b.kind, "idle", "error", "ended"}
         /\ mounted /\ current \in {NoRoom} \cup gone
              => button'.kind \in {"idle", "error", "ended"}
         /\ mounted /\ current \notin {NoRoom} \cup gone => button' = b
         /\ ~mounted => button' = button
  BY Reducer DEF ButtonTypes, Leave, Dispatch

-----------------------------------------------------------------------------
LEMMA TypesStep == ButtonTypes /\ [ButtonNext]_buttonVars => ButtonTypes'
<1> SUFFICES ASSUME ButtonTypes, [ButtonNext]_buttonVars PROVE ButtonTypes'
  OBVIOUS
<1>1. CASE \E a \in Attempts : Posted(a)
  BY <1>1 DEF Posted, ButtonTypes
<1>2. CASE \E a \in Attempts : JoinedRoom(a)
  BY <1>2 DEF JoinedRoom, ButtonTypes
<1>3. CASE \E a \in Attempts : MicrophoneOn(a)
  <2>1. PICK a \in Attempts : MicrophoneOn(a)
    BY <1>3
  <2>2. button' \in Labels
    BY <2>1, Reducer, EveryoneLabel DEF MicrophoneOn, Dispatch, ButtonTypes
  <2> QED
    BY <2>1, <2>2 DEF MicrophoneOn, ButtonTypes
<1>4. CASE \E a \in Attempts : StartFails(a)
  <2>1. PICK a \in Attempts : StartFails(a)
    BY <1>4
  <2>2. button' \in Labels /\ current' = NoRoom /\ leaving' \subseteq Attempts
    BY <2>1, LeaveTypes, Reducer DEF StartFails, Fail, ButtonTypes
  <2> QED
    BY <2>1, <2>2 DEF StartFails, Fail, ButtonTypes
<1>5. CASE \E a \in Attempts : LeaveDone(a)
  <2>1. PICK a \in Attempts : LeaveDone(a)
    BY <1>5
  <2>2. button' \in Labels
    BY <2>1, Reducer DEF LeaveDone, Dispatch, ButtonTypes
  <2>3. attempt' \in [Attempts -> {"none", "post", "join", "aborted", "mic", "over"}]
    BY <2>1 DEF LeaveDone, ButtonTypes
  <2>4. peers' \in [Attempts -> SUBSET Roles]
    BY <2>1 DEF LeaveDone, ButtonTypes
  <2>5. current' \in Attempts \cup {NoRoom} /\ leaving' \subseteq Attempts
    BY <2>1 DEF LeaveDone, ButtonTypes
  <2> QED
    BY <2>1, <2>2, <2>3, <2>4, <2>5 DEF LeaveDone, ButtonTypes
<1>6. CASE \E a \in Attempts : RoomGone(a)
  <2>1. PICK a \in Attempts : RoomGone(a)
    BY <1>6
  <2>2. button' \in Labels /\ current' = NoRoom /\ leaving' \subseteq Attempts
    BY <2>1, LeaveTypes DEF RoomGone, ButtonTypes
  <2> QED
    BY <2>1, <2>2 DEF RoomGone, ButtonTypes
<1>7. CASE \E a \in Attempts, role \in Roles : PeerArrives(a, role)
  <2>1. PICK a \in Attempts, role \in Roles : PeerArrives(a, role)
    BY <1>7
  <2>2. button' \in Labels
    BY <2>1, PeerLabel DEF PeerArrives, Dispatch, ButtonTypes
  <2> QED
    BY <2>1, <2>2 DEF PeerArrives, ButtonTypes
<1>8. CASE \E a \in Attempts, role \in Roles : PeerLeaves(a, role)
  BY <1>8 DEF PeerLeaves, ButtonTypes
<1>9. CASE StartCall
  <2>1. button' \in Labels
    BY <1>9, Reducer DEF StartCall, ButtonTypes
  <2>2. started' \in 0..MaxAttempts
    BY <1>9, CallButtonAssumption DEF StartCall, ButtonTypes
  <2>3. attempt' \in [Attempts -> {"none", "post", "join", "aborted", "mic", "over"}]
    BY <1>9 DEF StartCall, ButtonTypes
  <2> QED
    BY <1>9, <2>1, <2>2, <2>3 DEF StartCall, ButtonTypes, Busy
<1>10. CASE HangUp
  <2>1. button' \in Labels /\ current' = NoRoom /\ leaving' \subseteq Attempts
    BY <1>10, LeaveTypes DEF HangUp, ButtonTypes
  <2> QED
    BY <1>10, <2>1 DEF HangUp, ButtonTypes
<1>11. CASE ToggleMute
  <2>1. button' \in Labels
    BY <1>11, Reducer DEF ToggleMute, ButtonTypes
  <2>2. live' \subseteq joined
    BY <1>11 DEF ToggleMute, ButtonTypes
  <2> QED
    BY <1>11, <2>1, <2>2 DEF ToggleMute, ButtonTypes
<1>12. CASE Unmount
  BY <1>12 DEF Unmount, ButtonTypes, Busy
<1>13. CASE UNCHANGED buttonVars
  BY <1>13 DEF buttonVars, ButtonTypes
<1> QED
  BY <1>1, <1>2, <1>3, <1>4, <1>5, <1>6, <1>7, <1>8, <1>9, <1>10, <1>11, <1>12, <1>13
  DEF ButtonNext, StartStep

-----------------------------------------------------------------------------
\* The steps of start(), when it is the only one.

LEMMA StartingSteps ==
  ASSUME ButtonTypes, Calm, NEW a \in Attempts, StartStep(a), ButtonTypes'
  PROVE  Calm'
<1>1. a \in Busy /\ a = started /\ Busy = {started} /\ Starting
  BY DEF StartStep, Posted, JoinedRoom, MicrophoneOn, StartFails, Busy, Calm
<1>2. started' = started /\ mounted' = mounted /\ mounted
  BY <1>1 DEF StartStep, Posted, JoinedRoom, MicrophoneOn, StartFails, Starting
<1> USE DEF Starting, InCall
<1>3. CASE Posted(a)
  <2>1. attempt' = [attempt EXCEPT ![a] = "join"]
    BY <1>3 DEF Posted
  <2>2. Busy' = {started'} /\ attempt'[started'] = "join"
    BY <1>1, <1>2, <2>1, BusyMoves
  <2>3. Starting'
    BY <1>1, <1>2, <1>3, <2>2 DEF Posted
  <2> QED
    BY <2>2, <2>3 DEF Calm
<1>4. CASE JoinedRoom(a)
  <2>1. attempt' = [attempt EXCEPT ![a] = "mic"]
    BY <1>4 DEF JoinedRoom
  <2>2. Busy' = {started'} /\ attempt'[started'] = "mic"
    BY <1>1, <1>2, <2>1, BusyMoves
  <2>3. Starting'
    BY <1>1, <1>2, <1>4, <2>2 DEF JoinedRoom
  <2> QED
    BY <2>2, <2>3 DEF Calm
<1>5. CASE MicrophoneOn(a)
  <2>1. attempt' = [attempt EXCEPT ![a] = "over"]
    BY <1>5 DEF MicrophoneOn
  <2>2. Busy' = {}
    BY <1>1, <2>1, BusyMoves
  <2>3. button.kind = "connecting" /\ current = started /\ joined = {started}
    BY <1>1, <1>5 DEF MicrophoneOn
  <2>4. button' = OnEveryone(OnConnected(button), peers[a])
    BY <1>2, <1>5 DEF MicrophoneOn, Dispatch
  <2>5. OnConnected(button) \in Labels /\ OnConnected(button).kind = "waiting"
    BY <2>3, Reducer DEF ButtonTypes
  <2>6. button'.kind \in {"waiting", "in_call"}
    BY <2>4, <2>5, EveryoneLabel DEF ButtonTypes
  <2>7. Standing'
    BY <1>1, <1>2, <1>5, <2>3, <2>6 DEF MicrophoneOn, Standing
  <2> QED
    BY <2>2, <2>7 DEF Calm
<1>6. CASE StartFails(a)
  <2>1. attempt' = [attempt EXCEPT ![a] = "over"] /\ joined' = joined /\ Leave(Plain("error"), {})
    BY <1>6 DEF StartFails, Fail
  <2>2. Busy' = {}
    BY <1>1, <2>1, BusyMoves
  <2>3. /\ current' = NoRoom /\ leaving' = {current} \ {NoRoom}
        /\ button'.kind # "connecting"
    BY <1>1, <2>1, LeaveTypes, Reducer DEF ButtonTypes
  <2>4. joined \subseteq {current} /\ current \in {started, NoRoom} /\ NoRoom \notin joined
    BY <1>1, CallButtonAssumption DEF ButtonTypes, Busy, Attempts
  <2>5. Standing'
    BY <1>2, <2>1, <2>3, <2>4 DEF Standing
  <2> QED
    BY <2>2, <2>5 DEF Calm
<1> QED
  BY <1>3, <1>4, <1>5, <1>6 DEF StartStep

-----------------------------------------------------------------------------
\* What the customer, the page and LiveKit do meanwhile.

LEMMA StartCallStep ==
  ASSUME ButtonTypes, Calm, StartCall, ~overlapped'
  PROVE  Calm'
<1>1. Busy = {} /\ leaving = {} /\ Standing /\ mounted
  BY DEF StartCall, Calm
<1>2. joined = {} /\ current = NoRoom /\ live = {}
  BY <1>1 DEF Standing, StartCall, ButtonTypes
<1>3. started' = started + 1 /\ started' \in Attempts
  BY CallButtonAssumption DEF StartCall, ButtonTypes, Attempts
<1>4. PICK a \in Attempts : a = started + 1
  BY <1>3 DEF StartCall
<1>5. attempt' = [attempt EXCEPT ![a] = "post"]
  BY <1>4 DEF StartCall
<1>6. Busy' = {started'} /\ attempt'[started'] = "post"
  BY <1>1, <1>3, <1>4, <1>5, BusyMoves
<1>7. button.kind \in {"idle", "ended", "error"}
  BY DEF StartCall, InCall, ButtonTypes, Labels
<1>8. button'.kind = "connecting"
  BY <1>7, Reducer DEF StartCall, ButtonTypes
<1>9. Starting'
  BY <1>1, <1>2, <1>6, <1>8 DEF StartCall, Starting
<1> QED
  BY <1>6, <1>9 DEF Calm

\* A room that is left, by whomever: only one that stood, or that start() had joined.
LEMMA RoomSteps ==
  ASSUME ButtonTypes, Calm, NEW a \in Attempts, LeaveDone(a) \/ RoomGone(a), ButtonTypes'
  PROVE  Calm'
<1>1. started' = started /\ mounted' = mounted
  BY DEF LeaveDone, RoomGone
<1>2. CASE LeaveDone(a)
  <2>1. leaving # {} /\ Busy = {} /\ Standing
    BY <1>2 DEF LeaveDone, Calm, Starting
  <2>2. /\ button.kind # "connecting" /\ current = NoRoom
        /\ joined \subseteq leaving /\ leaving \subseteq {started} /\ a = started
    BY <1>2, <2>1 DEF LeaveDone, Standing
  <2>3. attempt[a] # "join" /\ attempt' = attempt
    BY <1>2, <2>1 DEF LeaveDone, ButtonTypes, Busy
  <2>4. Busy' = {}
    BY <2>1, <2>3 DEF Busy
  <2>5. current' = NoRoom /\ joined' = {}
    BY <1>2, <2>2 DEF LeaveDone
  <2>6. leaving' \subseteq {started}
    BY <1>2, <2>2 DEF LeaveDone
  <2>7. button'.kind # "connecting"
    BY <1>2, <2>2, Reducer DEF LeaveDone, Dispatch, ButtonTypes
  <2>8. Standing'
    BY <1>1, <2>5, <2>6, <2>7 DEF Standing
  <2> QED
    BY <2>4, <2>8 DEF Calm
<1>3. CASE RoomGone(a)
  <2>1. /\ joined' = joined \ {a} /\ live' = live \ {a} /\ attempt' = attempt
        /\ a \in joined \ leaving /\ Leave(button, {a})
    BY <1>3 DEF RoomGone
  <2>2. Busy' = Busy
    BY <2>1 DEF Busy
  <2>3. current = started /\ joined = {started} /\ leaving = {} /\ mounted /\ a = started
    BY <2>1 DEF Calm, Starting, Standing, ButtonTypes, Busy
  <2>4. /\ current' = NoRoom /\ leaving' = {} /\ joined' = {}
        /\ button'.kind \in {"idle", "error", "ended"}
    BY <2>1, <2>3, LeaveTypes DEF ButtonTypes
  <2>5. CASE Busy = {}
    <3>1. Standing'
      BY <2>4 DEF Standing
    <3> QED
      BY <2>2, <2>5, <3>1 DEF Calm
  <2>6. CASE Busy # {}
    <3>1. Starting /\ attempt[started] = "mic" /\ Busy \subseteq {started}
      BY <2>3, <2>6 DEF Calm, Starting, Busy
    <3>2. Starting'
      BY <1>1, <2>1, <2>3, <2>4, <3>1 DEF Starting, InCall
    <3> QED
      BY <1>1, <2>2, <2>6, <3>1, <3>2 DEF Calm
  <2> QED
    BY <2>5, <2>6
<1> QED
  BY <1>2, <1>3

\* Peers change neither rooms nor, outside a call, the label.
LEMMA PeerSteps ==
  ASSUME ButtonTypes, Calm, NEW a \in Attempts, NEW role \in Roles,
         PeerArrives(a, role) \/ PeerLeaves(a, role)
  PROVE  Calm'
<1>1. UNCHANGED <<current, attempt, joined, live, leaving, mounted, started>>
  BY DEF PeerArrives, PeerLeaves
<1>2. Busy' = Busy
  BY <1>1 DEF Busy
<1>3. /\ button'.kind \in {button.kind, "in_call"}
      /\ ~InCall => button'.kind = button.kind
  BY PeerLabel DEF PeerArrives, PeerLeaves, Dispatch, ButtonTypes, InCall
<1>4. Starting => Starting'
  BY <1>1, <1>3 DEF Starting, InCall
<1>5. Standing => Standing'
  BY <1>1, <1>3 DEF Standing, InCall
<1> QED
  BY <1>1, <1>2, <1>4, <1>5 DEF Calm

LEMMA HangUpStep ==
  ASSUME ButtonTypes, Calm, HangUp
  PROVE  Calm'
<1>1. mounted /\ InCall /\ Leave(button, {}) /\ UNCHANGED <<attempt, joined, started, mounted>>
  BY DEF HangUp
<1>2. Busy' = Busy
  BY <1>1 DEF Busy
<1>3. Busy = {} /\ Standing
  <2>1. ASSUME Busy # {} PROVE FALSE
    <3>1. attempt[started] \in {"post", "join", "mic"}
      BY <2>1 DEF Calm, Starting, Busy
    <3> QED
      BY <2>1, <3>1, <1>1 DEF Calm, Starting, InCall
  <2> QED
    BY <2>1 DEF Calm
<1>4. /\ current' = NoRoom /\ leaving' = (leaving \cup {current}) \ {NoRoom}
      /\ button'.kind # "connecting"
  BY <1>1, LeaveTypes DEF ButtonTypes, InCall
<1>5. NoRoom \notin Attempts
  BY CallButtonAssumption DEF Attempts
<1>6. joined \subseteq leaving' /\ leaving' \subseteq {started}
  <2>1. CASE current = NoRoom
    BY <1>3, <1>4, <1>5, <2>1 DEF Standing, ButtonTypes
  <2>2. CASE current # NoRoom
    BY <1>3, <1>4, <1>5, <2>2 DEF Standing
  <2> QED
    BY <2>1, <2>2
<1>7. Standing'
  BY <1>1, <1>4, <1>6 DEF Standing
<1> QED
  BY <1>2, <1>3, <1>7 DEF Calm

LEMMA MuteStep ==
  ASSUME ButtonTypes, Calm, ToggleMute
  PROVE  Calm'
<1>1. /\ UNCHANGED <<attempt, joined, started, mounted, current, leaving>>
      /\ button.kind = "in_call" /\ button'.kind = "in_call"
  BY Reducer DEF ToggleMute, ButtonTypes
<1>2. Busy' = Busy
  BY <1>1 DEF Busy
<1>3. Busy = {} /\ Standing
  <2>1. ASSUME Busy # {} PROVE FALSE
    <3>1. attempt[started] \in {"post", "join", "mic"}
      BY <2>1 DEF Calm, Starting, Busy
    <3> QED
      BY <2>1, <3>1, <1>1 DEF Calm, Starting, InCall
  <2> QED
    BY <2>1 DEF Calm
<1>4. Standing'
  BY <1>1, <1>3 DEF Standing, InCall
<1> QED
  BY <1>2, <1>3, <1>4 DEF Calm

LEMMA UnmountStep ==
  ASSUME ButtonTypes, Calm, Unmount, ~removed'
  PROVE  Calm'
<1>1. /\ UNCHANGED <<button, attempt, joined, started>> /\ current' = NoRoom
      /\ leaving' = (leaving \cup {current}) \ {NoRoom} /\ Busy = {}
  BY DEF Unmount
<1>2. Busy' = {} /\ Standing
  BY <1>1 DEF Busy, Calm
<1>3. NoRoom \notin Attempts
  BY CallButtonAssumption DEF Attempts
<1>4. button.kind # "connecting" /\ joined \subseteq leaving' /\ leaving' \subseteq {started}
  <2>1. CASE current = NoRoom
    BY <1>1, <1>2, <1>3, <2>1 DEF Standing, ButtonTypes
  <2>2. CASE current # NoRoom
    BY <1>1, <1>2, <1>3, <2>2 DEF Standing, InCall
  <2> QED
    BY <2>1, <2>2
<1>5. Standing'
  BY <1>1, <1>4 DEF Standing
<1> QED
  BY <1>2, <1>5 DEF Calm

LEMMA InvariantStep == ButtonInv /\ [ButtonNext]_buttonVars => ButtonInv'
<1> SUFFICES ASSUME ButtonInv, [ButtonNext]_buttonVars, ~overlapped', ~removed'
             PROVE  ButtonTypes' /\ Calm'
  BY TypesStep DEF ButtonInv
<1>1. ButtonTypes'
  BY TypesStep DEF ButtonInv
<1>2. CASE UNCHANGED buttonVars
  BY <1>1, <1>2 DEF ButtonInv, buttonVars, Calm, Busy, Standing, Starting, InCall
<1>3. CASE ButtonNext
  <2>1. ButtonTypes /\ Calm
    <3>1. ~overlapped
      BY <1>3 DEF ButtonNext, StartStep, Posted, JoinedRoom, MicrophoneOn, StartFails, LeaveDone,
                  RoomGone, PeerArrives, PeerLeaves, StartCall, HangUp, ToggleMute, Unmount
    <3>2. ~removed
      BY <1>3 DEF ButtonInv, ButtonTypes, ButtonNext, StartStep, Posted, JoinedRoom, MicrophoneOn,
                  StartFails, LeaveDone, RoomGone, PeerArrives, PeerLeaves, StartCall, HangUp,
                  ToggleMute, Unmount
    <3> QED
      BY <3>1, <3>2 DEF ButtonInv
  <2> QED
    BY <1>1, <1>3, <2>1, StartingSteps, StartCallStep, RoomSteps, PeerSteps, HangUpStep, MuteStep,
       UnmountStep
    DEF ButtonNext
<1> QED
  BY <1>1, <1>2, <1>3

-----------------------------------------------------------------------------
\* As long as no call was started while the one before was torn down, the label, the
\* rooms joined and being left, and the place of start() agree.
THEOREM ButtonInvariant == ButtonSpec => []ButtonInv
  BY InvariantInit, InvariantStep, PTL DEF ButtonSpec

\* A microphone that is on shows as a call or is being switched off (useCall.ts).
THEOREM MicIsShownHolds == ButtonSpec => []MicIsShown
<1>1. ASSUME ButtonInv PROVE MicIsShown
  <2>1. CASE overlapped \/ removed
    BY <2>1 DEF MicIsShown
  <2>2. CASE ~overlapped /\ ~removed
    BY <1>1, <2>2 DEF ButtonInv, ButtonTypes, Calm, Starting, Standing, MicIsShown
  <2> QED
    BY <2>1, <2>2
<1> QED
  BY <1>1, ButtonInvariant, PTL

-----------------------------------------------------------------------------
(***************************************************************************)
(* The ring dialog.  What it shows now says little: frames, acceptances    *)
(* and declines are under way.  The invariant speaks of what it will show  *)
(* once it has received every frame, sent or not (Shows), and relates that *)
(* to the offer row, and to the acceptances and declines that account for  *)
(* the difference.                                                         *)
(***************************************************************************)
\* A frame after which x is not what it was shown as before: another offer, the end of
\* the session, or the end of x.
Ousts(f, x) == f.kind \in {"call.offer", "logout"} \/ f.call = x

\* x is what the dialog, now showing o, will show when it has received s.
Shows(o, s, x) ==
  \E i \in 0..Len(s) :
    /\ IF i = 0 THEN o = x ELSE s[i] = Frame("call.offer", x)
    /\ \A j \in (i + 1)..Len(s) : ~Ousts(s[j], x)

Offers(s) == \E i \in 1..Len(s) : s[i].kind = "call.offer"

LEMMA FrameType ==
  ASSUME NEW x \in Offered, NEW k \in {"call.offer", "call.offer.cancelled", "ended"}
  PROVE  Frame(k, x) \in DeskFrames /\ Frame(k, x).kind = k /\ Frame(k, x).call = x
  BY DEF Frame, DeskFrames

LEMMA ShowsNothing == \A o, x : Shows(o, <<>>, x) <=> o = x
<1>1. Len(<<>>) = 0
  BY EmptySeq
<1> QED
  BY <1>1 DEF Shows

LEMMA ShowsAppend ==
  ASSUME NEW s \in Seq(DeskFrames), NEW f \in DeskFrames, NEW o, NEW x
  PROVE  Shows(o, Append(s, f), x)
           <=> f = Frame("call.offer", x) \/ (~Ousts(f, x) /\ Shows(o, s, x))
<1> DEFINE t == Append(s, f)
           n == Len(s)
<1>1. n \in Nat /\ Len(t) = n + 1 /\ t[n + 1] = f /\ \A i \in 1..n : t[i] = s[i]
  BY AppendProperties, LenProperties
<1> HIDE DEF t, n
<1>2. ASSUME f = Frame("call.offer", x) PROVE Shows(o, t, x)
  <2>1. n + 1 \in 0..Len(t) /\ n + 1 # 0 /\ (n + 1 + 1)..Len(t) = {}
    BY <1>1
  <2> QED
    BY <1>1, <1>2, <2>1 DEF Shows
<1>3. ASSUME ~Ousts(f, x), Shows(o, s, x) PROVE Shows(o, t, x)
  <2>1. PICK i \in 0..n : /\ IF i = 0 THEN o = x ELSE s[i] = Frame("call.offer", x)
                          /\ \A j \in (i + 1)..n : ~Ousts(s[j], x)
    BY <1>3 DEF Shows, n
  <2>2. i \in 0..Len(t) /\ (i # 0 => t[i] = s[i])
    BY <1>1
  <2>3. \A j \in (i + 1)..Len(t) : ~Ousts(t[j], x)
    <3> SUFFICES ASSUME NEW j \in (i + 1)..Len(t) PROVE ~Ousts(t[j], x)
      OBVIOUS
    <3>1. CASE j = n + 1
      BY <1>1, <1>3, <3>1
    <3>2. CASE j # n + 1
      <4>1. j \in (i + 1)..n /\ j \in 1..n
        BY <1>1, <3>2
      <4> QED
        BY <1>1, <2>1, <4>1
    <3> QED
      BY <3>1, <3>2
  <2> QED
    BY <2>1, <2>2, <2>3 DEF Shows
<1>4. ASSUME Shows(o, t, x) PROVE f = Frame("call.offer", x) \/ (~Ousts(f, x) /\ Shows(o, s, x))
  <2>1. PICK i \in 0..(n + 1) : /\ IF i = 0 THEN o = x ELSE t[i] = Frame("call.offer", x)
                                /\ \A j \in (i + 1)..(n + 1) : ~Ousts(t[j], x)
    BY <1>1, <1>4 DEF Shows
  <2>2. CASE i = n + 1
    BY <1>1, <2>1, <2>2
  <2>3. CASE i # n + 1
    <3>1. i \in 0..n /\ n + 1 \in (i + 1)..(n + 1) /\ (i # 0 => t[i] = s[i])
      BY <1>1, <2>3
    <3>2. \A j \in (i + 1)..n : j \in (i + 1)..(n + 1) /\ t[j] = s[j]
      BY <1>1, <3>1
    <3>3. ~Ousts(f, x)
      BY <1>1, <2>1, <3>1
    <3>4. Shows(o, s, x)
      BY <2>1, <3>1, <3>2 DEF Shows, n
    <3> QED
      BY <3>3, <3>4
  <2> QED
    BY <2>2, <2>3
<1> QED
  BY <1>2, <1>3, <1>4 DEF t

\* Receiving a frame is what the reducer does with it.
LEMMA ShowsReceive ==
  ASSUME NEW s \in Seq(DeskFrames), s # <<>>, NEW o, NEW x \in Offered
  PROVE  Shows(o, s, x) <=> Shows(Applied(o, Head(s)), Tail(s), x)
<1> DEFINE t == Tail(s)
           n == Len(t)
           h == Head(s)
           p == Applied(o, h)
<1>1. /\ n \in Nat /\ Len(s) = n + 1 /\ h \in DeskFrames /\ s[1] = h
      /\ \A i \in 1..n : t[i] = s[i + 1]
  <2>1. s[1] = h /\ h \in DeskFrames /\ t \in Seq(DeskFrames)
    BY HeadTailProperties
  <2>2. Len(t) = Len(s) - 1 /\ \A i \in 1..Len(t) : t[i] = s[i + 1]
    BY HeadTailProperties
  <2>3. Len(s) \in Nat /\ Len(t) \in Nat
    BY <2>1, LenProperties
  <2> QED
    BY <2>1, <2>2, <2>3
<1>2. /\ h.kind = "call.offer" => p = h.call
      /\ h.kind = "logout" => p = NoCall
      /\ h.kind \in {"call.offer.cancelled", "ended"} => p = IF o = h.call THEN NoCall ELSE o
      /\ h.kind \in {"call.offer", "call.offer.cancelled", "ended", "logout"}
      /\ (h = Frame("call.offer", x) <=> h.kind = "call.offer" /\ h.call = x)
  BY <1>1 DEF Applied, DeskFrames, Frame
<1>3. x # NoCall
  BY DeskOffersAssumption
<1> HIDE DEF t, n, h, p
<1>4. ASSUME Shows(o, s, x) PROVE Shows(p, t, x)
  <2>1. PICK i \in 0..(n + 1) : /\ IF i = 0 THEN o = x ELSE s[i] = Frame("call.offer", x)
                                /\ \A j \in (i + 1)..(n + 1) : ~Ousts(s[j], x)
    BY <1>1, <1>4 DEF Shows
  <2>2. ASSUME NEW k \in 0..n, k + 1 >= i PROVE \A j \in (k + 1)..n : ~Ousts(t[j], x)
    <3>1. \A j \in (k + 1)..n : j + 1 \in (i + 1)..(n + 1) /\ j \in 1..n
      BY <1>1, <2>2
    <3> QED
      BY <1>1, <2>1, <3>1
  <2>3. CASE i >= 2
    <3>1. i - 1 \in 1..n /\ (i - 1) + 1 = i
      BY <1>1, <2>3
    <3>2. t[i - 1] = Frame("call.offer", x)
      BY <1>1, <2>1, <2>3, <3>1
    <3> QED
      BY <1>1, <2>2, <3>1, <3>2 DEF Shows, n
  <2>4. CASE i < 2
    <3>1. p = x
      <4>1. CASE i = 1
        BY <1>1, <1>2, <2>1, <4>1
      <4>2. CASE i = 0
        <5>1. 1 \in (i + 1)..(n + 1)
          BY <1>1, <4>2
        <5>2. ~Ousts(h, x)
          BY <1>1, <2>1, <5>1
        <5> QED
          BY <1>2, <2>1, <4>2, <5>2 DEF Ousts
      <4> QED
        BY <2>4, <4>1, <4>2
    <3>2. 0 \in 0..n /\ 0 + 1 >= i
      BY <1>1, <2>4
    <3> QED
      BY <2>2, <3>1, <3>2 DEF Shows, n
  <2> QED
    BY <2>3, <2>4
<1>5. ASSUME Shows(p, t, x) PROVE Shows(o, s, x)
  <2>1. PICK i \in 0..n : /\ IF i = 0 THEN p = x ELSE t[i] = Frame("call.offer", x)
                          /\ \A j \in (i + 1)..n : ~Ousts(t[j], x)
    BY <1>5 DEF Shows, n
  <2>2. \A j \in (i + 2)..(n + 1) : ~Ousts(s[j], x)
    <3> SUFFICES ASSUME NEW j \in (i + 2)..(n + 1) PROVE ~Ousts(s[j], x)
      OBVIOUS
    <3>1. j - 1 \in (i + 1)..n /\ j - 1 \in 1..n /\ (j - 1) + 1 = j
      BY <1>1
    <3> QED
      BY <1>1, <2>1, <3>1
  <2>3. CASE i # 0 \/ h = Frame("call.offer", x)
    <3>1. i + 1 \in 0..Len(s) /\ i + 1 # 0 /\ (i + 1) + 1 = i + 2
      BY <1>1
    <3>2. s[i + 1] = Frame("call.offer", x)
      BY <1>1, <2>1, <2>3
    <3> QED
      BY <1>1, <2>2, <3>1, <3>2 DEF Shows
  <2>4. CASE i = 0 /\ h # Frame("call.offer", x)
    <3>1. o = x /\ ~Ousts(h, x)
      BY <1>2, <1>3, <2>1, <2>4 DEF Ousts
    <3>2. \A j \in (0 + 1)..Len(s) : ~Ousts(s[j], x)
      <4> SUFFICES ASSUME NEW j \in 1..(n + 1) PROVE ~Ousts(s[j], x)
        BY <1>1
      <4>1. j = 1 \/ j \in (i + 2)..(n + 1)
        BY <1>1, <2>4
      <4> QED
        BY <1>1, <2>2, <3>1, <4>1
    <3>3. 0 \in 0..Len(s)
      BY <1>1
    <3> QED
      BY <3>1, <3>2, <3>3 DEF Shows
  <2> QED
    BY <2>3, <2>4
<1> QED
  BY <1>4, <1>5 DEF p, t, h

\* An open dialog adds itself to what the frames show, at most.
LEMMA ShowsStart ==
  ASSUME NEW s \in Seq(DeskFrames), NEW o, NEW x \in Offered
  PROVE  /\ Shows(NoCall, s, x) => Shows(o, s, x)
         /\ Shows(o, s, x) => Shows(NoCall, s, x) \/ o = x
         /\ Shows(NoCall, s, x) => \E i \in 1..Len(s) : s[i] = Frame("call.offer", x)
<1>1. x # NoCall /\ Len(s) \in Nat
  BY DeskOffersAssumption, LenProperties
<1>2. ASSUME Shows(NoCall, s, x)
      PROVE  Shows(o, s, x) /\ \E i \in 1..Len(s) : s[i] = Frame("call.offer", x)
  <2>1. PICK i \in 0..Len(s) : /\ IF i = 0 THEN NoCall = x ELSE s[i] = Frame("call.offer", x)
                               /\ \A j \in (i + 1)..Len(s) : ~Ousts(s[j], x)
    BY <1>2 DEF Shows
  <2>2. i # 0 /\ i \in 1..Len(s)
    BY <1>1, <2>1
  <2> QED
    BY <2>1, <2>2 DEF Shows
<1>3. ASSUME Shows(o, s, x), o # x PROVE Shows(NoCall, s, x)
  <2>1. PICK i \in 0..Len(s) : /\ IF i = 0 THEN o = x ELSE s[i] = Frame("call.offer", x)
                               /\ \A j \in (i + 1)..Len(s) : ~Ousts(s[j], x)
    BY <1>3 DEF Shows
  <2> QED
    BY <1>3, <2>1 DEF Shows
<1> QED
  BY <1>2, <1>3

\* What is shown without the first frame is shown with it, and the other way around
\* while an offer follows.
LEMMA ShowsTail ==
  ASSUME NEW s \in Seq(DeskFrames), s # <<>>, NEW x \in Offered
  PROVE  /\ Tail(s) \in Seq(DeskFrames)
         /\ Head(s) \in DeskFrames
         /\ Shows(NoCall, Tail(s), x) => Shows(NoCall, s, x)
         /\ Offers(Tail(s)) => Offers(s)
         /\ Head(s).kind = "call.offer" => Offers(s)
         /\ Shows(NoCall, s, x) =>
              Shows(NoCall, Tail(s), x) \/ (Head(s).kind = "call.offer" /\ ~Offers(Tail(s)))
<1> DEFINE t == Tail(s)
           n == Len(t)
           h == Head(s)
<1>1. /\ n \in Nat /\ Len(s) = n + 1 /\ h \in DeskFrames /\ s[1] = h /\ t \in Seq(DeskFrames)
      /\ \A i \in 1..n : t[i] = s[i + 1]
  BY HeadTailProperties, LenProperties
<1>2. x # NoCall
  BY DeskOffersAssumption
<1> HIDE DEF t, n, h
<1>3. ASSUME Shows(NoCall, t, x) PROVE Shows(NoCall, s, x)
  <2>1. Shows(Applied(NoCall, h), t, x)
    BY <1>1, <1>3, ShowsStart
  <2> QED
    BY <2>1, ShowsReceive DEF t, h
<1>4. ASSUME Offers(t) PROVE Offers(s)
  <2>1. PICK i \in 1..n : t[i].kind = "call.offer"
    BY <1>4 DEF Offers, n
  <2>2. i + 1 \in 1..Len(s)
    BY <1>1
  <2> QED
    BY <1>1, <2>1, <2>2 DEF Offers
<1>5. ASSUME h.kind = "call.offer" PROVE Offers(s)
  <2>1. 1 \in 1..Len(s)
    BY <1>1
  <2> QED
    BY <1>1, <1>5, <2>1 DEF Offers
<1>6. ASSUME Shows(NoCall, s, x), ~Shows(NoCall, t, x)
      PROVE  h.kind = "call.offer" /\ ~Offers(t)
  <2>1. Shows(Applied(NoCall, h), t, x)
    BY <1>6, ShowsReceive DEF t, h
  <2>2. Applied(NoCall, h) = x
    BY <1>1, <1>6, <2>1, ShowsStart
  <2>3. h.kind = "call.offer"
    BY <1>1, <1>2, <2>2 DEF Applied, DeskFrames
  <2>4. PICK i \in 0..n : /\ IF i = 0 THEN Applied(NoCall, h) = x ELSE t[i] = Frame("call.offer", x)
                          /\ \A j \in (i + 1)..n : ~Ousts(t[j], x)
    BY <2>1 DEF Shows, n
  <2>5. i = 0
    BY <1>6, <2>4 DEF Shows, n
  <2>6. \A j \in 1..n : t[j].kind # "call.offer"
    BY <2>4, <2>5 DEF Ousts
  <2> QED
    BY <2>3, <2>6 DEF Offers, n
<1> QED
  BY <1>1, <1>3, <1>4, <1>5, <1>6 DEF t, h

\* After a logout only what follows it is shown.
LEMMA ShowsInsert ==
  ASSUME NEW w \in Seq(DeskFrames), NEW u \in Seq(DeskFrames), NEW f \in DeskFrames,
         f.kind = "logout", NEW o, NEW x \in Offered, Shows(o, Append(w, f) \o u, x)
  PROVE  Shows(NoCall, u, x)
<1> DEFINE v == Append(w, f)
           q == v \o u
           m == Len(v)
           n == Len(u)
<1>1. v \in Seq(DeskFrames) /\ m \in Nat \ {0} /\ v[m] = f
  <2>1. Len(w) \in Nat /\ m = Len(w) + 1 /\ v[Len(w) + 1] = f /\ v \in Seq(DeskFrames)
    BY AppendProperties, LenProperties
  <2> QED
    BY <2>1
<1> HIDE DEF v
<1>2. n \in Nat /\ Len(q) = m + n /\ \A i \in 1..(m + n) : q[i] = IF i <= m THEN v[i] ELSE u[i - m]
  BY <1>1, ConcatProperties, LenProperties
<1> HIDE DEF q, m, n
<1>3. PICK i \in 0..(m + n) : /\ IF i = 0 THEN o = x ELSE q[i] = Frame("call.offer", x)
                              /\ \A j \in (i + 1)..(m + n) : ~Ousts(q[j], x)
  BY <1>2 DEF Shows, q, v
<1>4. q[m] = f /\ Ousts(f, x) /\ f # Frame("call.offer", x)
  <2>1. m \in 1..(m + n)
    BY <1>1, <1>2
  <2> QED
    BY <1>1, <1>2, <2>1 DEF Ousts, Frame
<1>5. i > m
  <2>1. ~(m \in (i + 1)..(m + n))
    BY <1>3, <1>4
  <2>2. i # m
    BY <1>1, <1>3, <1>4
  <2> QED
    BY <1>1, <1>2, <2>1, <2>2
<1>6. i - m \in 1..n /\ u[i - m] = Frame("call.offer", x)
  BY <1>1, <1>2, <1>3, <1>5
<1>7. \A j \in ((i - m) + 1)..n : ~Ousts(u[j], x)
  <2> SUFFICES ASSUME NEW j \in ((i - m) + 1)..n PROVE ~Ousts(u[j], x)
    OBVIOUS
  <2>1. i \in Nat /\ m \in Nat /\ n \in Nat /\ j \in Int /\ j >= (i - m) + 1 /\ j <= n
    BY <1>1, <1>2
  <2>2. m + j >= i + 1 /\ m + j <= m + n
    BY <2>1
  <2>3. m + j \in (i + 1)..(m + n) /\ m + j \in 1..(m + n)
    BY <2>1, <2>2
  <2>4. ~(m + j <= m) /\ (m + j) - m = j
    BY <1>5, <2>1
  <2> QED
    BY <1>2, <1>3, <2>3, <2>4
<1> QED
  BY <1>6, <1>7, <1>2 DEF Shows, n

LEMMA QueueAppend ==
  ASSUME NEW w \in Seq(DeskFrames), NEW u \in Seq(DeskFrames), NEW f \in DeskFrames
  PROVE  /\ w \o u \in Seq(DeskFrames)
         /\ u \o <<f>> = Append(u, f) /\ Append(u, f) \in Seq(DeskFrames)
         /\ w \o Append(u, f) = Append(w \o u, f)
<1>1. w \o u \in Seq(DeskFrames) /\ Append(u, f) \in Seq(DeskFrames) /\ <<f>> \in Seq(DeskFrames)
  BY ConcatProperties, AppendProperties
<1>2. w \o (u \o <<f>>) = (w \o u) \o <<f>>
  BY <1>1, ConcatAssociative
<1> QED
  BY <1>1, <1>2, AppendIsConcat

-----------------------------------------------------------------------------
OkFor(A, x) == \E a \in A : a.answer = "ok" /\ a.call = x
Answered(A) == \E a \in A : a.answer # "sent" /\ ~a.behind

\* What the ring r, the dialog o, the frames q under way (u of them not yet sent), the
\* acceptances A and the declines up say of one another; b: the dialog was cut off.
Agree(r, o, q, u, b, A, up) ==
  \A x \in Offered :
    /\ Shows(NoCall, q, x) => r = x
    /\ Shows(NoCall, u, x) => r = x
    /\ Offers(q) /\ r = x => Shows(NoCall, q, x)
    /\ ~b /\ r = x => Shows(o, q, x) \/ x \in Range(up)
    /\ ~b /\ r = x /\ Answered(A) => Shows(NoCall, q, x) \/ x \in Range(up)
    /\ ~b /\ Shows(o, q, x) => r = x \/ (o = x /\ OkFor(A, x))

Acceptance == [id: Nat, call: Offered, answer: {"sent", "ok", "refused"}, behind: BOOLEAN]

OfferTypes ==
  /\ ring \in Offered \cup {NoCall} /\ offer \in Offered \cup {NoCall}
  /\ wire \in Seq(DeskFrames) /\ unsent \in Seq(DeskFrames)
  /\ uplink \in Seq(Offered) /\ pending \in Seq(Offered)
  /\ accepts \subseteq Acceptance /\ clicks \in Nat
  /\ blind \in BOOLEAN /\ overtaken \in BOOLEAN /\ link \in {"up", "down", "out"}

\* While the socket is down no ring is the desk's, and nothing is on it.
DownIsOut ==
  link = "down" =>
    agent = "offline" /\ ring = NoCall /\ wire = <<>> /\ (blind \/ offer = NoCall)

\* An acceptance that no newer offer came after is for the offer shown, if one is.
AcceptsShown == \A a \in accepts : a.behind \/ offer \in {a.call, NoCall}

OffersInv ==
  /\ OfferTypes /\ DownIsOut /\ AcceptsShown
  /\ link # "out" /\ ~overtaken =>
       Agree(ring, offer, wire \o unsent, unsent, blind, accepts, uplink)

-----------------------------------------------------------------------------
\* The ring stops while a frame says so: what else is shown has been accepted.
LEMMA AgreeEnds ==
  ASSUME NEW r \in Offered, NEW o, NEW q \in Seq(DeskFrames), NEW u \in Seq(DeskFrames),
         NEW b \in BOOLEAN, NEW A, NEW up, NEW up2, Agree(r, o, q, u, b, A, up),
         NEW f \in DeskFrames, f.kind # "call.offer", f.call = r
  PROVE  Agree(NoCall, o, Append(q, f), Append(u, f), b, A, up2)
<1>1. r # NoCall
  BY DeskOffersAssumption
<1>2. \A x : f # Frame("call.offer", x)
  BY DEF Frame
<1>3. Ousts(f, r)
  BY DEF Ousts
<1> SUFFICES ASSUME NEW x \in Offered
             PROVE  /\ ~Shows(NoCall, Append(q, f), x)
                    /\ ~Shows(NoCall, Append(u, f), x)
                    /\ ~b /\ Shows(o, Append(q, f), x) => o = x /\ OkFor(A, x)
  BY DeskOffersAssumption DEF Agree
<1>4. /\ Shows(NoCall, q, x) => r = x
      /\ Shows(NoCall, u, x) => r = x
      /\ ~b /\ Shows(o, q, x) => r = x \/ (o = x /\ OkFor(A, x))
  BY DEF Agree
<1>5. /\ Shows(NoCall, Append(q, f), x) => ~Ousts(f, x) /\ Shows(NoCall, q, x)
      /\ Shows(NoCall, Append(u, f), x) => ~Ousts(f, x) /\ Shows(NoCall, u, x)
      /\ Shows(o, Append(q, f), x) => ~Ousts(f, x) /\ Shows(o, q, x)
  BY <1>2, ShowsAppend
<1> QED
  BY <1>3, <1>4, <1>5

\* Another call ends, which concerns neither the ring nor who is to see it.
LEMMA AgreeOther ==
  ASSUME NEW r \in Offered \cup {NoCall}, NEW o, NEW q \in Seq(DeskFrames),
         NEW u \in Seq(DeskFrames), NEW b \in BOOLEAN, NEW A, NEW up,
         Agree(r, o, q, u, b, A, up),
         NEW f \in DeskFrames, f.kind \in {"call.offer.cancelled", "ended"}, f.call # r
  PROVE  Agree(r, o, Append(q, f), Append(u, f), b, A, up)
<1>1. \A x : f # Frame("call.offer", x)
  BY DEF Frame
<1>2. ~Ousts(f, r)
  BY DEF Ousts
<1>3. Offers(Append(q, f)) => Offers(q)
  <2>1. /\ Len(q) \in Nat /\ Len(Append(q, f)) = Len(q) + 1 /\ Append(q, f)[Len(q) + 1] = f
        /\ \A i \in 1..Len(q) : Append(q, f)[i] = q[i]
    BY AppendProperties, LenProperties
  <2> QED
    BY <2>1 DEF Offers
<1> SUFFICES ASSUME NEW x \in Offered
             PROVE  /\ Shows(NoCall, Append(q, f), x) => r = x
                    /\ Shows(NoCall, Append(u, f), x) => r = x
                    /\ Offers(Append(q, f)) /\ r = x => Shows(NoCall, Append(q, f), x)
                    /\ ~b /\ r = x => Shows(o, Append(q, f), x) \/ x \in Range(up)
                    /\ ~b /\ r = x /\ Answered(A)
                         => Shows(NoCall, Append(q, f), x) \/ x \in Range(up)
                    /\ ~b /\ Shows(o, Append(q, f), x) => r = x \/ (o = x /\ OkFor(A, x))
  BY DEF Agree
<1>4. /\ Shows(NoCall, q, x) => r = x
      /\ Shows(NoCall, u, x) => r = x
      /\ Offers(q) /\ r = x => Shows(NoCall, q, x)
      /\ ~b /\ r = x => Shows(o, q, x) \/ x \in Range(up)
      /\ ~b /\ r = x /\ Answered(A) => Shows(NoCall, q, x) \/ x \in Range(up)
      /\ ~b /\ Shows(o, q, x) => r = x \/ (o = x /\ OkFor(A, x))
  BY DEF Agree
<1>5. /\ Shows(NoCall, Append(q, f), x) <=> ~Ousts(f, x) /\ Shows(NoCall, q, x)
      /\ Shows(NoCall, Append(u, f), x) <=> ~Ousts(f, x) /\ Shows(NoCall, u, x)
      /\ Shows(o, Append(q, f), x) <=> ~Ousts(f, x) /\ Shows(o, q, x)
  BY <1>1, ShowsAppend
<1> QED
  BY <1>2, <1>3, <1>4, <1>5

\* The ring is offered.
LEMMA AgreeRings ==
  ASSUME NEW c \in Offered, NEW o, NEW q \in Seq(DeskFrames), NEW u \in Seq(DeskFrames),
         NEW b \in BOOLEAN, NEW A, NEW up, Agree(NoCall, o, q, u, b, A, up)
  PROVE  Agree(c, o, Append(q, Frame("call.offer", c)), Append(u, Frame("call.offer", c)), b, A, up)
<1> DEFINE f == Frame("call.offer", c)
<1>1. f \in DeskFrames /\ \A x : Ousts(f, x) /\ (f = Frame("call.offer", x) <=> c = x)
  BY FrameType DEF Ousts, Frame
<1> HIDE DEF f
<1>2. \A x : /\ Shows(NoCall, Append(q, f), x) <=> c = x
             /\ Shows(NoCall, Append(u, f), x) <=> c = x
             /\ Shows(o, Append(q, f), x) <=> c = x
  BY <1>1, ShowsAppend
<1> QED
  BY <1>2 DEF Agree, f

\* The desk receives its oldest frame.
LEMMA AgreeReceives ==
  ASSUME NEW r \in Offered \cup {NoCall}, NEW o, NEW q \in Seq(DeskFrames), q # <<>>,
         NEW u, NEW b \in BOOLEAN, NEW b2 \in BOOLEAN, NEW A, NEW A2, NEW up,
         Agree(r, o, q, u, b, A, up),
         Head(q).kind # "call.offer" => b2 = b /\ A2 = A,
         Head(q).kind = "call.offer" => ~Answered(A2)
  PROVE  Agree(r, Applied(o, Head(q)), Tail(q), u, b2, A2, up)
<1> DEFINE h == Head(q)
           t == Tail(q)
           p == Applied(o, h)
<1>1. h \in DeskFrames
  BY ShowsTail, HeadTailProperties
<1>2. /\ h.kind = "call.offer" => p = h.call
      /\ h.kind # "call.offer" => p \in {o, NoCall}
  BY <1>1 DEF Applied, DeskFrames
<1> SUFFICES ASSUME NEW x \in Offered
             PROVE  /\ Shows(NoCall, t, x) => r = x
                    /\ Shows(NoCall, u, x) => r = x
                    /\ Offers(t) /\ r = x => Shows(NoCall, t, x)
                    /\ ~b2 /\ r = x => Shows(p, t, x) \/ x \in Range(up)
                    /\ ~b2 /\ r = x /\ Answered(A2) => Shows(NoCall, t, x) \/ x \in Range(up)
                    /\ ~b2 /\ Shows(p, t, x) => r = x \/ (p = x /\ OkFor(A2, x))
  BY DEF Agree
<1>3. /\ Shows(NoCall, q, x) => r = x
      /\ Shows(NoCall, u, x) => r = x
      /\ Offers(q) /\ r = x => Shows(NoCall, q, x)
      /\ ~b /\ r = x => Shows(o, q, x) \/ x \in Range(up)
      /\ ~b /\ r = x /\ Answered(A) => Shows(NoCall, q, x) \/ x \in Range(up)
      /\ ~b /\ Shows(o, q, x) => r = x \/ (o = x /\ OkFor(A, x))
  BY DEF Agree
<1>4. x # NoCall
  BY DeskOffersAssumption
<1>5. t \in Seq(DeskFrames)
  BY ShowsTail
<1>6. /\ Shows(o, q, x) <=> Shows(p, t, x)
      /\ Shows(NoCall, t, x) => Shows(NoCall, q, x)
      /\ Shows(p, t, x) => Shows(NoCall, t, x) \/ p = x
      /\ Offers(t) => Offers(q)
      /\ h.kind = "call.offer" => Offers(q)
      /\ Shows(NoCall, q, x) => Shows(NoCall, t, x) \/ (h.kind = "call.offer" /\ ~Offers(t))
  BY <1>5, ShowsReceive, ShowsTail, ShowsStart
<1>7. h.kind = "call.offer" => (Shows(NoCall, q, x) <=> Shows(p, t, x))
  <2>1. h.kind = "call.offer" => Applied(NoCall, h) = p
    BY <1>1 DEF Applied, DeskFrames
  <2> QED
    BY <2>1, ShowsReceive
<1> HIDE DEF h, t, p
<1>8. CASE h.kind = "call.offer"
  <2>1. ~Answered(A2)
    BY <1>8 DEF h
  <2> QED
    BY <1>3, <1>6, <1>7, <1>8, <2>1
<1>9. CASE h.kind # "call.offer"
  <2>1. b2 = b /\ A2 = A
    BY <1>9 DEF h
  <2>2. p = o \/ p = NoCall
    BY <1>2, <1>9
  <2> QED
    BY <1>3, <1>4, <1>6, <1>9, <2>1, <2>2
<1> QED
  BY <1>8, <1>9

LEMMA OffersInitInv == DeskInit => OffersInv
<1> SUFFICES ASSUME DeskInit PROVE OffersInv
  OBVIOUS
<1>1. /\ <<>> \in Seq(DeskFrames) /\ <<>> \in Seq(Offered) /\ <<>> \o <<>> = <<>>
      /\ Len(<<>>) = 0 /\ ~Offers(<<>>)
  <2>1. <<>> \in Seq(DeskFrames) /\ <<>> \in Seq(Offered) /\ Len(<<>>) = 0
    BY EmptySeq
  <2> QED
    BY <2>1, ConcatEmptySeq DEF Offers
<1>2. OfferTypes /\ DownIsOut /\ AcceptsShown
  BY <1>1 DEF DeskInit, OfferTypes, DownIsOut, AcceptsShown
<1>3. Agree(NoCall, NoCall, <<>>, <<>>, FALSE, {}, <<>>)
  BY <1>1, ShowsNothing, DeskOffersAssumption DEF Agree
<1> QED
  BY <1>1, <1>2, <1>3 DEF OffersInv, DeskInit

-----------------------------------------------------------------------------
\* Nothing is on its way to be shown, and no ring is the desk's.
LEMMA AgreeQuiet ==
  ASSUME NEW o, NEW q, NEW u, NEW b, NEW A, NEW up,
         \A x \in Offered : ~Shows(NoCall, q, x) /\ ~Shows(NoCall, u, x),
         ~b => \A x \in Offered : ~Shows(o, q, x)
  PROVE  Agree(NoCall, o, q, u, b, A, up)
  BY DeskOffersAssumption DEF Agree

\* A ring that stops is cancelled after whatever was to be sent of it.
LEMMA Stopped ==
  ASSUME NEW r \in Offered \cup {NoCall}, NEW u \in Seq(DeskFrames),
         \A x \in Offered : Shows(NoCall, u, x) => r = x
  PROVE  /\ u \o Cancelling(r) \in Seq(DeskFrames)
         /\ \A x \in Offered : ~Shows(NoCall, u \o Cancelling(r), x)
<1>1. CASE r = NoCall
  BY <1>1, ConcatEmptySeq, DeskOffersAssumption DEF Cancelling
<1>2. CASE r \in Offered
  <2> DEFINE f == Frame("call.offer.cancelled", r)
  <2>1. f \in DeskFrames /\ Ousts(f, r) /\ \A x : f # Frame("call.offer", x)
    BY <1>2, FrameType DEF Ousts, Frame
  <2>2. u \o Cancelling(r) = Append(u, f) /\ Append(u, f) \in Seq(DeskFrames)
    BY <1>2, <2>1, QueueAppend, DeskOffersAssumption DEF Cancelling
  <2> HIDE DEF f
  <2>3. \A x \in Offered : Shows(NoCall, Append(u, f), x) => ~Ousts(f, x) /\ Shows(NoCall, u, x)
    BY <2>1, ShowsAppend
  <2> QED
    BY <2>1, <2>2, <2>3
<1> QED
  BY <1>1, <1>2

LEMMA QueueTail ==
  ASSUME NEW w \in Seq(DeskFrames), w # <<>>, NEW u \in Seq(DeskFrames)
  PROVE  /\ w \o u # <<>> /\ Head(w \o u) = Head(w) /\ Tail(w \o u) = Tail(w) \o u
<1> DEFINE q == w \o u
           m == Len(w)
           n == Len(u)
<1>1. /\ q \in Seq(DeskFrames) /\ m \in Nat \ {0} /\ n \in Nat /\ Len(q) = m + n
      /\ \A i \in 1..(m + n) : q[i] = IF i <= m THEN w[i] ELSE u[i - m]
  <2>1. m \in Nat \ {0}
    BY EmptySeq
  <2> QED
    BY <2>1, ConcatProperties, LenProperties
<1>2. q # <<>>
  <2>1. Len(<<>>) = 0
    BY EmptySeq
  <2> HIDE DEF q, m, n
  <2> QED
    BY <1>1, <2>1
<1>3. Head(q) = q[1] /\ Head(w) = w[1] /\ q[1] = w[1]
  <2>1. 1 \in 1..(m + n) /\ 1 <= m
    BY <1>1
  <2>2. q[1] = w[1]
    BY <1>1, <2>1
  <2> QED
    BY <1>1, <1>2, <2>2
<1>4. /\ Tail(q) \in Seq(DeskFrames) /\ Len(Tail(q)) = m + n - 1
      /\ \A i \in 1..(m + n - 1) : Tail(q)[i] = q[i + 1]
  <2> HIDE DEF q
  <2> QED
    BY <1>1, <1>2, HeadTailProperties
<1>5. /\ Tail(w) \in Seq(DeskFrames) /\ Len(Tail(w)) = m - 1
      /\ \A i \in 1..(m - 1) : Tail(w)[i] = w[i + 1]
  BY HeadTailProperties
<1> DEFINE t == Tail(w)
<1>6. /\ t \o u \in Seq(DeskFrames) /\ Len(t \o u) = m - 1 + n
      /\ \A i \in 1..(m - 1 + n) : (t \o u)[i] = IF i <= m - 1 THEN t[i] ELSE u[i - (m - 1)]
  BY <1>1, <1>5, ConcatProperties
<1> DEFINE p == t \o u
           z == Tail(q)
<1>7. z = p
  <2> HIDE DEF m, n, t, q, p, z
  <2>1. Len(z) = Len(p)
    BY <1>1, <1>4, <1>6 DEF z, p
  <2>2. \A i \in 1..Len(z) : z[i] = p[i]
    <3> SUFFICES ASSUME NEW i \in 1..(m + n - 1) PROVE z[i] = p[i]
      BY <1>1, <1>4 DEF z
    <3>1. z[i] = q[i + 1] /\ i + 1 \in 1..(m + n)
      BY <1>1, <1>4 DEF z
    <3>2. i \in 1..(m - 1 + n) /\ i + 1 - m = i - (m - 1)
      BY <1>1
    <3>3. CASE i <= m - 1
      <4>1. i \in 1..(m - 1) /\ i + 1 <= m
        BY <1>1, <3>3
      <4> QED
        BY <1>1, <1>5, <1>6, <3>1, <3>2, <3>3, <4>1 DEF p, t
    <3>4. CASE ~(i <= m - 1)
      <4>1. ~(i + 1 <= m) /\ (i + 1) - m = i - (m - 1)
        BY <1>1, <3>4
      <4>2. q[i + 1] = u[(i + 1) - m]
        BY <1>1, <3>1, <4>1
      <4>3. p[i] = u[i - (m - 1)]
        BY <1>6, <3>2, <3>4 DEF p
      <4> QED
        BY <3>1, <4>1, <4>2, <4>3
    <3> QED
      BY <3>3, <3>4
  <2>3. z \in Seq(DeskFrames) /\ p \in Seq(DeskFrames)
    BY <1>4, <1>6 DEF z, p
  <2> QED
    BY <2>1, <2>2, <2>3, SeqEqual
<1> QED
  BY <1>2, <1>3, <1>7

\* The oldest unsent frame goes to the wire.
LEMMA QueueSend ==
  ASSUME NEW w \in Seq(DeskFrames), NEW u \in Seq(DeskFrames), u # <<>>
  PROVE  /\ Append(w, u[1]) \in Seq(DeskFrames) /\ RemoveAt(u, 1) = Tail(u)
         /\ Append(w, u[1]) \o Tail(u) = w \o u
<1>1. Len(u) \in Nat \ {0} /\ u[1] \in DeskFrames /\ Tail(u) \in Seq(DeskFrames)
  <2>1. Len(u) \in Nat \ {0}
    BY EmptySeq
  <2> QED
    BY <2>1, LenProperties, HeadTailProperties
<1>2. RemoveAt(u, 1) = Tail(u)
  <2>1. SubSeq(u, 1, 0) = <<>>
    BY SubSeqEmpty
  <2>2. Tail(u) = SubSeq(u, 2, Len(u))
    BY TailIsSubSeq
  <2>3. RemoveAt(u, 1) = SubSeq(u, 1, 0) \o SubSeq(u, 2, Len(u))
    BY DEF RemoveAt
  <2> QED
    BY <1>1, <2>1, <2>2, <2>3, ConcatEmptySeq
<1>3. u = <<u[1]>> \o Tail(u)
  <2>1. u[1] = Head(u)
    BY HeadTailProperties
  <2> QED
    BY <2>1, HeadTailAppend
<1> DEFINE f == u[1]
           t == Tail(u)
<1>4. <<f>> \in Seq(DeskFrames) /\ Append(w, f) = w \o <<f>>
  BY <1>1, AppendIsConcat
<1>5. Append(w, f) \in Seq(DeskFrames)
  BY <1>1, AppendProperties
<1>6. (w \o <<f>>) \o t = w \o (<<f>> \o t)
  BY <1>1, <1>4, ConcatAssociative
<1> QED
  BY <1>2, <1>3, <1>4, <1>5, <1>6

-----------------------------------------------------------------------------
\* The steps.  The queue of frames is the wire and what is still to be sent.
LEMMA QueueType ==
  ASSUME OfferTypes
  PROVE  wire \o unsent \in Seq(DeskFrames)
  BY ConcatProperties DEF OfferTypes

LEMMA ReceiveStep == ASSUME OffersInv, Receive PROVE OffersInv'
<1> DEFINE h == Head(wire)
           q == wire \o unsent
<1>1. /\ link = "up" /\ wire # <<>> /\ wire' = Tail(wire) /\ offer' = Applied(offer, h)
      /\ blind' = (blind /\ h.kind # "call.offer")
      /\ accepts' = (IF h.kind = "call.offer" THEN {[a EXCEPT !.behind = TRUE] : a \in accepts}
                     ELSE accepts)
      /\ link' = (IF h.kind = "logout" THEN "out" ELSE link)
      /\ UNCHANGED <<ring, agent, unsent, pending, uplink, overtaken, clicks>>
  BY DEF Receive, serverVars, bounds
<1>2. OfferTypes /\ AcceptsShown
  BY DEF OffersInv
<1>3. h \in DeskFrames /\ Tail(wire) \in Seq(DeskFrames)
  BY <1>1, <1>2, HeadTailProperties DEF OfferTypes
<1>4. /\ q \in Seq(DeskFrames) /\ q # <<>> /\ Head(q) = h /\ Tail(q) = wire' \o unsent'
  BY <1>1, <1>2, QueueTail, QueueType DEF OfferTypes
<1>5. /\ h.kind = "call.offer" => offer' = h.call
      /\ h.kind # "call.offer" => offer' \in {offer, NoCall}
      /\ h.call \in Offered \cup {NoCall}
  BY <1>1, <1>3 DEF Applied, DeskFrames
<1>6. accepts' \subseteq Acceptance /\ (h.kind = "call.offer" => \A a \in accepts' : a.behind)
  <2>1. \A a \in accepts : /\ [a EXCEPT !.behind = TRUE] \in Acceptance
                           /\ [a EXCEPT !.behind = TRUE].behind
    BY <1>2 DEF OfferTypes, Acceptance
  <2> QED
    BY <1>1, <1>2, <2>1 DEF OfferTypes
<1> HIDE DEF h, q
<1>7. OfferTypes' /\ DownIsOut'
  BY <1>1, <1>2, <1>3, <1>5, <1>6 DEF OfferTypes, DownIsOut
<1>8. AcceptsShown'
  <2>1. CASE h.kind = "call.offer"
    BY <1>6, <2>1 DEF AcceptsShown
  <2>2. CASE h.kind # "call.offer"
    BY <1>1, <1>2, <1>5, <2>2 DEF AcceptsShown
  <2> QED
    BY <2>1, <2>2
<1>9. ASSUME ~overtaken'
      PROVE  Agree(ring, Applied(offer, h), Tail(q), unsent, blind', accepts', uplink)
  <2>1. Agree(ring, offer, q, unsent, blind, accepts, uplink)
    BY <1>1, <1>9 DEF OffersInv, q
  <2>2. blind' \in BOOLEAN /\ ring \in Offered \cup {NoCall} /\ blind \in BOOLEAN
    BY <1>2, <1>7 DEF OfferTypes
  <2>3. h.kind # "call.offer" => blind' = blind /\ accepts' = accepts
    BY <1>1, <1>2 DEF OfferTypes
  <2>4. h.kind = "call.offer" => ~Answered(accepts')
    BY <1>6 DEF Answered
  <2> QED
    BY <1>4, <2>1, <2>2, <2>3, <2>4, AgreeReceives
<1> QED
  BY <1>1, <1>4, <1>7, <1>8, <1>9 DEF OffersInv

LEMMA RingStep == ASSUME OffersInv, NEW c \in Offered, Ring(c) PROVE OffersInv'
<1> DEFINE f == Frame("call.offer", c)
<1>1. /\ ring = NoCall /\ agent = "ready" /\ ring' = c /\ unsent' = Append(unsent, f)
      /\ UNCHANGED <<agent, link, wire, pending, uplink, offer, accepts, blind, overtaken, clicks>>
  BY DEF Ring, linkVars
<1>2. OfferTypes /\ AcceptsShown /\ DownIsOut
  BY DEF OffersInv
<1>3. f \in DeskFrames
  BY FrameType
<1>4. unsent' \in Seq(DeskFrames) /\ wire' \o unsent' = Append(wire \o unsent, f)
  BY <1>1, <1>2, <1>3, QueueAppend DEF OfferTypes
<1>5. OfferTypes' /\ DownIsOut' /\ AcceptsShown'
  BY <1>1, <1>2, <1>4 DEF OfferTypes, DownIsOut, AcceptsShown
<1>6. ASSUME link' # "out", ~overtaken'
      PROVE  Agree(c, offer, Append(wire \o unsent, f), Append(unsent, f), blind, accepts, uplink)
  <2>1. Agree(NoCall, offer, wire \o unsent, unsent, blind, accepts, uplink)
    BY <1>1, <1>6 DEF OffersInv
  <2> QED
    BY <1>2, <2>1, QueueType, AgreeRings DEF OfferTypes
<1> HIDE DEF f
<1> QED
  BY <1>1, <1>4, <1>5, <1>6 DEF OffersInv

\* The ring is moved on, and its cancellation sent.
LEMMA CancelStep ==
  ASSUME OffersInv, ring # NoCall, ring' = NoCall, unsent' = unsent \o Cancelling(ring),
         uplink' \in Seq(Offered),
         UNCHANGED <<link, wire, pending, offer, accepts, blind, overtaken, clicks>>
  PROVE  OffersInv'
<1> DEFINE f == Frame("call.offer.cancelled", ring)
<1>1. OfferTypes /\ AcceptsShown /\ DownIsOut
  BY DEF OffersInv
<1>2. ring \in Offered
  BY <1>1 DEF OfferTypes
<1>3. f \in DeskFrames /\ f.kind # "call.offer" /\ f.call = ring
  BY <1>2, FrameType
<1>4. /\ unsent' = Append(unsent, f) /\ unsent' \in Seq(DeskFrames)
      /\ wire' \o unsent' = Append(wire \o unsent, f)
  BY <1>1, <1>3, QueueAppend DEF OfferTypes, Cancelling
<1>5. link # "down"
  BY <1>1 DEF DownIsOut
<1>6. OfferTypes' /\ DownIsOut' /\ AcceptsShown'
  BY <1>1, <1>4, <1>5 DEF OfferTypes, DownIsOut, AcceptsShown
<1> HIDE DEF f
<1>7. ASSUME link' # "out", ~overtaken'
      PROVE  Agree(NoCall, offer, Append(wire \o unsent, f), Append(unsent, f), blind, accepts, uplink')
  <2>1. Agree(ring, offer, wire \o unsent, unsent, blind, accepts, uplink)
    BY <1>7 DEF OffersInv
  <2> QED
    BY <1>1, <1>2, <1>3, <2>1, QueueType, AgreeEnds DEF OfferTypes
<1> QED
  BY <1>4, <1>6, <1>7 DEF OffersInv

LEMMA EndStep ==
  ASSUME OffersInv, NEW c \in Offered, NEW left, EndCall(c, left),
         UNCHANGED <<linkVars, offer, active, accepts, blind, overtaken, bounds>>
  PROVE  OffersInv'
<1> DEFINE e == Frame("ended", c)
           f == Frame("call.offer.cancelled", c)
           q == wire \o unsent
<1>1. /\ ring' = (IF ring = c THEN NoCall ELSE ring)
      /\ unsent' = unsent \o <<e>> \o (IF ring = c THEN Cancelling(c) ELSE <<>>)
      /\ agent' = (IF agent = "busy" /\ active \in {c, NoCall} THEN "acw" ELSE agent)
      /\ UNCHANGED <<link, wire, pending, uplink, offer, accepts, blind, overtaken, clicks>>
  BY DEF EndCall, linkVars, bounds
<1>2. OfferTypes /\ AcceptsShown /\ DownIsOut
  BY DEF OffersInv
<1>3. e \in DeskFrames /\ e.kind = "ended" /\ e.call = c
      /\ f \in DeskFrames /\ f.kind = "call.offer.cancelled" /\ f.call = c
  BY FrameType
<1> HIDE DEF e, f
<1>4. /\ unsent \o <<e>> = Append(unsent, e) /\ Append(unsent, e) \in Seq(DeskFrames)
      /\ wire \o Append(unsent, e) = Append(q, e)
      /\ q \in Seq(DeskFrames) /\ Append(q, e) \in Seq(DeskFrames)
  BY <1>2, <1>3, QueueAppend, AppendProperties DEF OfferTypes
<1>5. CASE ring = c
  <2>1. Cancelling(c) = <<f>>
    BY DeskOffersAssumption DEF Cancelling, f
  <2>2. /\ unsent' = Append(Append(unsent, e), f) /\ unsent' \in Seq(DeskFrames)
        /\ wire' \o unsent' = Append(Append(q, e), f)
    <3> DEFINE u == Append(unsent, e)
    <3>1. u \in Seq(DeskFrames) /\ wire \in Seq(DeskFrames) /\ wire \o u = Append(q, e)
      BY <1>2, <1>4 DEF OfferTypes
    <3>2. unsent' = u \o <<f>> /\ wire' = wire
      BY <1>1, <1>4, <1>5, <2>1
    <3> HIDE DEF u
    <3>3. u \o <<f>> = Append(u, f) /\ Append(u, f) \in Seq(DeskFrames)
          /\ wire \o Append(u, f) = Append(wire \o u, f)
      BY <1>3, <3>1, QueueAppend
    <3> QED
      BY <3>1, <3>2, <3>3 DEF u
  <2>3. OfferTypes' /\ DownIsOut' /\ AcceptsShown'
    BY <1>1, <1>2, <1>5, <2>2 DEF OfferTypes, DownIsOut, AcceptsShown
  <2>4. ASSUME link' # "out", ~overtaken'
        PROVE  Agree(NoCall, offer, Append(Append(q, e), f), Append(Append(unsent, e), f),
                     blind, accepts, uplink)
    <3>1. Agree(c, offer, q, unsent, blind, accepts, uplink)
      BY <1>1, <1>5, <2>4 DEF OffersInv
    <3>2. Agree(NoCall, offer, Append(q, e), Append(unsent, e), blind, accepts, uplink)
      BY <1>2, <1>3, <1>4, <3>1, AgreeEnds DEF OfferTypes
    <3> QED
      BY <1>2, <1>3, <1>4, <3>2, AgreeOther, DeskOffersAssumption DEF OfferTypes
  <2> QED
    BY <1>1, <1>5, <2>2, <2>3, <2>4 DEF OffersInv
<1>6. CASE ring # c
  <2>1. unsent' = Append(unsent, e) /\ wire' \o unsent' = Append(q, e)
    BY <1>1, <1>4, <1>6, ConcatEmptySeq
  <2>2. OfferTypes' /\ DownIsOut' /\ AcceptsShown'
    BY <1>1, <1>2, <1>4, <1>6, <2>1 DEF OfferTypes, DownIsOut, AcceptsShown
  <2>3. ASSUME link' # "out", ~overtaken'
        PROVE  Agree(ring, offer, Append(q, e), Append(unsent, e), blind, accepts, uplink)
    <3>1. Agree(ring, offer, q, unsent, blind, accepts, uplink)
      BY <1>1, <2>3 DEF OffersInv
    <3> QED
      BY <1>2, <1>3, <1>4, <1>6, <3>1, AgreeOther DEF OfferTypes
  <2> QED
    BY <1>1, <1>6, <2>1, <2>2, <2>3 DEF OffersInv
<1> QED
  BY <1>5, <1>6

LEMMA SendStep == ASSUME OffersInv, NEW i \in 1..Len(unsent), Send(i) PROVE OffersInv'
<1>1. /\ unsent' = RemoveAt(unsent, i)
      /\ wire' = (IF link = "up" THEN Append(wire, unsent[i]) ELSE wire)
      /\ overtaken' = (overtaken \/ i > 1)
      /\ UNCHANGED <<ring, agent, link, pending, uplink, offer, accepts, blind, clicks>>
  BY DEF Send, bounds
<1>2. OfferTypes /\ AcceptsShown /\ DownIsOut
  BY DEF OffersInv
<1>3. /\ Len(unsent) \in Nat /\ unsent[i] \in DeskFrames /\ unsent # <<>>
      /\ unsent \in Seq(DeskFrames)
  <2>1. Len(unsent) \in Nat /\ unsent \in [1..Len(unsent) -> DeskFrames]
    BY <1>2, LenProperties DEF OfferTypes
  <2>2. unsent # <<>>
    BY EmptySeq
  <2> QED
    BY <1>2, <2>1, <2>2 DEF OfferTypes
<1>4. unsent' \in Seq(DeskFrames) /\ wire' \in Seq(DeskFrames)
  <2>1. \A m \in 1..(i - 1), n \in (i + 1)..Len(unsent) : unsent[m] \in DeskFrames /\ unsent[n] \in DeskFrames
    BY <1>3, LenProperties
  <2>2. SubSeq(unsent, 1, i - 1) \in Seq(DeskFrames)
    <3>1. \A m \in 1..(i - 1) : unsent[m] \in DeskFrames
      <4>1. \A m \in 1..(i - 1) : m \in 1..Len(unsent)
        BY <1>3
      <4> QED
        BY <1>3, <4>1, LenProperties
    <3> QED
      BY <1>3, <3>1, SubSeqProperties
  <2>3. SubSeq(unsent, i + 1, Len(unsent)) \in Seq(DeskFrames)
    <3>1. \A m \in (i + 1)..Len(unsent) : unsent[m] \in DeskFrames
      <4>1. \A m \in (i + 1)..Len(unsent) : m \in 1..Len(unsent)
        BY <1>3
      <4> QED
        BY <1>3, <4>1, LenProperties
    <3>2. i + 1 \in Int /\ Len(unsent) \in Int
      BY <1>3
    <3> QED
      BY <3>1, <3>2, SubSeqProperties
  <2>4. RemoveAt(unsent, i) \in Seq(DeskFrames)
    BY <2>2, <2>3, ConcatProperties DEF RemoveAt
  <2> QED
    BY <1>1, <1>2, <1>3, <2>4, AppendProperties DEF OfferTypes
<1>5. OfferTypes' /\ AcceptsShown' /\ DownIsOut'
  BY <1>1, <1>2, <1>4 DEF OfferTypes, DownIsOut, AcceptsShown
<1>6. ASSUME link' # "out", ~overtaken'
      PROVE  Agree(ring, offer, wire' \o unsent', unsent', blind, accepts, uplink)
  <2>1. i = 1
    <3>1. ~(i > 1)
      BY <1>1, <1>6
    <3> QED
      BY <1>3, <3>1
  <2>2. unsent' = Tail(unsent) /\ Append(wire, unsent[1]) \o Tail(unsent) = wire \o unsent
    BY <1>1, <1>2, <1>3, <2>1, QueueSend DEF OfferTypes
  <2>3. Agree(ring, offer, wire \o unsent, unsent, blind, accepts, uplink)
    BY <1>1, <1>2, <1>6 DEF OffersInv, OfferTypes
  <2>4. \A x \in Offered : Shows(NoCall, Tail(unsent), x) => Shows(NoCall, unsent, x)
    BY <1>3, ShowsTail
  <2>5. CASE link = "up"
    <3>1. wire' \o unsent' = wire \o unsent
      BY <1>1, <2>1, <2>2, <2>5
    <3> QED
      BY <2>2, <2>3, <2>4, <3>1 DEF Agree
  <2>6. CASE link = "down"
    <3>1. wire' = <<>> /\ ring = NoCall /\ (blind \/ offer = NoCall)
      BY <1>1, <1>2, <2>6 DEF DownIsOut
    <3>2. wire' \o unsent' = Tail(unsent)
      BY <1>4, <2>2, <3>1, ConcatEmptySeq
    <3>3. \A x \in Offered : ~Shows(NoCall, Tail(unsent), x)
      BY <2>3, <2>4, <3>1, DeskOffersAssumption DEF Agree
    <3>4. ~blind => \A x \in Offered : ~Shows(offer, Tail(unsent), x)
      BY <3>1, <3>3
    <3>5. Agree(NoCall, offer, Tail(unsent), Tail(unsent), blind, accepts, uplink)
      BY <3>3, <3>4, AgreeQuiet
    <3> QED
      BY <2>2, <3>1, <3>2, <3>5
  <2>7. link = "up" \/ link = "down"
    BY <1>1, <1>2, <1>6 DEF OfferTypes
  <2> QED
    BY <2>5, <2>6, <2>7
<1> QED
  BY <1>1, <1>5, <1>6 DEF OffersInv

LEMMA AnswerStep == ASSUME OffersInv, NEW a \in accepts, Answer(a) PROVE OffersInv'
<1> DEFINE q == wire \o unsent
<1>1. /\ a.answer = "sent"
      /\ UNCHANGED <<unsent, link, wire, pending, uplink, offer, blind, clicks>>
  BY DEF Answer, linkVars, bounds
<1>2. OfferTypes /\ AcceptsShown /\ DownIsOut
  BY DEF OffersInv
<1>3. a \in Acceptance /\ a.call \in Offered
  BY <1>2 DEF OfferTypes, Acceptance
<1>4. ASSUME NEW k \in {"ok", "refused"}
      PROVE  LET b == [a EXCEPT !.answer = k]
             IN  b \in Acceptance /\ b.answer = k /\ b.call = a.call /\ (b.behind <=> a.behind)
  BY <1>3 DEF Acceptance
<1>5. CASE ring = a.call
  <2> DEFINE b == [a EXCEPT !.answer = "ok"]
  <2>1. /\ ring' = NoCall /\ agent' = "busy" /\ accepts' = (accepts \ {a}) \cup {b}
        /\ overtaken' = (overtaken \/ Frame("call.offer", ring) \in Range(wire \o unsent))
    BY <1>5 DEF Answer
  <2>2. b \in Acceptance /\ b.answer = "ok" /\ b.call = a.call /\ (b.behind <=> a.behind)
    BY <1>4
  <2> HIDE DEF b
  <2>3. link # "down"
    BY <1>2, <1>3, <1>5, DeskOffersAssumption DEF DownIsOut
  <2>4. OfferTypes' /\ DownIsOut'
    BY <1>1, <1>2, <2>1, <2>2, <2>3 DEF OfferTypes, DownIsOut
  <2>5. AcceptsShown'
    BY <1>1, <1>2, <2>1, <2>2 DEF AcceptsShown
  <2>6. ASSUME link' # "out", ~overtaken'
        PROVE  Agree(NoCall, offer, q, unsent, blind, accepts', uplink)
    <3>1. Agree(ring, offer, q, unsent, blind, accepts, uplink) /\ Frame("call.offer", ring) \notin Range(q)
      BY <1>1, <1>2, <2>1, <2>6 DEF OffersInv, OfferTypes
    <3>2. q \in Seq(DeskFrames) /\ wire \in Seq(DeskFrames) /\ unsent \in Seq(DeskFrames)
      BY <1>2, QueueType DEF OfferTypes
    <3>3. \A i \in 1..Len(unsent) : unsent[i] \in Range(q)
      <4> SUFFICES ASSUME NEW i \in 1..Len(unsent) PROVE unsent[i] \in Range(q)
        OBVIOUS
      <4> DEFINE j == Len(wire) + i
      <4>1. /\ Len(wire) \in Nat /\ Len(unsent) \in Nat /\ Len(q) = Len(wire) + Len(unsent)
            /\ \A k \in 1..(Len(wire) + Len(unsent)) :
                 q[k] = IF k <= Len(wire) THEN wire[k] ELSE unsent[k - Len(wire)]
        BY <3>2, ConcatProperties, LenProperties
      <4>2. j \in 1..(Len(wire) + Len(unsent)) /\ ~(j <= Len(wire)) /\ j - Len(wire) = i
        BY <4>1
      <4> HIDE DEF j, q
      <4>3. q[j] = unsent[i] /\ j \in DOMAIN q
        BY <3>2, <4>1, <4>2, LenProperties
      <4> QED
        BY <4>3 DEF Range
    <3>4. \A i \in 1..Len(q) : q[i] \in Range(q)
      BY <3>2, LenProperties DEF Range
    <3> HIDE DEF q
    <3>5. ASSUME NEW x \in Offered PROVE ~Shows(NoCall, q, x) /\ ~Shows(NoCall, unsent, x)
      BY <3>1, <3>2, <3>3, <3>4, ShowsStart DEF Agree
    <3>6. ASSUME NEW x \in Offered, ~blind, Shows(offer, q, x) PROVE offer = x /\ OkFor(accepts', x)
      <4>1. offer = x
        BY <3>2, <3>5, <3>6, ShowsStart
      <4>2. ASSUME ring = x PROVE OkFor(accepts', x)
        <5>1. b \in accepts' /\ b.answer = "ok" /\ b.call = x
          BY <1>5, <2>1, <2>2, <4>2
        <5> QED
          BY <5>1 DEF OkFor
      <4>3. ASSUME OkFor(accepts, x) PROVE OkFor(accepts', x)
        <5>1. PICK e \in accepts : e.answer = "ok" /\ e.call = x
          BY <4>3 DEF OkFor
        <5>2. e \in accepts'
          BY <1>1, <2>1, <5>1
        <5> QED
          BY <5>1, <5>2 DEF OkFor
      <4> QED
        BY <3>1, <3>6, <4>1, <4>2, <4>3 DEF Agree
    <3> QED
      BY <3>5, <3>6, DeskOffersAssumption DEF Agree
  <2> QED
    BY <1>1, <2>1, <2>4, <2>5, <2>6 DEF OffersInv
<1>6. CASE ring # a.call
  <2> DEFINE b == [a EXCEPT !.answer = "refused"]
  <2>1. UNCHANGED <<ring, agent, overtaken>> /\ accepts' = (accepts \ {a}) \cup {b}
    BY <1>6 DEF Answer
  <2>2. b \in Acceptance /\ b.answer = "refused" /\ b.call = a.call /\ (b.behind <=> a.behind)
    BY <1>4
  <2> HIDE DEF b
  <2>3. OfferTypes' /\ DownIsOut'
    BY <1>1, <1>2, <2>1, <2>2 DEF OfferTypes, DownIsOut
  <2>4. AcceptsShown'
    BY <1>1, <1>2, <2>1, <2>2 DEF AcceptsShown
  <2>5. ASSUME link' # "out", ~overtaken'
        PROVE  Agree(ring, offer, q, unsent, blind, accepts', uplink)
    <3>1. Agree(ring, offer, q, unsent, blind, accepts, uplink)
      BY <1>1, <2>1, <2>5 DEF OffersInv
    <3>2. q \in Seq(DeskFrames)
      BY <1>2, QueueType DEF OfferTypes
    <3> HIDE DEF q
    <3>3. \A x : OkFor(accepts, x) => OkFor(accepts', x)
      BY <1>1, <2>1 DEF OkFor
    <3>4. Answered(accepts') => Answered(accepts) \/ offer \in {a.call, NoCall}
      BY <1>2, <2>1, <2>2 DEF Answered, AcceptsShown
    <3>5. ASSUME NEW x \in Offered, ~blind, ring = x, offer \in {a.call, NoCall}
          PROVE  Shows(NoCall, q, x) \/ x \in Range(uplink)
      <4>1. Shows(offer, q, x) \/ x \in Range(uplink)
        BY <3>1, <3>5 DEF Agree
      <4>2. offer # x
        BY <1>6, <3>5, DeskOffersAssumption
      <4> QED
        BY <3>2, <4>1, <4>2, ShowsStart
    <3> QED
      BY <3>1, <3>3, <3>4, <3>5 DEF Agree
  <2> QED
    BY <1>1, <2>1, <2>3, <2>4, <2>5 DEF OffersInv
<1> QED
  BY <1>5, <1>6

\* Of the declines under way only those of the ring matter.
LEMMA AgreeUplink ==
  ASSUME NEW r, NEW o, NEW q, NEW u, NEW b, NEW A, NEW up, NEW up2,
         Agree(r, o, q, u, b, A, up),
         r \in Offered /\ r \in Range(up) => r \in Range(up2)
  PROVE  Agree(r, o, q, u, b, A, up2)
  BY DEF Agree

LEMMA TailRange ==
  ASSUME NEW S, NEW s \in Seq(S), s # <<>>
  PROVE  Head(s) \in S /\ Tail(s) \in Seq(S) /\ Range(s) \subseteq {Head(s)} \cup Range(Tail(s))
<1> DEFINE t == Tail(s)
           n == Len(t)
           h == Head(s)
<1>1. /\ h \in S /\ t \in Seq(S) /\ n \in Nat /\ Len(s) = n + 1 /\ s[1] = h
      /\ \A i \in 1..n : t[i] = s[i + 1]
  <2>1. s[1] = h /\ h \in S /\ t \in Seq(S)
    BY HeadTailProperties
  <2>2. Len(t) = Len(s) - 1 /\ \A i \in 1..Len(t) : t[i] = s[i + 1]
    BY HeadTailProperties
  <2>3. Len(s) \in Nat /\ Len(t) \in Nat
    BY <2>1, LenProperties
  <2> QED
    BY <2>1, <2>2, <2>3
<1>2. DOMAIN s = 1..(n + 1) /\ DOMAIN t = 1..n
  BY <1>1, LenProperties
<1> HIDE DEF t, n, h
<1>3. ASSUME NEW i \in 1..(n + 1) PROVE s[i] = h \/ s[i] \in Range(t)
  <2>1. CASE i = 1
    BY <1>1, <2>1
  <2>2. CASE i # 1
    <3>1. i - 1 \in 1..n /\ (i - 1) + 1 = i
      BY <1>1, <2>2
    <3>2. s[i] = t[i - 1]
      BY <1>1, <3>1
    <3> QED
      BY <1>2, <3>1, <3>2 DEF Range
  <2> QED
    BY <2>1, <2>2
<1> QED
  BY <1>1, <1>2, <1>3 DEF Range, t, h

LEMMA AppendRange ==
  ASSUME NEW S, NEW s \in Seq(S), NEW e \in S
  PROVE  Append(s, e) \in Seq(S) /\ Range(s) \subseteq Range(Append(s, e)) /\ e \in Range(Append(s, e))
<1> DEFINE t == Append(s, e)
<1>1. /\ t \in Seq(S) /\ Len(t) = Len(s) + 1 /\ \A i \in 1..Len(s) : t[i] = s[i]
      /\ t[Len(s) + 1] = e /\ Len(s) \in Nat
  BY AppendProperties, LenProperties
<1> HIDE DEF t
<1>2. DOMAIN t = 1..(Len(s) + 1) /\ DOMAIN s = 1..Len(s)
  BY <1>1, LenProperties
<1>3. Len(s) + 1 \in 1..(Len(s) + 1) /\ 1..Len(s) \subseteq 1..(Len(s) + 1)
  BY <1>1
<1> QED
  BY <1>1, <1>2, <1>3 DEF Range, t

LEMMA HearDeclineStep == ASSUME OffersInv, HearDecline PROVE OffersInv'
<1>1. /\ link = "up" /\ uplink # <<>> /\ uplink' = Tail(uplink)
      /\ UNCHANGED <<agent, link, wire, pending, offer, accepts, blind, overtaken, clicks>>
  BY DEF HearDecline, bounds
<1>2. OfferTypes /\ AcceptsShown /\ DownIsOut
  BY DEF OffersInv
<1>3. /\ Head(uplink) \in Offered /\ uplink' \in Seq(Offered)
      /\ Range(uplink) \subseteq {Head(uplink)} \cup Range(uplink')
  BY <1>1, <1>2, TailRange DEF OfferTypes
<1>4. CASE ring = Head(uplink)
  <2>1. ring # NoCall /\ ring' = NoCall /\ unsent' = unsent \o Cancelling(ring)
    BY <1>3, <1>4, DeskOffersAssumption DEF HearDecline
  <2> QED
    BY <1>1, <1>3, <2>1, CancelStep
<1>5. CASE ring # Head(uplink)
  <2>1. UNCHANGED <<ring, unsent>>
    BY <1>5 DEF HearDecline
  <2>2. OfferTypes' /\ AcceptsShown' /\ DownIsOut'
    BY <1>1, <1>2, <1>3, <2>1 DEF OfferTypes, DownIsOut, AcceptsShown
  <2>3. ASSUME link' # "out", ~overtaken'
        PROVE  Agree(ring, offer, wire \o unsent, unsent, blind, accepts, uplink')
    <3>1. Agree(ring, offer, wire \o unsent, unsent, blind, accepts, uplink)
      BY <1>1, <2>3 DEF OffersInv
    <3> QED
      BY <1>3, <1>5, <3>1, AgreeUplink
  <2> QED
    BY <1>1, <2>1, <2>2, <2>3 DEF OffersInv
<1> QED
  BY <1>4, <1>5

LEMMA ForceOutStep == ASSUME OffersInv, ForceOut PROVE OffersInv'
<1> DEFINE f == Frame("logout", NoCall)
<1>1. /\ link = "up" /\ ring' = NoCall /\ wire' = Append(wire, f)
      /\ unsent' = unsent \o Cancelling(ring)
      /\ UNCHANGED <<link, pending, uplink, offer, accepts, blind, overtaken, clicks>>
  BY DEF ForceOut, bounds
<1>2. OfferTypes /\ AcceptsShown
  BY DEF OffersInv
<1>3. f \in DeskFrames /\ f.kind = "logout"
  BY DEF Frame, DeskFrames
<1> HIDE DEF f
<1>4. unsent' \in Seq(DeskFrames)
  <2>1. Cancelling(ring) \in Seq(DeskFrames)
    <3>1. CASE ring = NoCall
      BY <3>1, EmptySeq DEF Cancelling
    <3>2. CASE ring \in Offered
      BY <3>2, FrameType, DeskOffersAssumption DEF Cancelling
    <3> QED
      BY <1>2, <3>1, <3>2 DEF OfferTypes
  <2> QED
    BY <1>1, <1>2, <2>1, ConcatProperties DEF OfferTypes
<1>5. OfferTypes' /\ AcceptsShown' /\ DownIsOut'
  BY <1>1, <1>2, <1>3, <1>4, AppendProperties DEF OfferTypes, DownIsOut, AcceptsShown
<1>6. ASSUME ~overtaken'
      PROVE  Agree(NoCall, offer, wire' \o unsent', unsent', blind, accepts, uplink)
  <2>1. Agree(ring, offer, wire \o unsent, unsent, blind, accepts, uplink)
    BY <1>1, <1>6 DEF OffersInv
  <2>2. \A x \in Offered : Shows(NoCall, unsent, x) => ring = x
    BY <2>1 DEF Agree
  <2>3. \A x \in Offered : ~Shows(NoCall, unsent', x)
    BY <1>1, <1>2, <2>2, Stopped DEF OfferTypes
  <2>4. \A x \in Offered : \A o : ~Shows(o, wire' \o unsent', x)
    BY <1>1, <1>2, <1>3, <1>4, <2>3, ShowsInsert DEF OfferTypes
  <2> QED
    BY <2>3, <2>4, AgreeQuiet
<1> QED
  BY <1>1, <1>5, <1>6 DEF OffersInv

LEMMA LoseStep == ASSUME OffersInv, LoseSocket PROVE OffersInv'
<1>1. /\ link = "up" /\ link' = "down" /\ wire' = <<>> /\ uplink' = <<>> /\ agent' = "offline"
      /\ ring' = NoCall /\ blind' = (blind \/ offer # NoCall)
      /\ unsent' = unsent \o Cancelling(ring)
      /\ UNCHANGED <<pending, offer, accepts, overtaken, clicks>>
  BY DEF LoseSocket
<1>2. OfferTypes /\ AcceptsShown
  BY DEF OffersInv
<1>3. /\ unsent' \in Seq(DeskFrames) /\ <<>> \in Seq(DeskFrames) /\ <<>> \in Seq(Offered)
      /\ wire' \o unsent' = unsent'
  <2>1. Cancelling(ring) \in Seq(DeskFrames)
    <3>1. CASE ring = NoCall
      BY <3>1, EmptySeq DEF Cancelling
    <3>2. CASE ring \in Offered
      BY <3>2, FrameType, DeskOffersAssumption DEF Cancelling
    <3> QED
      BY <1>2, <3>1, <3>2 DEF OfferTypes
  <2>2. unsent' \in Seq(DeskFrames)
    BY <1>1, <1>2, <2>1, ConcatProperties DEF OfferTypes
  <2> QED
    BY <1>1, <2>2, EmptySeq, ConcatEmptySeq
<1>4. OfferTypes' /\ AcceptsShown'
  BY <1>1, <1>2, <1>3 DEF OfferTypes, AcceptsShown
<1>5. DownIsOut'
  BY <1>1, <1>2 DEF DownIsOut, OfferTypes
<1>6. ASSUME ~overtaken'
      PROVE  Agree(NoCall, offer, unsent', unsent', blind', accepts, uplink')
  <2>1. Agree(ring, offer, wire \o unsent, unsent, blind, accepts, uplink)
    BY <1>1, <1>6 DEF OffersInv
  <2>2. \A x \in Offered : Shows(NoCall, unsent, x) => ring = x
    BY <2>1 DEF Agree
  <2>3. \A x \in Offered : ~Shows(NoCall, unsent', x)
    BY <1>1, <1>2, <2>2, Stopped DEF OfferTypes
  <2>4. ~blind' => \A x \in Offered : ~Shows(offer, unsent', x)
    BY <1>1, <2>3
  <2> QED
    BY <2>3, <2>4, AgreeQuiet
<1> QED
  BY <1>1, <1>3, <1>4, <1>5, <1>6 DEF OffersInv

LEMMA ReconnectStep == ASSUME OffersInv, Reconnect PROVE OffersInv'
<1>1. /\ link = "down" /\ link' = "up" /\ uplink' = pending /\ pending' = <<>>
      /\ UNCHANGED <<ring, unsent, wire, offer, accepts, blind, overtaken, clicks>>
  BY DEF Reconnect, bounds
<1>2. OfferTypes /\ AcceptsShown /\ DownIsOut
  BY DEF OffersInv
<1>3. OfferTypes' /\ AcceptsShown' /\ DownIsOut'
  BY <1>1, <1>2, EmptySeq DEF OfferTypes, AcceptsShown, DownIsOut
<1>4. ring = NoCall
  BY <1>1, <1>2 DEF DownIsOut
<1>5. ASSUME ~overtaken'
      PROVE  Agree(ring, offer, wire \o unsent, unsent, blind, accepts, uplink')
  <2>1. Agree(ring, offer, wire \o unsent, unsent, blind, accepts, uplink)
    BY <1>1, <1>5 DEF OffersInv
  <2> QED
    BY <1>4, <2>1, AgreeUplink, DeskOffersAssumption
<1> QED
  BY <1>1, <1>3, <1>5 DEF OffersInv

LEMMA AcceptStep == ASSUME OffersInv, Accept PROVE OffersInv'
<1> DEFINE a == [id |-> clicks, call |-> offer, answer |-> "sent", behind |-> FALSE]
<1>1. /\ offer # NoCall /\ clicks' = clicks + 1 /\ accepts' = accepts \cup {a}
      /\ UNCHANGED <<ring, agent, unsent, link, wire, pending, uplink, offer, blind, overtaken>>
  BY DEF Accept, DialogOpen, serverVars, linkVars
<1>2. OfferTypes /\ AcceptsShown /\ DownIsOut
  BY DEF OffersInv
<1>3. a \in Acceptance /\ a.answer = "sent" /\ a.call = offer
  BY <1>1, <1>2 DEF OfferTypes, Acceptance
<1> HIDE DEF a
<1>4. OfferTypes'
  BY <1>1, <1>2, <1>3 DEF OfferTypes
<1>5. AcceptsShown' /\ DownIsOut'
  BY <1>1, <1>2, <1>3 DEF AcceptsShown, DownIsOut
<1>6. ASSUME link' # "out", ~overtaken'
      PROVE  Agree(ring, offer, wire \o unsent, unsent, blind, accepts', uplink)
  <2>1. Agree(ring, offer, wire \o unsent, unsent, blind, accepts, uplink)
    BY <1>1, <1>6 DEF OffersInv
  <2>2. Answered(accepts') => Answered(accepts)
    BY <1>1, <1>3 DEF Answered
  <2>3. \A x : OkFor(accepts, x) => OkFor(accepts', x)
    BY <1>1 DEF OkFor
  <2> QED
    BY <2>1, <2>2, <2>3 DEF Agree
<1> QED
  BY <1>1, <1>4, <1>5, <1>6 DEF OffersInv

LEMMA AcceptedStep == ASSUME OffersInv, NEW a \in accepts, Accepted(a) PROVE OffersInv'
<1>1. /\ a.answer # "sent" /\ accepts' = accepts \ {a} /\ offer' = NoCall
      /\ blind' = (blind \/ a.behind)
      /\ UNCHANGED <<ring, agent, unsent, link, wire, pending, uplink, overtaken, clicks>>
  BY DEF Accepted, serverVars, linkVars, bounds
<1>2. OfferTypes /\ AcceptsShown /\ DownIsOut
  BY DEF OffersInv
<1>3. a \in Acceptance /\ a.behind \in BOOLEAN
  BY <1>2 DEF OfferTypes, Acceptance
<1>4. OfferTypes'
  BY <1>1, <1>2, <1>3 DEF OfferTypes
<1>5. AcceptsShown' /\ DownIsOut'
  BY <1>1, <1>2 DEF AcceptsShown, DownIsOut
<1>6. ASSUME link' # "out", ~overtaken'
      PROVE  Agree(ring, NoCall, wire \o unsent, unsent, blind', accepts', uplink)
  <2>1. Agree(ring, offer, wire \o unsent, unsent, blind, accepts, uplink)
    BY <1>1, <1>6 DEF OffersInv
  <2>2. ~a.behind => Answered(accepts)
    BY <1>1 DEF Answered
  <2>3. ~blind' /\ ring # NoCall => Shows(NoCall, wire \o unsent, ring) \/ ring \in Range(uplink)
    BY <1>1, <1>2, <2>1, <2>2 DEF Agree, OfferTypes
  <2>4. /\ ring \in Offered \cup {NoCall} /\ blind \in BOOLEAN /\ blind' \in BOOLEAN
        /\ (blind => blind')
    BY <1>1, <1>2, <1>4 DEF OfferTypes
  <2> QED
    BY <2>1, <2>3, <2>4, DeskOffersAssumption DEF Agree
<1> QED
  BY <1>1, <1>4, <1>5, <1>6 DEF OffersInv

LEMMA DeclineStep == ASSUME OffersInv, Decline PROVE OffersInv'
<1>1. /\ offer # NoCall /\ offer' = NoCall
      /\ UNCHANGED <<ring, agent, unsent, link, wire, accepts, blind, overtaken, clicks>>
  BY DEF Decline, DialogOpen, serverVars, bounds
<1>2. OfferTypes /\ AcceptsShown /\ DownIsOut
  BY DEF OffersInv
<1>3. offer \in Offered
  BY <1>1, <1>2 DEF OfferTypes
<1>4. /\ uplink' \in Seq(Offered) /\ pending' \in Seq(Offered) /\ Range(uplink) \subseteq Range(uplink')
      /\ link = "up" => offer \in Range(uplink')
  <2>1. CASE link = "up"
    <3>1. uplink' = Append(uplink, offer) /\ pending' = pending
      BY <2>1 DEF Decline
    <3> QED
      BY <1>2, <1>3, <3>1, AppendRange DEF OfferTypes
  <2>2. CASE link # "up"
    <3>1. pending' = Append(pending, offer) /\ uplink' = uplink
      BY <2>2 DEF Decline
    <3> QED
      BY <1>2, <1>3, <2>2, <3>1, AppendRange DEF OfferTypes
  <2> QED
    BY <2>1, <2>2
<1>5. OfferTypes'
  BY <1>1, <1>2, <1>4 DEF OfferTypes
<1>6. AcceptsShown' /\ DownIsOut'
  BY <1>1, <1>2 DEF AcceptsShown, DownIsOut
<1>7. ASSUME link' # "out", ~overtaken'
      PROVE  Agree(ring, NoCall, wire \o unsent, unsent, blind, accepts, uplink')
  <2>1. Agree(ring, offer, wire \o unsent, unsent, blind, accepts, uplink)
    BY <1>1, <1>7 DEF OffersInv
  <2>2. wire \o unsent \in Seq(DeskFrames) /\ ring \in Offered \cup {NoCall} /\ blind \in BOOLEAN
    BY <1>2, QueueType DEF OfferTypes
  <2>3. ASSUME ~blind, ring # NoCall
        PROVE  Shows(NoCall, wire \o unsent, ring) \/ ring \in Range(uplink')
    <3>1. link = "up" /\ ring \in Offered
      BY <1>1, <1>2, <1>7, <2>3 DEF DownIsOut, OfferTypes
    <3>2. Shows(offer, wire \o unsent, ring) \/ ring \in Range(uplink)
      BY <2>1, <2>3, <3>1 DEF Agree
    <3>3. Shows(offer, wire \o unsent, ring) => Shows(NoCall, wire \o unsent, ring) \/ offer = ring
      BY <2>2, <3>1, ShowsStart
    <3> QED
      BY <1>4, <3>1, <3>2, <3>3
  <2> QED
    BY <2>1, <2>2, <2>3, DeskOffersAssumption DEF Agree
<1> QED
  BY <1>1, <1>5, <1>6, <1>7 DEF OffersInv

\* What concerns neither frames nor the dialog.
LEMMA ApartStep ==
  ASSUME OffersInv,
         UNCHANGED <<ring, unsent, link, wire, pending, uplink, offer, accepts, blind, overtaken, clicks>>,
         link = "up" \/ agent' = agent
  PROVE  OffersInv'
<1>1. OfferTypes' /\ AcceptsShown' /\ DownIsOut'
  BY DEF OffersInv, OfferTypes, AcceptsShown, DownIsOut
<1> QED
  BY <1>1 DEF OffersInv

LEMMA OffersStep == OffersInv /\ [DeskNext]_deskVars => OffersInv'
<1> SUFFICES ASSUME OffersInv, [DeskNext]_deskVars PROVE OffersInv'
  OBVIOUS
<1>1. ASSUME NEW c \in Offered, Ring(c) PROVE OffersInv'
  BY <1>1, RingStep
<1>2. ASSUME NEW c \in Offered, CallEnds(c) PROVE OffersInv'
  BY <1>2, EndStep DEF CallEnds
<1>3. ASSUME NEW c \in Offered, HearLeave(c) PROVE OffersInv'
  BY <1>3, EndStep DEF HearLeave
<1>4. ASSUME NEW i \in 1..Len(unsent), Send(i) PROVE OffersInv'
  BY <1>4, SendStep
<1>5. ASSUME NEW a \in accepts, Answer(a) PROVE OffersInv'
  BY <1>5, AnswerStep
<1>6. ASSUME NEW a \in accepts, Accepted(a) PROVE OffersInv'
  BY <1>6, AcceptedStep
<1>7. CASE Receive
  BY <1>7, ReceiveStep
<1>8. CASE RingTimesOut
  <2>1. uplink' \in Seq(Offered)
    BY <1>8 DEF RingTimesOut, linkVars, OffersInv, OfferTypes
  <2> QED
    BY <1>8, <2>1, CancelStep DEF RingTimesOut, linkVars, bounds
<1>9. CASE HearDecline
  BY <1>9, HearDeclineStep
<1>10. CASE ForceOut
  BY <1>10, ForceOutStep
<1>11. CASE LoseSocket
  BY <1>11, LoseStep
<1>12. CASE Reconnect
  BY <1>12, ReconnectStep
<1>13. CASE SetReady
  BY <1>13, ApartStep DEF SetReady, linkVars, bounds
<1>14. CASE Accept
  BY <1>14, AcceptStep
<1>15. CASE Decline
  BY <1>15, DeclineStep
<1>16. CASE HangUpPanel
  BY <1>16, ApartStep DEF HangUpPanel, serverVars, linkVars, bounds
<1>17. CASE UNCHANGED deskVars
  BY <1>17, ApartStep DEF deskVars
<1> QED
  BY <1>1, <1>2, <1>3, <1>4, <1>5, <1>6, <1>7, <1>8, <1>9, <1>10, <1>11, <1>12, <1>13, <1>14,
     <1>15, <1>16, <1>17 DEF DeskNext

\* Until frames overtake one another or the agent is signed out, the offer row, the
\* dialog, and the frames, acceptances and declines under way account for one another
\* (store.ts, Desk.tsx, routing.ts).
THEOREM OffersInvariant == DeskSpec => []OffersInv
  BY OffersInitInv, OffersStep, PTL DEF DeskSpec

\* Once all is heard the dialog shows the call that rings this agent, and nothing else,
\* whatever was accepted, declined, cancelled or ended meanwhile (store.ts, Desk.tsx).
THEOREM DialogShowsRingHolds == DeskSpec => []DialogShowsRing
<1>1. OffersInv => DialogShowsRing
  <2> SUFFICES ASSUME OffersInv, AllHeard, ~blind, ~overtaken PROVE offer = ring
    BY DEF DialogShowsRing
  <2>1. /\ link = "up" /\ wire = <<>> /\ unsent = <<>> /\ uplink = <<>> /\ accepts = {}
        /\ ring \in Offered \cup {NoCall} /\ offer \in Offered \cup {NoCall}
    BY DEF AllHeard, OffersInv, OfferTypes
  <2>2. <<>> \o <<>> = <<>> /\ Range(<<>>) = {}
    <3>1. <<>> \in Seq({}) /\ Len(<<>>) = 0
      BY EmptySeq
    <3>2. DOMAIN <<>> = {}
      BY <3>1, LenProperties
    <3> QED
      BY <3>1, <3>2, ConcatEmptySeq DEF Range
  <2>3. Agree(ring, offer, <<>>, <<>>, FALSE, {}, <<>>)
    <3>1. Agree(ring, offer, wire \o unsent, unsent, blind, accepts, uplink)
      BY <2>1 DEF OffersInv
    <3>2. blind = FALSE
      BY DEF OffersInv, OfferTypes
    <3> QED
      BY <2>1, <2>2, <3>1, <3>2
  <2>4. \A x \in Offered : ring = x <=> offer = x
    BY <2>2, <2>3, ShowsNothing DEF Agree, OkFor
  <2> QED
    BY <2>1, <2>4, DeskOffersAssumption
<1> QED
  BY <1>1, OffersInvariant, PTL

\* The panel, the agent and the requests: every click on Accept is a request of its own.
DeskBounds ==
  /\ active \in Offered \cup {NoCall} /\ agent \in {"offline", "not_ready", "ready", "busy", "acw"}
  /\ clicks \in 0..MaxClicks
  /\ \A a \in accepts : a.id < clicks
  /\ \A a \in accepts, b \in accepts : a.id = b.id => a = b

\* A request that is answered, or sees a newer offer, keeps its click.
LEMMA SameClick ==
  ASSUME OffersInv, NEW a \in accepts
  PROVE  /\ \A x \in {"ok", "refused"} : [a EXCEPT !.answer = x].id = a.id
         /\ [a EXCEPT !.behind = TRUE].id = a.id
         /\ a.id \in Nat /\ a.call \in Offered
  BY DEF OffersInv, OfferTypes, Acceptance

LEMMA DeskBoundsStep ==
  ASSUME OffersInv, DeskBounds, [DeskNext]_deskVars PROVE DeskBounds'
<1>0. MaxClicks \in Nat
  BY DeskOffersAssumption
<1>1. CASE UNCHANGED <<active, accepts, clicks>> /\ agent' \in {agent, "offline", "not_ready", "ready", "acw"}
  BY <1>1 DEF DeskBounds
<1>2. ASSUME NEW a \in accepts, Answer(a) PROVE DeskBounds'
  <2>1. PICK x \in {"ok", "refused"} : accepts' = (accepts \ {a}) \cup {[a EXCEPT !.answer = x]}
    BY <1>2 DEF Answer
  <2>2. UNCHANGED <<active, clicks>> /\ agent' \in {agent, "busy"}
    BY <1>2 DEF Answer, bounds
  <2> DEFINE y == [a EXCEPT !.answer = x]
  <2>3. y.id = a.id
    BY SameClick
  <2> HIDE DEF y
  <2>4. \A b \in accepts' : b \in accepts \/ b = y
    BY <2>1 DEF y
  <2>5. \A b \in accepts' : b.id < clicks
    BY <2>3, <2>4 DEF DeskBounds
  <2>6. \A b \in accepts' : b # y => b \in accepts /\ b # a
    BY <2>1 DEF y
  <2>7. \A b \in accepts', c \in accepts' : b.id = c.id => b = c
    BY <2>3, <2>6 DEF DeskBounds
  <2> QED
    BY <2>2, <2>5, <2>7 DEF DeskBounds
<1>3. CASE Receive
  <2>1. UNCHANGED <<active, clicks, agent>>
    BY <1>3 DEF Receive, bounds, serverVars
  <2>2. \A b \in accepts' : \E a \in accepts : b.id = a.id /\ (b = a \/ b = [a EXCEPT !.behind = TRUE])
    BY <1>3, SameClick DEF Receive
  <2>3. accepts' = accepts \/ accepts' = {[a EXCEPT !.behind = TRUE] : a \in accepts}
    BY <1>3 DEF Receive
  <2>4. \A b \in accepts' : b.id < clicks
    BY <2>2 DEF DeskBounds
  <2>5. \A b \in accepts', c \in accepts' : b.id = c.id => b = c
    <3>1. CASE accepts' = {[a EXCEPT !.behind = TRUE] : a \in accepts}
      <4> SUFFICES ASSUME NEW a \in accepts, NEW d \in accepts,
                          [a EXCEPT !.behind = TRUE].id = [d EXCEPT !.behind = TRUE].id
                   PROVE  [a EXCEPT !.behind = TRUE] = [d EXCEPT !.behind = TRUE]
        BY <3>1
      <4>1. a.id = d.id
        BY SameClick
      <4> QED
        BY <4>1 DEF DeskBounds
    <3> QED
      BY <2>3, <3>1 DEF DeskBounds
  <2> QED
    BY <2>1, <2>4, <2>5 DEF DeskBounds
<1>4. CASE Accept
  <2> DEFINE y == [id |-> clicks, call |-> offer, answer |-> "sent", behind |-> FALSE]
  <2>1. /\ clicks < MaxClicks /\ clicks' = clicks + 1 /\ accepts' = accepts \cup {y}
        /\ UNCHANGED <<active, agent>>
    BY <1>4 DEF Accept, serverVars
  <2>2. y.id = clicks
    OBVIOUS
  <2>3. \A a \in accepts : a.id \in Nat
    BY SameClick
  <2> HIDE DEF y
  <2>4. clicks' \in 0..MaxClicks
    BY <1>0, <2>1 DEF DeskBounds
  <2>5. \A a \in accepts' : a.id < clicks'
    BY <2>1, <2>2, <2>3 DEF DeskBounds
  <2>6. \A a \in accepts', b \in accepts' : a.id = b.id => a = b
    BY <2>1, <2>2, <2>3 DEF DeskBounds
  <2> QED
    BY <2>1, <2>4, <2>5, <2>6 DEF DeskBounds
<1>5. ASSUME NEW a \in accepts, Accepted(a) PROVE DeskBounds'
  <2>1. accepts' \subseteq accepts /\ active' \in {active, a.call} /\ UNCHANGED <<clicks, agent>>
    BY <1>5 DEF Accepted, serverVars, bounds
  <2> QED
    BY <2>1, SameClick DEF DeskBounds
<1>6. CASE HangUpPanel
  BY <1>6 DEF HangUpPanel, DeskBounds, serverVars, bounds
<1>7. ASSUME NEW c \in Offered, Ring(c) \/ CallEnds(c) \/ HearLeave(c) PROVE DeskBounds'
  BY <1>1, <1>7 DEF Ring, CallEnds, HearLeave, EndCall, bounds
<1>8. ASSUME NEW i \in 1..Len(unsent), Send(i) PROVE DeskBounds'
  BY <1>1, <1>8 DEF Send, bounds
<1>9. CASE RingTimesOut \/ HearDecline \/ ForceOut \/ LoseSocket \/ Reconnect
  BY <1>1, <1>9 DEF RingTimesOut, HearDecline, ForceOut, LoseSocket, Reconnect, bounds
<1>10. CASE SetReady \/ Decline \/ UNCHANGED deskVars
  BY <1>1, <1>10 DEF SetReady, Decline, deskVars, bounds, serverVars
<1> QED
  BY <1>2, <1>3, <1>4, <1>5, <1>6, <1>7, <1>8, <1>9, <1>10 DEF DeskNext

\* The desk's dialog, panel and requests are where the reducer and the routes put them.
THEOREM DeskTypeHolds == DeskSpec => []DeskTypeOK
<1>1. DeskInit => DeskBounds
  BY DeskOffersAssumption DEF DeskInit, DeskBounds
<1>2. OffersInv /\ DeskBounds /\ [DeskNext]_deskVars => DeskBounds'
  BY DeskBoundsStep
<1>3. ASSUME OffersInv, DeskBounds PROVE DeskTypeOK
  <2>1. ASSUME NEW a \in accepts PROVE a \in [id: 0..MaxClicks, call: Offered,
                                             answer: {"sent", "ok", "refused"}, behind: BOOLEAN]
    <3>1. a \in Acceptance /\ a.id < clicks /\ clicks \in 0..MaxClicks /\ MaxClicks \in Nat
      BY <1>3, DeskOffersAssumption DEF OffersInv, OfferTypes, DeskBounds
    <3>2. a.id \in 0..MaxClicks
      BY <3>1 DEF Acceptance
    <3> QED
      BY <3>1, <3>2 DEF Acceptance
  <2> QED
    BY <1>3, <2>1 DEF OffersInv, OfferTypes, DeskBounds, DeskTypeOK
<1> QED
  BY <1>1, <1>2, <1>3, OffersInvariant, PTL DEF DeskSpec

-----------------------------------------------------------------------------
(***************************************************************************)
(* The desks' audio.  Per desk: where the hold state it knows comes from   *)
(* (Info), how far setHeld has followed it (Follow), which microphone      *)
(* requests are under way (Queue), and what they and the Mute button leave *)
(* behind (Mic); and who is heard, which depends on the other desks (Ears). *)
(***************************************************************************)
\* What is asked of the microphone.
Ops == [on: BOOLEAN, by: {"hold", "toggle"}]

\* The newest frame under way, or the last one heard, says what was told last; without
\* any, nothing was told yet, or some handler is about to.
Info(me, t, n, ann) ==
  /\ me.open \/ me.wire = <<>>
  /\ me.wire # <<>> => me.wire[Len(me.wire)] = t
  /\ me.wire = <<>> /\ ~me.missed =>
       me.frame = t \/ (me.frame = "unknown" /\ (n = 0 \/ ann # {}))
  /\ n = 0 => me.detail # "yes" /\ me.fetch # "yes"

\* CallPanel and setHeld: the wish is the state seen, and unless an apply() is due it is
\* the one applied; a panel that is not open asks for nothing.
Follow(me) ==
  /\ me.seen # "unknown" => me.frame # "unknown" \/ me.detail # "unknown"
  /\ me.room # "in" => me.chain = 0 /\ me.ops = <<>> /\ ~me.applying /\ me.seen = "unknown"
  /\ me.applying => me.chain # 0
  /\ me.room = "in" =>
       /\ me.desired = IF me.seen = "unknown" THEN "no" ELSE me.seen
       /\ me.seen = "unknown" => me.applied = "unknown" /\ me.chain = 0
       /\ me.seen # "unknown" /\ (me.chain = 0 \/ (me.chain = 1 /\ me.applying))
            => me.applied = me.desired

\* A request of setHeld is under way only during its apply(), and only one.
Queue(q, applying) ==
  /\ \A i \in 1..Len(q) : q[i].by = "hold" => applying
  /\ \A i, j \in 1..Len(q) : q[i].by = "hold" /\ q[j].by = "hold" => i = j

\* Unless a click met a setHeld: during apply() its request is the only one, and leaves
\* the microphone as applied; while held the microphone is off and nothing is asked;
\* otherwise the button's label is right.
Mic(me) ==
  me.room = "in" /\ ~me.raced =>
    /\ me.applying =>
         /\ Len(me.ops) = 1 /\ me.ops[1].by = "hold" /\ (me.ops[1].on <=> me.applied = "no")
         /\ me.applied # "unknown" /\ (me.muted <=> me.applied = "yes")
    /\ ~me.applying /\ me.applied = "yes" => me.ops = <<>> /\ ~me.mic
    /\ ~me.applying /\ me.applied # "yes" => (me.mic <=> ~me.muted)

\* Held, only who came later is heard; otherwise everyone is.
Ears(me, all) ==
  me.room = "in" => IF me.applied = "yes" THEN me.hears \subseteq me.late ELSE me.hears = all

Sound(me, t, n, ann, all) ==
  Info(me, t, n, ann) /\ Follow(me) /\ Queue(me.ops, me.applying) /\ Mic(me) /\ Ears(me, all)

AudioInv ==
  /\ AudioTypeOK /\ holds \in 0..MaxHolds /\ (holds = 0 => held = "no")
  /\ \A d \in Desks : Sound(desk[d], told, holds, announcing, Around(d))

LEMMA AroundType == \A d : Around(d) \subseteq Desks \cup {Customer}
  BY DEF Around, InTheRoom

\* A step of one desk that stays in, or out of, the room concerns no other.
LEMMA OneDesk ==
  ASSUME AudioInv, NEW d \in Desks, NEW n \in DeskRecord, desk' = [desk EXCEPT ![d] = n],
         UNCHANGED serverHold, n.room = "in" <=> desk[d].room = "in",
         Sound(n, told, holds, announcing, Around(d))
  PROVE  AudioInv'
<1>1. desk \in [Desks -> DeskRecord]
  BY DEF AudioInv, AudioTypeOK
<1>2. desk' \in [Desks -> DeskRecord] /\ desk'[d] = n /\ \A e \in Desks \ {d} : desk'[e] = desk[e]
  BY <1>1
<1>3. \A e : Around(e)' = Around(e)
  <2>1. InTheRoom' = InTheRoom
    BY <1>2 DEF InTheRoom
  <2> QED
    BY <2>1 DEF Around
<1>4. \A e \in Desks : Sound(desk'[e], told', holds', announcing', Around(e)')
  <2> SUFFICES ASSUME NEW e \in Desks
               PROVE  Sound(desk'[e], told', holds', announcing', Around(e)')
    OBVIOUS
  <2>1. Sound(desk'[e], told, holds, announcing, Around(e))
    BY <1>2 DEF AudioInv
  <2> QED
    BY <1>3, <2>1 DEF serverHold
<1>5. AudioTypeOK' /\ holds' \in 0..MaxHolds /\ (holds' = 0 => held' = "no")
  BY <1>2 DEF AudioInv, AudioTypeOK, serverHold
<1> QED
  BY <1>4, <1>5 DEF AudioInv

-----------------------------------------------------------------------------
LEMMA AudioStart == AudioInit => AudioInv
<1> SUFFICES ASSUME AudioInit PROVE AudioInv
  OBVIOUS
<1>1. AtDesk \in DeskRecord
  BY EmptySeq DEF AtDesk, DeskRecord, Known, Hold
<1>2. /\ AtDesk.open /\ AtDesk.wire = <<>> /\ AtDesk.frame = "unknown" /\ AtDesk.detail = "unknown"
      /\ AtDesk.fetch = "none" /\ AtDesk.room = "out" /\ AtDesk.seen = "unknown"
      /\ AtDesk.chain = 0 /\ AtDesk.applying = FALSE /\ AtDesk.ops = <<>>
  BY DEF AtDesk
<1>3. Len(AtDesk.ops) = 0
  BY <1>2, EmptySeq
<1>4. \A t, all : Sound(AtDesk, t, 0, {}, all)
  BY <1>2, <1>3 DEF Sound, Info, Follow, Queue, Mic, Ears
<1>5. AudioTypeOK /\ holds \in 0..MaxHolds /\ (holds = 0 => held = "no")
  BY <1>1, DeskAudioAssumption DEF AudioInit, AudioTypeOK, Hold
<1> QED
  BY <1>4, <1>5 DEF AudioInit, AudioInv

LEMMA SetHeldStep == AudioInv /\ SetHeld => AudioInv'
<1> SUFFICES ASSUME AudioInv, SetHeld PROVE AudioInv'
  OBVIOUS
<1>1. /\ holds' = holds + 1 /\ holds < MaxHolds /\ held' = Not(held) /\ told' = told /\ desk' = desk
      /\ announcing' = announcing \cup {[id |-> holds, says |-> Not(held)]}
      /\ holds \in 0..MaxHolds /\ MaxHolds \in Nat
  BY DeskAudioAssumption DEF SetHeld, AudioInv
<1>2. Not(held) \in Hold
  BY DEF Not, Hold
<1>3. AudioTypeOK'
  <2>1. [id |-> holds, says |-> Not(held)] \in [id: 0..MaxHolds, says: Hold]
    BY <1>1, <1>2
  <2> QED
    BY <1>1, <1>2, <2>1 DEF AudioInv, AudioTypeOK
<1>4. holds' \in 0..MaxHolds /\ holds' # 0
  BY <1>1
<1>5. \A e \in Desks : Sound(desk'[e], told', holds', announcing', Around(e)')
  <2> SUFFICES ASSUME NEW e \in Desks
               PROVE  Sound(desk'[e], told', holds', announcing', Around(e)')
    OBVIOUS
  <2>1. Sound(desk[e], told, holds, announcing, Around(e)) /\ Around(e)' = Around(e)
    BY <1>1 DEF AudioInv, Around, InTheRoom
  <2>2. announcing' # {}
    BY <1>1
  <2>3. Info(desk'[e], told', holds', announcing')
    BY <1>1, <1>4, <2>1, <2>2 DEF Sound, Info
  <2> QED
    BY <1>1, <2>1, <2>3 DEF Sound
<1> QED
  BY <1>3, <1>4, <1>5 DEF AudioInv

LEMMA TellStep == \A a \in announcing : AudioInv /\ Tell(a) => AudioInv'
<1> SUFFICES ASSUME NEW a \in announcing, AudioInv, Tell(a) PROVE AudioInv'
  OBVIOUS
<1> DEFINE f(e) == IF desk[e].open THEN [desk[e] EXCEPT !.wire = Append(@, a.says)]
                   ELSE [desk[e] EXCEPT !.missed = TRUE]
<1>1. /\ desk' = [e \in Desks |-> f(e)] /\ announcing' = announcing \ {a} /\ told' = a.says
      /\ held' = held /\ holds' = holds
  BY DEF Tell
<1>2. a.says \in Hold /\ desk \in [Desks -> DeskRecord]
  BY DEF AudioInv, AudioTypeOK
<1>3. ASSUME NEW e \in Desks
      PROVE  /\ f(e) \in DeskRecord /\ f(e).room = desk[e].room
             /\ Info(f(e), a.says, holds, announcing')
             /\ Follow(f(e)) /\ Queue(f(e).ops, f(e).applying) /\ Mic(f(e))
             /\ Ears(f(e), Around(e))
  <2> DEFINE me == desk[e]
             n == f(e)
             w == me.wire
  <2>1. me \in DeskRecord /\ Sound(me, told, holds, announcing, Around(e))
    BY <1>2 DEF AudioInv
  <2>2. w \in Seq(Hold) /\ Append(w, a.says) \in Seq(Hold)
    BY <1>2, <2>1, AppendProperties DEF DeskRecord
  <2>3. n \in DeskRecord
    BY <2>1, <2>2 DEF DeskRecord
  <2>4. /\ n.open = me.open /\ n.frame = me.frame
        /\ n.detail = me.detail /\ n.fetch = me.fetch /\ n.room = me.room /\ n.seen = me.seen
        /\ n.desired = me.desired /\ n.applied = me.applied /\ n.chain = me.chain
        /\ n.applying = me.applying /\ n.ops = me.ops /\ n.mic = me.mic /\ n.muted = me.muted
        /\ n.hears = me.hears /\ n.late = me.late /\ n.raced = me.raced
    BY <2>1 DEF DeskRecord
  <2>5. /\ n.wire = IF me.open THEN Append(w, a.says) ELSE w
        /\ n.missed = IF me.open THEN me.missed ELSE TRUE
    BY <2>1 DEF DeskRecord
  <2>6. LET t == Append(w, a.says) IN t # <<>> /\ t[Len(t)] = a.says
    <3> DEFINE t == Append(w, a.says)
    <3>1. Len(t) = Len(w) + 1 /\ Len(w) \in Nat /\ t[Len(w) + 1] = a.says
      BY <1>2, <2>2, AppendProperties, LenProperties
    <3> HIDE DEF t
    <3>2. t # <<>> /\ t[Len(t)] = a.says
      BY <3>1, EmptySeq
    <3> QED
      BY <3>2 DEF t
  <2> HIDE DEF n, me, w
  <2>7. Info(n, a.says, holds, announcing')
    BY <2>1, <2>4, <2>5, <2>6 DEF Sound, Info, w
  <2>8. Follow(n) /\ Queue(n.ops, n.applying) /\ Mic(n) /\ Ears(n, Around(e))
    <3>1. Follow(n)
      BY <2>1, <2>4 DEF Sound, Follow
    <3>2. Queue(n.ops, n.applying)
      BY <2>1, <2>4 DEF Sound
    <3>3. Mic(n)
      BY <2>1, <2>4 DEF Sound, Mic
    <3>4. Ears(n, Around(e))
      BY <2>1, <2>4 DEF Sound, Ears
    <3> QED
      BY <3>1, <3>2, <3>3, <3>4
  <2>9. n.room = desk[e].room
    BY <2>4 DEF me
  <2> QED
    BY <2>3, <2>7, <2>8, <2>9 DEF n
<1> HIDE DEF f
<1>4. \A e \in Desks : desk'[e] = f(e) /\ f(e) \in DeskRecord /\ f(e).room = desk[e].room
  BY <1>1, <1>3
<1>5. \A e : Around(e)' = Around(e)
  <2>1. InTheRoom' = InTheRoom
    BY <1>4 DEF InTheRoom
  <2> QED
    BY <2>1 DEF Around
<1>6. \A e \in Desks : Sound(desk'[e], told', holds', announcing', Around(e)')
  <2> SUFFICES ASSUME NEW e \in Desks
               PROVE  Sound(desk'[e], told', holds', announcing', Around(e)')
    OBVIOUS
  <2>1. Sound(f(e), a.says, holds, announcing', Around(e))
    BY <1>3 DEF Sound
  <2> QED
    BY <1>1, <1>4, <1>5, <2>1
<1>7. AudioTypeOK'
  <2>1. desk' \in [Desks -> DeskRecord]
    BY <1>1, <1>4
  <2> QED
    BY <1>1, <1>2, <2>1 DEF AudioInv, AudioTypeOK
<1> QED
  BY <1>1, <1>6, <1>7 DEF AudioInv

LEMMA HearFrameStep == \A d \in Desks : AudioInv /\ HearFrame(d) => AudioInv'
<1> SUFFICES ASSUME NEW d \in Desks, AudioInv, HearFrame(d) PROVE AudioInv'
  OBVIOUS
<1> DEFINE me == desk[d]
           w == me.wire
           n == [me EXCEPT !.wire = Tail(w), !.frame = Head(w), !.missed = FALSE,
                           !.fetch = IF me.room = "out" THEN me.fetch ELSE "asked"]
<1>1. me \in DeskRecord /\ Sound(me, told, holds, announcing, Around(d))
  BY DEF AudioInv, AudioTypeOK
<1>2. w \in Seq(Hold) /\ w # <<>>
  BY <1>1 DEF DeskRecord, HearFrame
<1>3. desk' = [desk EXCEPT ![d] = n] /\ UNCHANGED serverHold
  BY DEF HearFrame
<1>4. /\ Tail(w) \in Seq(Hold) /\ Head(w) \in Hold
      /\ Tail(w) # <<>> => Tail(w)[Len(Tail(w))] = w[Len(w)]
      /\ Tail(w) = <<>> => Head(w) = w[Len(w)]
  <2> DEFINE s == Tail(w)
  <2>1. w[1] = Head(w) /\ Head(w) \in Hold /\ s \in Seq(Hold)
    BY <1>2, HeadTailProperties
  <2>2. Len(s) = Len(w) - 1 /\ \A i \in 1..Len(s) : s[i] = w[i + 1]
    BY <1>2, HeadTailProperties
  <2>3. Len(w) \in Nat /\ Len(s) \in Nat
    BY <1>2, <2>1, LenProperties
  <2>4. s = <<>> <=> Len(s) = 0
    BY <2>1, EmptySeq
  <2> HIDE DEF s
  <2>5. ASSUME s # <<>> PROVE s[Len(s)] = w[Len(w)]
    <3>1. Len(s) \in 1..Len(s) /\ Len(s) + 1 = Len(w)
      BY <2>2, <2>3, <2>4, <2>5
    <3> QED
      BY <2>2, <3>1
  <2>6. ASSUME s = <<>> PROVE Head(w) = w[Len(w)]
    <3>1. Len(w) = 1
      BY <2>2, <2>3, <2>4, <2>6
    <3> QED
      BY <2>1, <3>1
  <2> QED
    BY <2>1, <2>5, <2>6 DEF s
<1>5. n \in DeskRecord
  <2>1. Head(w) \in Known
    BY <1>4 DEF Known
  <2>2. (IF me.room = "out" THEN me.fetch ELSE "asked") \in {"none", "asked"} \cup Hold
    BY <1>1 DEF DeskRecord
  <2> QED
    BY <1>1, <1>4, <2>1, <2>2 DEF DeskRecord
<1>6. /\ n.wire = Tail(w) /\ n.frame = Head(w) /\ n.missed = FALSE
      /\ n.fetch = IF me.room = "out" THEN me.fetch ELSE "asked"
  BY <1>1 DEF DeskRecord
<1>7. /\ n.open = me.open /\ n.detail = me.detail /\ n.room = me.room /\ n.seen = me.seen
      /\ n.desired = me.desired /\ n.applied = me.applied /\ n.chain = me.chain
      /\ n.applying = me.applying /\ n.ops = me.ops /\ n.mic = me.mic /\ n.muted = me.muted
      /\ n.hears = me.hears /\ n.late = me.late /\ n.raced = me.raced
  BY <1>1 DEF DeskRecord
<1>8. me.room = desk[d].room
  OBVIOUS
<1> HIDE DEF n, me
<1>9. Info(n, told, holds, announcing)
  BY <1>1, <1>2, <1>4, <1>6, <1>7 DEF Sound, Info
<1>10. Follow(n)
  <2>1. n.frame # "unknown"
    BY <1>4, <1>6 DEF Hold
  <2> QED
    BY <1>1, <1>7, <2>1 DEF Sound, Follow
<1>11. Queue(n.ops, n.applying)
  BY <1>1, <1>7 DEF Sound
<1>12. Mic(n)
  BY <1>1, <1>7 DEF Sound, Mic
<1>13. Ears(n, Around(d))
  BY <1>1, <1>7 DEF Sound, Ears
<1>14. Sound(n, told, holds, announcing, Around(d))
  BY <1>9, <1>10, <1>11, <1>12, <1>13 DEF Sound
<1> QED
  BY <1>3, <1>5, <1>7, <1>8, <1>14, OneDesk

\* A request of the button changes nothing for those of setHeld.
LEMMA QueueToggle ==
  ASSUME NEW q \in Seq(Ops), NEW o \in Ops, o.by = "toggle", NEW applying, Queue(q, applying)
  PROVE  Queue(Append(q, o), applying)
<1> DEFINE r == Append(q, o)
<1>1. /\ Len(q) \in Nat /\ Len(r) = Len(q) + 1
      /\ r[Len(q) + 1] = o /\ \A i \in 1..Len(q) : r[i] = q[i]
  BY AppendProperties, LenProperties
<1> HIDE DEF r
<1>2. \A i \in 1..Len(r) : r[i].by = "hold" => i \in 1..Len(q) /\ r[i] = q[i]
  <2> SUFFICES ASSUME NEW i \in 1..Len(r), r[i].by = "hold"
               PROVE  i \in 1..Len(q) /\ r[i] = q[i]
    OBVIOUS
  <2>1. i # Len(q) + 1
    BY <1>1
  <2> QED
    BY <1>1, <2>1
<1>3. Queue(r, applying)
  BY <1>2 DEF Queue
<1> QED
  BY <1>3 DEF r

\* The request of setHeld is the only one of its kind.
LEMMA QueueHold ==
  ASSUME NEW q \in Seq(Ops), NEW o \in Ops, Queue(q, FALSE)
  PROVE  Queue(Append(q, o), TRUE)
<1> DEFINE r == Append(q, o)
<1>1. /\ Len(q) \in Nat /\ Len(r) = Len(q) + 1
      /\ r[Len(q) + 1] = o /\ \A i \in 1..Len(q) : r[i] = q[i]
  BY AppendProperties, LenProperties
<1> HIDE DEF r
<1>2. \A i \in 1..Len(r) : r[i].by = "hold" => i = Len(q) + 1
  <2> SUFFICES ASSUME NEW i \in 1..Len(r), r[i].by = "hold", i # Len(q) + 1 PROVE FALSE
    OBVIOUS
  <2>1. i \in 1..Len(q)
    BY <1>1
  <2> QED
    BY <1>1, <2>1 DEF Queue
<1>3. Queue(r, TRUE)
  BY <1>2 DEF Queue
<1> QED
  BY <1>3 DEF r

\* Once it is done, no other is left.
LEMMA QueueDone ==
  ASSUME NEW q \in Seq(Ops), q # <<>>, NEW applying \in BOOLEAN, Queue(q, applying)
  PROVE  /\ Head(q) \in Ops /\ Head(q) = q[1] /\ Tail(q) \in Seq(Ops)
         /\ Len(q) = 1 => Tail(q) = <<>>
         /\ Head(q).by = "hold" => applying /\ Queue(Tail(q), FALSE)
         /\ Queue(Tail(q), applying)
<1> DEFINE r == Tail(q)
<1>1. q[1] = Head(q) /\ Head(q) \in Ops /\ r \in Seq(Ops)
  BY HeadTailProperties
<1>2. Len(r) = Len(q) - 1 /\ \A i \in 1..Len(r) : r[i] = q[i + 1]
  BY HeadTailProperties
<1>3. Len(q) \in Nat /\ Len(r) \in Nat /\ (r = <<>> <=> Len(r) = 0)
  BY <1>1, LenProperties, EmptySeq
<1> HIDE DEF r
<1>4. 1 \in 1..Len(q)
  BY <1>2, <1>3
<1>5. \A i \in 1..Len(r) : i + 1 \in 1..Len(q) /\ r[i] = q[i + 1] /\ i + 1 # 1
  BY <1>2, <1>3
<1>6. Queue(r, applying)
  <2>1. \A i \in 1..Len(r) : r[i].by = "hold" => applying
    BY <1>5 DEF Queue
  <2>2. ASSUME NEW i \in 1..Len(r), NEW j \in 1..Len(r), r[i].by = "hold", r[j].by = "hold"
        PROVE  i = j
    <3>1. i + 1 = j + 1
      BY <1>5, <2>2 DEF Queue
    <3> QED
      BY <3>1
  <2> QED
    BY <2>1, <2>2 DEF Queue
<1>7. ASSUME Head(q).by = "hold" PROVE applying /\ Queue(r, FALSE)
  <2>1. applying
    BY <1>1, <1>4, <1>7 DEF Queue
  <2>2. \A i \in 1..Len(r) : r[i].by # "hold"
    BY <1>1, <1>4, <1>5, <1>7 DEF Queue
  <2> QED
    BY <2>1, <2>2 DEF Queue
<1>8. Len(q) = 1 => r = <<>>
  BY <1>2, <1>3
<1> QED
  BY <1>1, <1>6, <1>7, <1>8 DEF r

LEMMA ReadDetailStep == \A d \in Desks : AudioInv /\ ReadDetail(d) => AudioInv'
<1> SUFFICES ASSUME NEW d \in Desks, AudioInv, ReadDetail(d) PROVE AudioInv'
  OBVIOUS
<1> DEFINE me == desk[d]
           n == [me EXCEPT !.fetch = held]
<1>1. me \in DeskRecord /\ Sound(me, told, holds, announcing, Around(d))
  BY DEF AudioInv, AudioTypeOK
<1>2. desk' = [desk EXCEPT ![d] = n] /\ UNCHANGED serverHold
  BY DEF ReadDetail
<1>3. held \in Hold /\ (holds = 0 => held = "no")
  BY DEF AudioInv, AudioTypeOK
<1>4. n \in DeskRecord
  BY <1>1, <1>3 DEF DeskRecord
<1>5. n.fetch = held
  BY <1>1 DEF DeskRecord
<1>6. /\ n.open = me.open /\ n.wire = me.wire /\ n.missed = me.missed /\ n.frame = me.frame
      /\ n.detail = me.detail /\ n.room = me.room /\ n.seen = me.seen /\ n.desired = me.desired
      /\ n.applied = me.applied /\ n.chain = me.chain /\ n.applying = me.applying
      /\ n.ops = me.ops /\ n.mic = me.mic /\ n.muted = me.muted /\ n.hears = me.hears
      /\ n.late = me.late /\ n.raced = me.raced
  BY <1>1 DEF DeskRecord
<1>7. n.room = "in" <=> desk[d].room = "in"
  BY <1>1, <1>3 DEF DeskRecord
<1> HIDE DEF n, me
<1>8. Info(n, told, holds, announcing)
  BY <1>1, <1>3, <1>5, <1>6 DEF Sound, Info
<1>9. Follow(n)
  BY <1>1, <1>6 DEF Sound, Follow
<1>10. Queue(n.ops, n.applying)
  BY <1>1, <1>6 DEF Sound
<1>11. Mic(n)
  BY <1>1, <1>6 DEF Sound, Mic
<1>12. Ears(n, Around(d))
  BY <1>1, <1>6 DEF Sound, Ears
<1>13. Sound(n, told, holds, announcing, Around(d))
  BY <1>8, <1>9, <1>10, <1>11, <1>12 DEF Sound
<1> QED
  BY <1>2, <1>4, <1>7, <1>13, OneDesk

LEMMA ShowDetailStep == \A d \in Desks : AudioInv /\ ShowDetail(d) => AudioInv'
<1> SUFFICES ASSUME NEW d \in Desks, AudioInv, ShowDetail(d) PROVE AudioInv'
  OBVIOUS
<1> DEFINE me == desk[d]
           n == [me EXCEPT !.detail = me.fetch, !.fetch = "none"]
<1>1. me \in DeskRecord /\ Sound(me, told, holds, announcing, Around(d))
  BY DEF AudioInv, AudioTypeOK
<1>2. desk' = [desk EXCEPT ![d] = n] /\ UNCHANGED serverHold
  BY DEF ShowDetail
<1>3. me.fetch \in Hold /\ me.fetch # "unknown"
  BY DEF ShowDetail, Hold
<1>4. n \in DeskRecord
  BY <1>1, <1>3 DEF DeskRecord, Known
<1>5. n.detail = me.fetch /\ n.fetch = "none"
  BY <1>1 DEF DeskRecord
<1>6. /\ n.open = me.open /\ n.wire = me.wire /\ n.missed = me.missed /\ n.frame = me.frame
      /\ n.room = me.room /\ n.seen = me.seen /\ n.desired = me.desired
      /\ n.applied = me.applied /\ n.chain = me.chain /\ n.applying = me.applying
      /\ n.ops = me.ops /\ n.mic = me.mic /\ n.muted = me.muted /\ n.hears = me.hears
      /\ n.late = me.late /\ n.raced = me.raced
  BY <1>1 DEF DeskRecord
<1>7. n.room = "in" <=> desk[d].room = "in"
  BY <1>1, <1>3 DEF DeskRecord
<1> HIDE DEF n, me
<1>8. Info(n, told, holds, announcing)
  BY <1>1, <1>5, <1>6 DEF Sound, Info
<1>9. Follow(n)
  BY <1>1, <1>3, <1>5, <1>6 DEF Sound, Follow
<1>10. Queue(n.ops, n.applying)
  BY <1>1, <1>6 DEF Sound
<1>11. Mic(n)
  BY <1>1, <1>6 DEF Sound, Mic
<1>12. Ears(n, Around(d))
  BY <1>1, <1>6 DEF Sound, Ears
<1>13. Sound(n, told, holds, announcing, Around(d))
  BY <1>8, <1>9, <1>10, <1>11, <1>12 DEF Sound
<1> QED
  BY <1>2, <1>4, <1>7, <1>13, OneDesk

LEMMA SocketDropsStep == \A d \in Desks : AudioInv /\ SocketDrops(d) => AudioInv'
<1> SUFFICES ASSUME NEW d \in Desks, AudioInv, SocketDrops(d) PROVE AudioInv'
  OBVIOUS
<1> DEFINE me == desk[d]
           n == [me EXCEPT !.open = FALSE, !.wire = <<>>, !.missed = me.missed \/ me.wire # <<>>]
<1>1. me \in DeskRecord /\ Sound(me, told, holds, announcing, Around(d))
  BY DEF AudioInv, AudioTypeOK
<1>2. desk' = [desk EXCEPT ![d] = n] /\ UNCHANGED serverHold
  BY DEF SocketDrops
<1>3. me.missed \in BOOLEAN /\ <<>> \in Seq(Hold)
  BY <1>1, EmptySeq DEF DeskRecord
<1>4. n \in DeskRecord
  BY <1>1, <1>3 DEF DeskRecord
<1>5. n.open = FALSE /\ n.wire = <<>> /\ n.missed = (me.missed \/ me.wire # <<>>)
  BY <1>1 DEF DeskRecord
<1>6. /\ n.frame = me.frame /\ n.detail = me.detail /\ n.fetch = me.fetch /\ n.room = me.room
      /\ n.seen = me.seen /\ n.desired = me.desired /\ n.applied = me.applied
      /\ n.chain = me.chain /\ n.applying = me.applying /\ n.ops = me.ops /\ n.mic = me.mic
      /\ n.muted = me.muted /\ n.hears = me.hears /\ n.late = me.late /\ n.raced = me.raced
  BY <1>1 DEF DeskRecord
<1>7. n.room = "in" <=> desk[d].room = "in"
  BY <1>1, <1>3 DEF DeskRecord
<1> HIDE DEF n, me
<1>8. Info(n, told, holds, announcing)
  BY <1>1, <1>5, <1>6 DEF Sound, Info
<1>9. Follow(n)
  BY <1>1, <1>6 DEF Sound, Follow
<1>10. Queue(n.ops, n.applying)
  BY <1>1, <1>6 DEF Sound
<1>11. Mic(n)
  BY <1>1, <1>6 DEF Sound, Mic
<1>12. Ears(n, Around(d))
  BY <1>1, <1>6 DEF Sound, Ears
<1>13. Sound(n, told, holds, announcing, Around(d))
  BY <1>8, <1>9, <1>10, <1>11, <1>12 DEF Sound
<1> QED
  BY <1>2, <1>4, <1>7, <1>13, OneDesk

LEMMA SocketReopensStep == \A d \in Desks : AudioInv /\ SocketReopens(d) => AudioInv'
<1> SUFFICES ASSUME NEW d \in Desks, AudioInv, SocketReopens(d) PROVE AudioInv'
  OBVIOUS
<1> DEFINE me == desk[d]
           n == [me EXCEPT !.open = TRUE]
<1>1. me \in DeskRecord /\ Sound(me, told, holds, announcing, Around(d))
  BY DEF AudioInv, AudioTypeOK
<1>2. desk' = [desk EXCEPT ![d] = n] /\ UNCHANGED serverHold
  BY DEF SocketReopens
<1>3. me.open = FALSE
  BY <1>1 DEF SocketReopens, DeskRecord
<1>4. n \in DeskRecord
  BY <1>1, <1>3 DEF DeskRecord
<1>5. n.open = TRUE
  BY <1>1 DEF DeskRecord
<1>6. /\ n.wire = me.wire /\ n.missed = me.missed /\ n.frame = me.frame /\ n.detail = me.detail
      /\ n.fetch = me.fetch /\ n.room = me.room /\ n.seen = me.seen /\ n.desired = me.desired
      /\ n.applied = me.applied /\ n.chain = me.chain /\ n.applying = me.applying
      /\ n.ops = me.ops /\ n.mic = me.mic /\ n.muted = me.muted /\ n.hears = me.hears
      /\ n.late = me.late /\ n.raced = me.raced
  BY <1>1 DEF DeskRecord
<1>7. n.room = "in" <=> desk[d].room = "in"
  BY <1>1, <1>3 DEF DeskRecord
<1> HIDE DEF n, me
<1>8. Info(n, told, holds, announcing)
  BY <1>1, <1>5, <1>6 DEF Sound, Info
<1>9. Follow(n)
  BY <1>1, <1>6 DEF Sound, Follow
<1>10. Queue(n.ops, n.applying)
  BY <1>1, <1>6 DEF Sound
<1>11. Mic(n)
  BY <1>1, <1>6 DEF Sound, Mic
<1>12. Ears(n, Around(d))
  BY <1>1, <1>6 DEF Sound, Ears
<1>13. Sound(n, told, holds, announcing, Around(d))
  BY <1>8, <1>9, <1>10, <1>11, <1>12 DEF Sound
<1> QED
  BY <1>2, <1>4, <1>7, <1>13, OneDesk

LEMMA OpenPanelStep == \A d \in Desks : AudioInv /\ OpenPanel(d) => AudioInv'
<1> SUFFICES ASSUME NEW d \in Desks, AudioInv, OpenPanel(d) PROVE AudioInv'
  OBVIOUS
<1> DEFINE me == desk[d]
           n == [me EXCEPT !.room = "joining", !.fetch = "asked", !.seen = "unknown"]
<1>1. me \in DeskRecord /\ Sound(me, told, holds, announcing, Around(d))
  BY DEF AudioInv, AudioTypeOK
<1>2. desk' = [desk EXCEPT ![d] = n] /\ UNCHANGED serverHold
  BY DEF OpenPanel
<1>3. me.room = "out"
  BY DEF OpenPanel
<1>4. n \in DeskRecord
  BY <1>1, <1>3 DEF DeskRecord, Known
<1>5. n.room = "joining" /\ n.fetch = "asked" /\ n.seen = "unknown"
  BY <1>1 DEF DeskRecord
<1>6. /\ n.open = me.open /\ n.wire = me.wire /\ n.missed = me.missed /\ n.frame = me.frame
      /\ n.detail = me.detail /\ n.desired = me.desired /\ n.applied = me.applied
      /\ n.chain = me.chain /\ n.applying = me.applying /\ n.ops = me.ops /\ n.mic = me.mic
      /\ n.muted = me.muted /\ n.hears = me.hears /\ n.late = me.late /\ n.raced = me.raced
  BY <1>1 DEF DeskRecord
<1>7. n.room = "in" <=> desk[d].room = "in"
  BY <1>1, <1>3 DEF DeskRecord
<1> HIDE DEF n, me
<1>8. Info(n, told, holds, announcing)
  BY <1>1, <1>5, <1>6 DEF Sound, Info
<1>9. Follow(n)
  BY <1>1, <1>3, <1>5, <1>6 DEF Sound, Follow
<1>10. Queue(n.ops, n.applying)
  BY <1>1, <1>6 DEF Sound
<1>11. Mic(n)
  BY <1>5 DEF Mic
<1>12. Ears(n, Around(d))
  BY <1>5 DEF Ears
<1>13. Sound(n, told, holds, announcing, Around(d))
  BY <1>8, <1>9, <1>10, <1>11, <1>12 DEF Sound
<1> QED
  BY <1>2, <1>4, <1>7, <1>13, OneDesk

LEMMA CustomerRejoinsStep == \A d \in Desks : AudioInv /\ CustomerRejoins(d) => AudioInv'
<1> SUFFICES ASSUME NEW d \in Desks, AudioInv, CustomerRejoins(d) PROVE AudioInv'
  OBVIOUS
<1> DEFINE me == desk[d]
           n == [me EXCEPT !.hears = me.hears \cup {Customer}, !.late = me.late \cup {Customer}]
<1>1. me \in DeskRecord /\ Sound(me, told, holds, announcing, Around(d))
  BY DEF AudioInv, AudioTypeOK
<1>2. desk' = [desk EXCEPT ![d] = n] /\ UNCHANGED serverHold
  BY DEF CustomerRejoins
<1>3. me.room = "in" /\ Customer \notin me.hears /\ Customer \in Around(d)
  BY DEF CustomerRejoins, InTheRoom, Around
<1>4. n \in DeskRecord
  BY <1>1, <1>3 DEF DeskRecord
<1>5. n.hears = me.hears \cup {Customer} /\ n.late = me.late \cup {Customer}
  BY <1>1 DEF DeskRecord
<1>6. /\ n.open = me.open /\ n.wire = me.wire /\ n.missed = me.missed /\ n.frame = me.frame
      /\ n.detail = me.detail /\ n.fetch = me.fetch /\ n.room = me.room /\ n.seen = me.seen
      /\ n.desired = me.desired /\ n.applied = me.applied /\ n.chain = me.chain
      /\ n.applying = me.applying /\ n.ops = me.ops /\ n.mic = me.mic /\ n.muted = me.muted
      /\ n.raced = me.raced
  BY <1>1 DEF DeskRecord
<1>7. n.room = "in" <=> desk[d].room = "in"
  BY <1>1, <1>3 DEF DeskRecord
<1> HIDE DEF n, me
<1>8. Info(n, told, holds, announcing)
  BY <1>1, <1>6 DEF Sound, Info
<1>9. Follow(n)
  BY <1>1, <1>6 DEF Sound, Follow
<1>10. Queue(n.ops, n.applying)
  BY <1>1, <1>6 DEF Sound
<1>11. Mic(n)
  BY <1>1, <1>6 DEF Sound, Mic
<1>12. Ears(n, Around(d))
  BY <1>1, <1>3, <1>5, <1>6 DEF Sound, Ears
<1>13. Sound(n, told, holds, announcing, Around(d))
  BY <1>8, <1>9, <1>10, <1>11, <1>12 DEF Sound
<1> QED
  BY <1>2, <1>4, <1>7, <1>13, OneDesk

LEMMA FollowHoldStep == \A d \in Desks : AudioInv /\ FollowHold(d) => AudioInv'
<1> SUFFICES ASSUME NEW d \in Desks, AudioInv, FollowHold(d) PROVE AudioInv'
  OBVIOUS
<1> DEFINE me == desk[d]
           n == [me EXCEPT !.seen = Shown(d), !.desired = Shown(d), !.chain = me.chain + 1]
<1>1. me \in DeskRecord /\ Sound(me, told, holds, announcing, Around(d))
  BY DEF AudioInv, AudioTypeOK
<1>2. desk' = [desk EXCEPT ![d] = n] /\ UNCHANGED serverHold
  BY DEF FollowHold
<1>3. /\ me.room = "in" /\ Shown(d) \in Hold /\ Shown(d) # "unknown" /\ me.chain \in Nat
      /\ me.frame # "unknown" \/ me.detail # "unknown"
  BY <1>1 DEF FollowHold, InStep, InTheRoom, Shown, DeskRecord, Known, Hold
<1>4. n \in DeskRecord
  <2>1. Shown(d) \in Known /\ me.chain + 1 \in Nat
    BY <1>3 DEF Known
  <2> HIDE DEF me
  <2> QED
    BY <1>1, <1>3, <2>1 DEF DeskRecord
<1>5. n.seen = Shown(d) /\ n.desired = Shown(d) /\ n.chain = me.chain + 1
  BY <1>1 DEF DeskRecord
<1>6. /\ n.open = me.open /\ n.wire = me.wire /\ n.missed = me.missed /\ n.frame = me.frame
      /\ n.detail = me.detail /\ n.fetch = me.fetch /\ n.room = me.room
      /\ n.applied = me.applied /\ n.applying = me.applying /\ n.ops = me.ops /\ n.mic = me.mic
      /\ n.muted = me.muted /\ n.hears = me.hears /\ n.late = me.late /\ n.raced = me.raced
  BY <1>1 DEF DeskRecord
<1>7. n.room = "in" <=> desk[d].room = "in"
  BY <1>1, <1>3 DEF DeskRecord
<1> HIDE DEF n, me
<1>8. Info(n, told, holds, announcing)
  BY <1>1, <1>6 DEF Sound, Info
<1>9. Follow(n)
  BY <1>1, <1>3, <1>5, <1>6 DEF Sound, Follow
<1>10. Queue(n.ops, n.applying)
  BY <1>1, <1>6 DEF Sound
<1>11. Mic(n)
  BY <1>1, <1>6 DEF Sound, Mic
<1>12. Ears(n, Around(d))
  BY <1>1, <1>6 DEF Sound, Ears
<1>13. Sound(n, told, holds, announcing, Around(d))
  BY <1>8, <1>9, <1>10, <1>11, <1>12 DEF Sound
<1> QED
  BY <1>2, <1>4, <1>7, <1>13, OneDesk

LEMMA ToggleMicStep == \A d \in Desks : AudioInv /\ ToggleMic(d) => AudioInv'
<1> SUFFICES ASSUME NEW d \in Desks, AudioInv, ToggleMic(d) PROVE AudioInv'
  OBVIOUS
<1> DEFINE me == desk[d]
           n == [me EXCEPT !.ops = Append(me.ops, [on |-> me.muted, by |-> "toggle"]),
                         !.raced = me.raced \/ me.chain > 0]
<1>1. me \in DeskRecord /\ Sound(me, told, holds, announcing, Around(d))
  BY DEF AudioInv, AudioTypeOK
<1>2. desk' = [desk EXCEPT ![d] = n] /\ UNCHANGED serverHold
  BY DEF ToggleMic
<1>3. /\ me.room = "in" /\ me.ops \in Seq(Ops) /\ Shown(d) # "yes"
      /\ Shown(d) \in {"unknown", me.seen} /\ me.chain \in Nat
      /\ [on |-> me.muted, by |-> "toggle"] \in Ops
      /\ Shown(d) = IF me.frame # "unknown" THEN me.frame ELSE me.detail
  BY <1>1 DEF ToggleMic, InStep, InTheRoom, DeskRecord, Ops, Shown
<1>4. n \in DeskRecord
  <2>1. Append(me.ops, [on |-> me.muted, by |-> "toggle"]) \in Seq(Ops)
    BY <1>3, AppendProperties
  <2>2. (me.raced \/ me.chain > 0) \in BOOLEAN
    OBVIOUS
  <2> HIDE DEF me
  <2> QED
    BY <1>1, <2>1, <2>2 DEF DeskRecord, Ops
<1>5. n.ops = Append(me.ops, [on |-> me.muted, by |-> "toggle"]) /\ n.raced = (me.raced \/ me.chain > 0)
  BY <1>1 DEF DeskRecord
<1>6. /\ n.open = me.open /\ n.wire = me.wire /\ n.missed = me.missed /\ n.frame = me.frame
      /\ n.detail = me.detail /\ n.fetch = me.fetch /\ n.room = me.room /\ n.seen = me.seen
      /\ n.desired = me.desired /\ n.applied = me.applied /\ n.chain = me.chain
      /\ n.applying = me.applying /\ n.mic = me.mic /\ n.muted = me.muted /\ n.hears = me.hears
      /\ n.late = me.late
  BY <1>1 DEF DeskRecord
<1>7. n.room = "in" <=> desk[d].room = "in"
  BY <1>1, <1>3 DEF DeskRecord
<1> HIDE DEF n, me
<1>8. Info(n, told, holds, announcing)
  BY <1>1, <1>6 DEF Sound, Info
<1>9. Follow(n)
  BY <1>1, <1>3, <1>6 DEF Sound, Follow
<1>10. Queue(n.ops, n.applying)
  <2>1. Queue(Append(me.ops, [on |-> me.muted, by |-> "toggle"]), me.applying)
    BY <1>1, <1>3, QueueToggle DEF Sound
  <2> QED
    BY <1>5, <1>6, <2>1
<1>11. Mic(n)
  <2> SUFFICES ASSUME ~n.raced PROVE Mic(n)
    BY DEF Mic
  <2>0. ~me.raced /\ ~(me.chain > 0)
    BY <1>5, ZenonT(20)
  <2>1. ~me.raced /\ me.chain = 0
    BY <1>3, <2>0
  <2>2. ~me.applying
    BY <1>1, <2>1 DEF Sound, Follow
  <2>3. me.applied # "yes"
    <3>1. CASE me.seen = "unknown"
      BY <1>1, <1>3, <3>1 DEF Sound, Follow
    <3>2. CASE me.seen # "unknown"
      <4>1. me.applied = me.desired /\ me.desired = me.seen
        BY <1>1, <1>3, <2>1, <3>2 DEF Sound, Follow
      <4>2. Shown(d) # "unknown"
        BY <1>1, <1>3, <3>2 DEF Sound, Follow
      <4> QED
        BY <1>3, <4>1, <4>2
    <3> QED
      BY <3>1, <3>2
  <2>4. me.mic <=> ~me.muted
    BY <1>1, <1>3, <2>1, <2>2, <2>3 DEF Sound, Mic
  <2> QED
    BY <1>6, <2>2, <2>3, <2>4 DEF Mic
<1>12. Ears(n, Around(d))
  BY <1>1, <1>6 DEF Sound, Ears
<1>13. Sound(n, told, holds, announcing, Around(d))
  BY <1>8, <1>9, <1>10, <1>11, <1>12 DEF Sound
<1> QED
  BY <1>2, <1>4, <1>7, <1>13, OneDesk

LEMMA ApplyKnownStep ==
  \A d \in Desks : AudioInv /\ Apply(d) /\ desk[d].desired = desk[d].applied => AudioInv'
<1> SUFFICES ASSUME NEW d \in Desks, AudioInv, Apply(d), desk[d].desired = desk[d].applied
             PROVE  AudioInv'
  OBVIOUS
<1> DEFINE me == desk[d]
           n == [me EXCEPT !.chain = me.chain - 1]
<1>1. me \in DeskRecord /\ Sound(me, told, holds, announcing, Around(d))
  BY DEF AudioInv, AudioTypeOK
<1>2. desk' = [desk EXCEPT ![d] = n] /\ UNCHANGED serverHold
  BY DEF Apply
<1>3. /\ me.chain \in Nat \ {0} /\ me.chain - 1 \in Nat /\ me.applying = FALSE
      /\ me.desired = me.applied
  BY <1>1 DEF Apply, DeskRecord
<1>4. n \in DeskRecord
  BY <1>1, <1>3 DEF DeskRecord
<1>5. n.chain = me.chain - 1
  BY <1>1 DEF DeskRecord
<1>6. /\ n.open = me.open /\ n.wire = me.wire /\ n.missed = me.missed /\ n.frame = me.frame
      /\ n.detail = me.detail /\ n.fetch = me.fetch /\ n.room = me.room /\ n.seen = me.seen
      /\ n.desired = me.desired /\ n.applied = me.applied /\ n.applying = me.applying
      /\ n.ops = me.ops /\ n.mic = me.mic /\ n.muted = me.muted /\ n.hears = me.hears
      /\ n.late = me.late /\ n.raced = me.raced
  BY <1>1 DEF DeskRecord
<1>7. n.room = "in" <=> desk[d].room = "in"
  BY <1>1, <1>3 DEF DeskRecord
<1> HIDE DEF n, me
<1>8. Info(n, told, holds, announcing)
  BY <1>1, <1>6 DEF Sound, Info
<1>9. Follow(n)
  BY <1>1, <1>3, <1>5, <1>6 DEF Sound, Follow
<1>10. Queue(n.ops, n.applying)
  BY <1>1, <1>6 DEF Sound
<1>11. Mic(n)
  BY <1>1, <1>6 DEF Sound, Mic
<1>12. Ears(n, Around(d))
  BY <1>1, <1>6 DEF Sound, Ears
<1>13. Sound(n, told, holds, announcing, Around(d))
  BY <1>8, <1>9, <1>10, <1>11, <1>12 DEF Sound
<1> QED
  BY <1>2, <1>4, <1>7, <1>13, OneDesk

LEMMA ApplyNewStep ==
  \A d \in Desks : AudioInv /\ Apply(d) /\ desk[d].desired # desk[d].applied => AudioInv'
<1> SUFFICES ASSUME NEW d \in Desks, AudioInv, Apply(d), desk[d].desired # desk[d].applied
             PROVE  AudioInv'
  OBVIOUS
<1> DEFINE me == desk[d]
           op == [on |-> me.desired = "no", by |-> "hold"]
           n == [me EXCEPT !.applied = me.desired, !.applying = TRUE,
                         !.muted = (me.desired = "yes"),
                         !.hears = IF me.desired = "yes" THEN {} ELSE Around(d), !.late = {},
                         !.raced = \E i \in DOMAIN me.ops : me.ops[i].by = "toggle",
                         !.ops = Append(me.ops, op)]
<1>1. me \in DeskRecord /\ Sound(me, told, holds, announcing, Around(d))
  BY DEF AudioInv, AudioTypeOK
<1>2. desk' = [desk EXCEPT ![d] = n] /\ UNCHANGED serverHold
  BY DEF Apply
<1>3. /\ me.chain \in Nat \ {0} /\ me.applying = FALSE /\ me.desired \in Hold
      /\ me.ops \in Seq(Ops) /\ op \in Ops /\ op.by = "hold" /\ (op.on <=> me.desired = "no")
      /\ me.room = "in" /\ me.seen # "unknown"
  <2>1. me.chain \in Nat \ {0} /\ me.applying = FALSE
    BY <1>1 DEF Apply, DeskRecord
  <2>2. me.room = "in" /\ me.seen # "unknown"
    BY <1>1, <2>1 DEF Sound, Follow
  <2> QED
    BY <1>1, <2>1, <2>2 DEF DeskRecord, Ops
<1>4. n \in DeskRecord
  <2>1. Append(me.ops, op) \in Seq(Ops)
    BY <1>3, AppendProperties
  <2>2. /\ (me.desired = "yes") \in BOOLEAN
        /\ (\E i \in DOMAIN me.ops : me.ops[i].by = "toggle") \in BOOLEAN
    OBVIOUS
  <2>3. (IF me.desired = "yes" THEN {} ELSE Around(d)) \subseteq Desks \cup {Customer}
    BY AroundType
  <2>4. me.desired \in Known
    BY <1>3 DEF Known
  <2> HIDE DEF me, op
  <2> QED
    BY <1>1, <2>1, <2>2, <2>3, <2>4 DEF DeskRecord, Ops
<1>5. /\ n.applied = me.desired /\ n.applying = TRUE /\ n.muted = (me.desired = "yes")
      /\ n.hears = IF me.desired = "yes" THEN {} ELSE Around(d)
      /\ n.raced = \E i \in DOMAIN me.ops : me.ops[i].by = "toggle"
      /\ n.ops = Append(me.ops, op)
  BY <1>1 DEF DeskRecord
<1>6. /\ n.open = me.open /\ n.wire = me.wire /\ n.missed = me.missed /\ n.frame = me.frame
      /\ n.detail = me.detail /\ n.fetch = me.fetch /\ n.room = me.room /\ n.seen = me.seen
      /\ n.desired = me.desired /\ n.chain = me.chain /\ n.mic = me.mic
  BY <1>1 DEF DeskRecord
<1>7. n.room = "in" <=> desk[d].room = "in"
  BY <1>1, <1>3 DEF DeskRecord
<1> HIDE DEF n, me, op
<1>8. Info(n, told, holds, announcing)
  BY <1>1, <1>6 DEF Sound, Info
<1>9. Follow(n)
  BY <1>1, <1>3, <1>5, <1>6 DEF Sound, Follow
<1>10. Queue(n.ops, n.applying)
  <2>1. Queue(Append(me.ops, op), TRUE)
    BY <1>1, <1>3, QueueHold DEF Sound
  <2> QED
    BY <1>5, <2>1
<1>11. Mic(n)
  <2> SUFFICES ASSUME ~n.raced PROVE Mic(n)
    BY DEF Mic
  <2>1. me.ops = <<>>
    <3>1. \A i \in DOMAIN me.ops : me.ops[i].by # "toggle"
      BY <1>5
    <3>2. DOMAIN me.ops = 1..Len(me.ops) /\ Len(me.ops) \in Nat
          /\ \A i \in 1..Len(me.ops) : me.ops[i] \in Ops
      BY <1>3, LenProperties, ElementOfSeq
    <3>3. \A i \in 1..Len(me.ops) : me.ops[i].by # "hold"
      BY <1>1, <1>3 DEF Sound, Queue
    <3>4. 1 \notin 1..Len(me.ops)
      BY <3>1, <3>2, <3>3 DEF Ops
    <3> QED
      BY <1>3, <3>2, <3>4, EmptySeq
  <2>2. Len(n.ops) = 1 /\ n.ops[1] = op
    <3> DEFINE s == Append(me.ops, op)
    <3>1. Len(s) = Len(me.ops) + 1 /\ s[Len(me.ops) + 1] = op
      BY <1>3, AppendProperties
    <3>2. Len(me.ops) = 0
      BY <2>1, EmptySeq
    <3> HIDE DEF s
    <3>3. Len(s) = 1 /\ s[1] = op
      BY <3>1, <3>2
    <3> QED
      BY <1>5, <3>3 DEF s
  <2> QED
    BY <1>3, <1>5, <2>2 DEF Mic, Hold
<1>12. Ears(n, Around(d))
  BY <1>5 DEF Ears
<1>13. Sound(n, told, holds, announcing, Around(d))
  BY <1>8, <1>9, <1>10, <1>11, <1>12 DEF Sound
<1> QED
  BY <1>2, <1>4, <1>7, <1>13, OneDesk

LEMMA HoldDoneStep ==
  \A d \in Desks : AudioInv /\ MicDone(d) /\ Head(desk[d].ops).by = "hold" => AudioInv'
<1> SUFFICES ASSUME NEW d \in Desks, AudioInv, MicDone(d), Head(desk[d].ops).by = "hold"
             PROVE  AudioInv'
  OBVIOUS
<1> DEFINE me == desk[d]
           op == Head(me.ops)
           n == [me EXCEPT !.mic = op.on, !.ops = Tail(me.ops), !.chain = me.chain - 1,
                         !.applying = FALSE]
<1>1. me \in DeskRecord /\ Sound(me, told, holds, announcing, Around(d))
  BY DEF AudioInv, AudioTypeOK
<1>2. desk' = [desk EXCEPT ![d] = n] /\ UNCHANGED serverHold
  BY DEF MicDone
<1>3. /\ me.ops \in Seq(Ops) /\ me.ops # <<>> /\ op = Head(me.ops) /\ op \in Ops
      /\ op = me.ops[1] /\ Tail(me.ops) \in Seq(Ops) /\ op.by = "hold"
      /\ Len(me.ops) = 1 => Tail(me.ops) = <<>>
      /\ Queue(Tail(me.ops), FALSE) /\ me.room = "in"
      /\ me.applying = TRUE /\ me.chain \in Nat \ {0} /\ me.chain - 1 \in Nat
  <2>1. me.ops \in Seq(Ops) /\ me.ops # <<>> /\ me.applying \in BOOLEAN
        /\ Queue(me.ops, me.applying)
    BY <1>1 DEF MicDone, DeskRecord, Ops, Sound
  <2>2. me.room = "in"
    BY <1>1, <2>1 DEF Sound, Follow
  <2>0. Head(me.ops).by = "hold"
    OBVIOUS
  <2> HIDE DEF me
  <2>3. /\ Head(me.ops) \in Ops /\ Head(me.ops) = me.ops[1] /\ Tail(me.ops) \in Seq(Ops)
        /\ Len(me.ops) = 1 => Tail(me.ops) = <<>>
        /\ Head(me.ops).by = "hold" => me.applying /\ Queue(Tail(me.ops), FALSE)
        /\ Queue(Tail(me.ops), me.applying)
    BY <2>1, QueueDone
  <2>4. me.applying = TRUE /\ me.chain \in Nat \ {0}
    <3>1. me.applying = TRUE
      BY <2>0, <2>1, <2>3
    <3>2. me.chain # 0 /\ me.chain \in Nat
      BY <1>1, <3>1 DEF Sound, Follow, DeskRecord
    <3> QED
      BY <3>1, <3>2
  <2>5. me.chain - 1 \in Nat
    BY <2>4
  <2> QED
    BY <2>0, <2>1, <2>2, <2>3, <2>4, <2>5
<1>4. n \in DeskRecord
  <2> HIDE DEF me, op
  <2>1. op.on \in BOOLEAN /\ (~op.on) \in BOOLEAN
    BY <1>3 DEF Ops
  <2> QED
    BY <1>1, <1>3, <2>1 DEF DeskRecord, Ops
<1>5. /\ n.mic = op.on /\ n.ops = Tail(me.ops) /\ n.chain = me.chain - 1
      /\ n.applying = FALSE
  BY <1>1 DEF DeskRecord
<1>6. /\ n.open = me.open /\ n.wire = me.wire /\ n.missed = me.missed /\ n.frame = me.frame
      /\ n.detail = me.detail /\ n.fetch = me.fetch /\ n.room = me.room /\ n.seen = me.seen
      /\ n.desired = me.desired /\ n.applied = me.applied /\ n.muted = me.muted
      /\ n.hears = me.hears /\ n.late = me.late /\ n.raced = me.raced
  BY <1>1 DEF DeskRecord
<1>7. n.room = "in" <=> desk[d].room = "in"
  BY <1>1, <1>3 DEF DeskRecord
<1> HIDE DEF n, me, op
<1>8. Info(n, told, holds, announcing)
  BY <1>1, <1>6 DEF Sound, Info
<1>9. Follow(n)
  BY <1>1, <1>3, <1>5, <1>6 DEF Sound, Follow
<1>10. Queue(n.ops, n.applying)
  BY <1>3, <1>5
<1>11. Mic(n)
  <2> SUFFICES ASSUME ~n.raced PROVE Mic(n)
    BY DEF Mic
  <2>1. /\ Len(me.ops) = 1 /\ (op.on <=> me.applied = "no")
        /\ me.applied # "unknown" /\ (me.muted <=> me.applied = "yes")
    BY <1>1, <1>3, <1>6 DEF Sound, Mic
  <2>2. n.ops = <<>>
    BY <1>3, <1>5, <2>1
  <2>3. me.applied \in {"yes", "no"}
    BY <1>1, <2>1 DEF DeskRecord, Known, Hold
  <2> QED
    BY <1>5, <1>6, <2>1, <2>2, <2>3 DEF Mic
<1>12. Ears(n, Around(d))
  BY <1>1, <1>6 DEF Sound, Ears
<1>13. Sound(n, told, holds, announcing, Around(d))
  BY <1>8, <1>9, <1>10, <1>11, <1>12 DEF Sound
<1> QED
  BY <1>2, <1>4, <1>7, <1>13, OneDesk

LEMMA ToggleDoneStep ==
  \A d \in Desks : AudioInv /\ MicDone(d) /\ Head(desk[d].ops).by # "hold" => AudioInv'
<1> SUFFICES ASSUME NEW d \in Desks, AudioInv, MicDone(d), Head(desk[d].ops).by # "hold"
             PROVE  AudioInv'
  OBVIOUS
<1> DEFINE me == desk[d]
           op == Head(me.ops)
           n == [me EXCEPT !.mic = op.on, !.ops = Tail(me.ops), !.muted = ~op.on]
<1>1. me \in DeskRecord /\ Sound(me, told, holds, announcing, Around(d))
  BY DEF AudioInv, AudioTypeOK
<1>2. desk' = [desk EXCEPT ![d] = n] /\ UNCHANGED serverHold
  BY DEF MicDone
<1>3. /\ me.ops \in Seq(Ops) /\ me.ops # <<>> /\ op = Head(me.ops) /\ op \in Ops
      /\ op = me.ops[1] /\ Tail(me.ops) \in Seq(Ops) /\ op.by # "hold"
      /\ Len(me.ops) = 1 => Tail(me.ops) = <<>>
      /\ Queue(Tail(me.ops), me.applying) /\ me.room = "in"
  <2>1. me.ops \in Seq(Ops) /\ me.ops # <<>> /\ me.applying \in BOOLEAN
        /\ Queue(me.ops, me.applying)
    BY <1>1 DEF MicDone, DeskRecord, Ops, Sound
  <2>2. me.room = "in"
    BY <1>1, <2>1 DEF Sound, Follow
  <2>0. Head(me.ops).by # "hold"
    OBVIOUS
  <2> HIDE DEF me
  <2>3. /\ Head(me.ops) \in Ops /\ Head(me.ops) = me.ops[1] /\ Tail(me.ops) \in Seq(Ops)
        /\ Len(me.ops) = 1 => Tail(me.ops) = <<>>
        /\ Head(me.ops).by = "hold" => me.applying /\ Queue(Tail(me.ops), FALSE)
        /\ Queue(Tail(me.ops), me.applying)
    BY <2>1, QueueDone
  <2> QED
    BY <2>0, <2>1, <2>2, <2>3
<1>4. n \in DeskRecord
  <2> HIDE DEF me, op
  <2>1. op.on \in BOOLEAN /\ (~op.on) \in BOOLEAN
    BY <1>3 DEF Ops
  <2> QED
    BY <1>1, <1>3, <2>1 DEF DeskRecord, Ops
<1>5. n.mic = op.on /\ n.ops = Tail(me.ops) /\ n.muted = ~op.on
  BY <1>1 DEF DeskRecord
<1>6. /\ n.open = me.open /\ n.wire = me.wire /\ n.missed = me.missed /\ n.frame = me.frame
      /\ n.detail = me.detail /\ n.fetch = me.fetch /\ n.room = me.room /\ n.seen = me.seen
      /\ n.desired = me.desired /\ n.applied = me.applied /\ n.chain = me.chain
      /\ n.applying = me.applying /\ n.hears = me.hears /\ n.late = me.late
      /\ n.raced = me.raced
  BY <1>1 DEF DeskRecord
<1>7. n.room = "in" <=> desk[d].room = "in"
  BY <1>1, <1>3 DEF DeskRecord
<1> HIDE DEF n, me, op
<1>8. Info(n, told, holds, announcing)
  BY <1>1, <1>6 DEF Sound, Info
<1>9. Follow(n)
  BY <1>1, <1>3, <1>6 DEF Sound, Follow
<1>10. Queue(n.ops, n.applying)
  BY <1>3, <1>5, <1>6
<1>11. Mic(n)
  <2> SUFFICES ASSUME ~n.raced PROVE Mic(n)
    BY DEF Mic
  <2>1. me.applying = FALSE /\ me.applied # "yes"
    BY <1>1, <1>3, <1>6 DEF Sound, Mic, DeskRecord
  <2>2. n.mic <=> ~n.muted
    <3>1. op.on \in BOOLEAN
      BY <1>3 DEF Ops
    <3> QED
      BY <1>5, <3>1
  <2> QED
    BY <1>6, <2>1, <2>2 DEF Mic
<1>12. Ears(n, Around(d))
  BY <1>1, <1>6 DEF Sound, Ears
<1>13. Sound(n, told, holds, announcing, Around(d))
  BY <1>8, <1>9, <1>10, <1>11, <1>12 DEF Sound
<1> QED
  BY <1>2, <1>4, <1>7, <1>13, OneDesk

LEMMA JoinRoomStep == \A d \in Desks : AudioInv /\ JoinRoom(d) => AudioInv'
<1> SUFFICES ASSUME NEW d \in Desks, AudioInv, JoinRoom(d) PROVE AudioInv'
  OBVIOUS
<1> DEFINE f(e) == IF e = d THEN Joined(d, desk[d])
                   ELSE IF e \in InTheRoom
                        THEN [desk[e] EXCEPT !.hears = @ \cup {d}, !.late = @ \cup {d}]
                        ELSE desk[e]
<1>1. /\ desk' = [e \in Desks |-> f(e)] /\ desk[d].room = "joining" /\ UNCHANGED serverHold
  BY DEF JoinRoom
<1>2. \A e \in Desks : desk[e] \in DeskRecord
                       /\ Sound(desk[e], told, holds, announcing, Around(e))
  BY DEF AudioInv, AudioTypeOK
<1>3. /\ f(d) \in DeskRecord /\ f(d).room = "in"
      /\ Sound(f(d), told, holds, announcing, Around(d))
  <2> DEFINE me == desk[d]
             n == Joined(d, me)
  <2>1. me \in DeskRecord /\ Sound(me, told, holds, announcing, Around(d)) /\ me.room = "joining"
    BY <1>1, <1>2
  <2>2. n \in DeskRecord
    <3>1. Around(d) \subseteq Desks \cup {Customer}
      BY AroundType
    <3> HIDE DEF me
    <3> QED
      BY <2>1, <3>1 DEF Joined, DeskRecord, Known, Hold
  <2>3. /\ n.room = "in" /\ n.mic = TRUE /\ n.muted = FALSE /\ n.hears = Around(d) /\ n.late = {}
        /\ n.raced = FALSE /\ n.desired = "no" /\ n.applied = "unknown"
    BY <2>1 DEF Joined, DeskRecord
  <2>4. /\ n.open = me.open /\ n.wire = me.wire /\ n.missed = me.missed /\ n.frame = me.frame
        /\ n.detail = me.detail /\ n.fetch = me.fetch /\ n.seen = me.seen /\ n.chain = me.chain
        /\ n.applying = me.applying /\ n.ops = me.ops
    BY <2>1 DEF Joined, DeskRecord
  <2>5. f(d) = n
    OBVIOUS
  <2> HIDE DEF n, me, f
  <2>6. Info(n, told, holds, announcing)
    BY <2>1, <2>4 DEF Sound, Info
  <2>7. n.chain = 0 /\ n.ops = <<>> /\ ~n.applying /\ n.seen = "unknown"
    BY <2>1, <2>4 DEF Sound, Follow
  <2>8. Follow(n) /\ Mic(n) /\ Ears(n, Around(d))
    BY <2>3, <2>7 DEF Follow, Mic, Ears
  <2>9. Queue(n.ops, n.applying)
    BY <2>1, <2>4 DEF Sound
  <2> QED
    BY <2>2, <2>3, <2>5, <2>6, <2>8, <2>9 DEF Sound
<1>4. Around(d)' = Around(d)
  <2>1. \A e \in Desks \ {d} : (desk'[e].room = "in" <=> desk[e].room = "in")
    BY <1>1, <1>2 DEF InTheRoom, DeskRecord
  <2> HIDE DEF f
  <2> QED
    BY <2>1 DEF Around, InTheRoom
<1>5. ASSUME NEW e \in Desks \ {d}
      PROVE  /\ f(e) \in DeskRecord
             /\ Sound(f(e), told, holds, announcing, Around(e) \cup {d})
  <2> DEFINE me == desk[e]
             n == [me EXCEPT !.hears = @ \cup {d}, !.late = @ \cup {d}]
  <2>1. me \in DeskRecord /\ Sound(me, told, holds, announcing, Around(e))
    BY <1>2
  <2>2. CASE e \in InTheRoom
    <3>1. f(e) = n
      BY <2>2
    <3>2. n \in DeskRecord
      BY <2>1 DEF DeskRecord
    <3>3. n.hears = me.hears \cup {d} /\ n.late = me.late \cup {d}
      BY <2>1 DEF DeskRecord
    <3>4. /\ n.open = me.open /\ n.wire = me.wire /\ n.missed = me.missed /\ n.frame = me.frame
          /\ n.detail = me.detail /\ n.fetch = me.fetch /\ n.room = me.room /\ n.seen = me.seen
          /\ n.desired = me.desired /\ n.applied = me.applied /\ n.chain = me.chain
          /\ n.applying = me.applying /\ n.ops = me.ops /\ n.mic = me.mic /\ n.muted = me.muted
          /\ n.raced = me.raced
      BY <2>1 DEF DeskRecord
    <3> HIDE DEF n, me, f
    <3>5. Info(n, told, holds, announcing) /\ Queue(n.ops, n.applying)
      BY <2>1, <3>4 DEF Sound, Info
    <3>6. Follow(n)
      BY <2>1, <3>4 DEF Sound, Follow
    <3>7. Mic(n)
      BY <2>1, <3>4 DEF Sound, Mic
    <3>8. Ears(n, Around(e) \cup {d})
      BY <2>1, <3>3, <3>4 DEF Sound, Ears
    <3> QED
      BY <3>1, <3>2, <3>5, <3>6, <3>7, <3>8 DEF Sound
  <2>3. CASE e \notin InTheRoom
    <3>1. f(e) = me /\ me.room # "in"
      BY <2>3 DEF InTheRoom
    <3> HIDE DEF f
    <3> QED
      BY <2>1, <3>1 DEF Sound, Ears
  <2> QED
    BY <2>2, <2>3
<1>6. \A e \in Desks \ {d} : Around(e)' = Around(e) \cup {d}
  <2>1. \A e \in Desks \ {d} : (desk'[e].room = "in" <=> desk[e].room = "in")
    BY <1>1, <1>2 DEF InTheRoom, DeskRecord
  <2>2. desk'[d].room = "in"
    BY <1>1, <1>3
  <2> HIDE DEF f
  <2> QED
    BY <2>1, <2>2 DEF Around, InTheRoom
<1> HIDE DEF f
<1>7. \A e \in Desks : f(e) \in DeskRecord /\ desk'[e] = f(e)
  BY <1>1, <1>3, <1>5
<1>8. \A e \in Desks : Sound(desk'[e], told', holds', announcing', Around(e)')
  <2> SUFFICES ASSUME NEW e \in Desks
               PROVE  Sound(desk'[e], told', holds', announcing', Around(e)')
    OBVIOUS
  <2>1. CASE e = d
    BY <1>1, <1>3, <1>4, <1>7, <2>1 DEF serverHold
  <2>2. CASE e # d
    BY <1>1, <1>5, <1>6, <1>7, <2>2 DEF serverHold
  <2> QED
    BY <2>1, <2>2
<1>9. AudioTypeOK' /\ holds' \in 0..MaxHolds /\ (holds' = 0 => held' = "no")
  <2>1. desk' \in [Desks -> DeskRecord]
    BY <1>1, <1>7
  <2> QED
    BY <1>1, <2>1 DEF AudioInv, AudioTypeOK, serverHold
<1> QED
  BY <1>8, <1>9 DEF AudioInv

LEMMA ClosePanelStep == \A d \in Desks : AudioInv /\ ClosePanel(d) => AudioInv'
<1> SUFFICES ASSUME NEW d \in Desks, AudioInv, ClosePanel(d) PROVE AudioInv'
  OBVIOUS
<1> DEFINE f(e) == IF e = d
                   THEN [desk[d] EXCEPT !.room = "out", !.seen = "unknown", !.chain = 0,
                                        !.applying = FALSE, !.ops = <<>>, !.mic = FALSE,
                                        !.muted = FALSE, !.hears = {}, !.late = {}]
                   ELSE [desk[e] EXCEPT !.hears = @ \ {d}, !.late = @ \ {d}]
<1>1. desk' = [e \in Desks |-> f(e)] /\ UNCHANGED serverHold
  BY DEF ClosePanel
<1>2. \A e \in Desks : desk[e] \in DeskRecord
                       /\ Sound(desk[e], told, holds, announcing, Around(e))
  BY DEF AudioInv, AudioTypeOK
<1>3. /\ f(d) \in DeskRecord /\ f(d).room = "out"
      /\ \A all : Sound(f(d), told, holds, announcing, all)
  <2> DEFINE me == desk[d]
             n == f(d)
  <2>1. me \in DeskRecord /\ Sound(me, told, holds, announcing, Around(d))
    BY <1>2
  <2>2. n \in DeskRecord
    <3>1. <<>> \in Seq(Ops)
      BY EmptySeq
    <3> QED
      BY <2>1, <3>1 DEF DeskRecord, Known, Ops
  <2>3. n.room = "out" /\ n.seen = "unknown" /\ n.chain = 0 /\ n.applying = FALSE /\ n.ops = <<>>
    BY <2>1 DEF DeskRecord
  <2>4. /\ n.open = me.open /\ n.wire = me.wire /\ n.missed = me.missed /\ n.frame = me.frame
        /\ n.detail = me.detail /\ n.fetch = me.fetch
    BY <2>1 DEF DeskRecord
  <2> HIDE DEF n, me, f
  <2>5. Info(n, told, holds, announcing)
    BY <2>1, <2>4 DEF Sound, Info
  <2>6. Follow(n) /\ Mic(n) /\ \A all : Ears(n, all)
    BY <2>3 DEF Follow, Mic, Ears
  <2>7. Len(n.ops) = 0
    BY <2>3, EmptySeq
  <2>8. Queue(n.ops, n.applying)
    BY <2>7 DEF Queue
  <2> QED
    BY <2>2, <2>3, <2>5, <2>6, <2>8 DEF Sound, n
<1>4. ASSUME NEW e \in Desks \ {d}
      PROVE  /\ f(e) \in DeskRecord /\ f(e).room = desk[e].room
             /\ Sound(f(e), told, holds, announcing, Around(e) \ {d})
  <2> DEFINE me == desk[e]
             n == [me EXCEPT !.hears = @ \ {d}, !.late = @ \ {d}]
  <2>1. me \in DeskRecord /\ Sound(me, told, holds, announcing, Around(e))
    BY <1>2
  <2>2. f(e) = n
    OBVIOUS
  <2>3. n \in DeskRecord
    BY <2>1 DEF DeskRecord
  <2>4. n.hears = me.hears \ {d} /\ n.late = me.late \ {d}
    BY <2>1 DEF DeskRecord
  <2>5. /\ n.open = me.open /\ n.wire = me.wire /\ n.missed = me.missed /\ n.frame = me.frame
        /\ n.detail = me.detail /\ n.fetch = me.fetch /\ n.room = me.room /\ n.seen = me.seen
        /\ n.desired = me.desired /\ n.applied = me.applied /\ n.chain = me.chain
        /\ n.applying = me.applying /\ n.ops = me.ops /\ n.mic = me.mic /\ n.muted = me.muted
        /\ n.raced = me.raced
    BY <2>1 DEF DeskRecord
  <2>6. me.room = desk[e].room
    OBVIOUS
  <2> HIDE DEF n, me, f
  <2>7. Info(n, told, holds, announcing) /\ Queue(n.ops, n.applying)
    BY <2>1, <2>5 DEF Sound, Info
  <2>8. Follow(n)
    BY <2>1, <2>5 DEF Sound, Follow
  <2>9. Mic(n)
    BY <2>1, <2>5 DEF Sound, Mic
  <2>10. Ears(n, Around(e) \ {d})
    BY <2>1, <2>4, <2>5 DEF Sound, Ears
  <2> QED
    BY <2>2, <2>3, <2>5, <2>6, <2>7, <2>8, <2>9, <2>10 DEF Sound
<1> HIDE DEF f
<1>5. \A e \in Desks : f(e) \in DeskRecord /\ desk'[e] = f(e)
  BY <1>1, <1>3, <1>4
<1>6. \A e \in Desks \ {d} : Around(e)' = Around(e) \ {d}
  <2>1. \A e \in Desks \ {d} : desk'[e].room = desk[e].room
    BY <1>4, <1>5
  <2>2. desk'[d].room = "out" /\ d # Customer
    BY <1>3, <1>5, DeskAudioAssumption
  <2> QED
    BY <2>1, <2>2 DEF Around, InTheRoom
<1>7. \A e \in Desks : Sound(desk'[e], told', holds', announcing', Around(e)')
  <2> SUFFICES ASSUME NEW e \in Desks
               PROVE  Sound(desk'[e], told', holds', announcing', Around(e)')
    OBVIOUS
  <2>1. CASE e = d
    BY <1>1, <1>3, <1>5, <2>1 DEF serverHold
  <2>2. CASE e # d
    BY <1>1, <1>4, <1>5, <1>6, <2>2 DEF serverHold
  <2> QED
    BY <2>1, <2>2
<1>8. AudioTypeOK' /\ holds' \in 0..MaxHolds /\ (holds' = 0 => held' = "no")
  <2>1. desk' \in [Desks -> DeskRecord]
    BY <1>1, <1>5
  <2> QED
    BY <1>1, <2>1 DEF AudioInv, AudioTypeOK, serverHold
<1> QED
  BY <1>7, <1>8 DEF AudioInv

LEMMA AudioStep == AudioInv /\ [AudioNext]_audioVars => AudioInv'
<1> SUFFICES ASSUME AudioInv, [AudioNext]_audioVars PROVE AudioInv'
  OBVIOUS
<1>1. CASE SetHeld
  BY <1>1, SetHeldStep
<1>2. ASSUME NEW a \in announcing, Tell(a) PROVE AudioInv'
  BY <1>2, TellStep
<1>3. ASSUME NEW d \in Desks,
             \/ HearFrame(d) \/ ReadDetail(d) \/ ShowDetail(d)
             \/ SocketDrops(d) \/ SocketReopens(d)
      PROVE  AudioInv'
  BY <1>3, HearFrameStep, ReadDetailStep, ShowDetailStep, SocketDropsStep, SocketReopensStep
<1>4. ASSUME NEW d \in Desks,
             OpenPanel(d) \/ JoinRoom(d) \/ CustomerRejoins(d) \/ ClosePanel(d)
      PROVE  AudioInv'
  BY <1>4, OpenPanelStep, JoinRoomStep, CustomerRejoinsStep, ClosePanelStep
<1>5. ASSUME NEW d \in Desks, FollowHold(d) \/ Apply(d) \/ ToggleMic(d) \/ MicDone(d)
      PROVE  AudioInv'
  BY <1>5, FollowHoldStep, ApplyKnownStep, ApplyNewStep, ToggleMicStep, HoldDoneStep,
     ToggleDoneStep
<1>6. CASE UNCHANGED audioVars
  <2>1. /\ held' = held /\ announcing' = announcing /\ told' = told /\ desk' = desk
        /\ holds' = holds
    BY <1>6 DEF audioVars
  <2>2. \A e : Around(e)' = Around(e)
    BY <2>1 DEF Around, InTheRoom
  <2> QED
    BY <2>1, <2>2 DEF AudioInv, AudioTypeOK
<1> QED
  BY <1>1, <1>2, <1>3, <1>4, <1>5, <1>6 DEF AudioNext

\* What a desk knows of the hold, what setHeld made of it, the microphone requests under
\* way and the tracks subscribed agree, at every desk (CallPanel.tsx, hooks.ts).
THEOREM AudioInvariant == AudioSpec => []AudioInv
<1> QED
  BY AudioStart, AudioStep, PTL DEF AudioSpec

-----------------------------------------------------------------------------
\* At rest nothing is left that a frame, a detail or a request could still change.
LEMMA AudioInvSays == AudioInv => AudioFollowsHold
<1> SUFFICES ASSUME AudioInv, AllTold, NEW d \in Desks, AtEase(d), ~desk[d].missed
             PROVE  IF held = "yes"
                    THEN (desk[d].raced \/ ~desk[d].mic) /\ desk[d].hears \subseteq desk[d].late
                    ELSE /\ desk[d].hears = Around(d)
                         /\ desk[d].raced \/ (desk[d].mic <=> ~desk[d].muted)
  BY DEF AudioFollowsHold
<1> DEFINE me == desk[d]
<1>1. me \in DeskRecord /\ Sound(me, told, holds, announcing, Around(d)) /\ held \in Hold
  BY DEF AudioInv, AudioTypeOK
<1>2. /\ me.room = "in" /\ me.wire = <<>> /\ me.chain = 0 /\ me.ops = <<>> /\ ~me.missed
      /\ me.seen = Shown(d) /\ told = held /\ announcing = {}
      /\ Shown(d) = IF me.frame # "unknown" THEN me.frame ELSE me.detail
  BY DEF AtEase, AllTold, InTheRoom, Shown
<1>3. holds = 0 => held = "no"
  BY DEF AudioInv
<1> HIDE DEF me
<1>4. ~me.applying
  BY <1>1, <1>2 DEF Sound, Follow
<1>5. me.applied = "yes" <=> held = "yes"
  <2>1. CASE me.frame = told
    <3>1. me.seen = held /\ held # "unknown"
      BY <1>1, <1>2, <2>1 DEF Hold
    <3> QED
      BY <1>1, <1>2, <3>1 DEF Sound, Follow
  <2>2. CASE me.frame # told
    <3>1. me.frame = "unknown" /\ holds = 0
      BY <1>1, <1>2, <2>2 DEF Sound, Info
    <3>2. held = "no" /\ me.detail # "yes" /\ me.seen = me.detail
      BY <1>1, <1>2, <1>3, <3>1 DEF Sound, Info
    <3>3. me.applied # "yes"
      BY <1>1, <1>2, <3>2 DEF Sound, Follow
    <3> QED
      BY <3>2, <3>3
  <2> QED
    BY <2>1, <2>2
<1>6. IF held = "yes" THEN me.hears \subseteq me.late ELSE me.hears = Around(d)
  BY <1>1, <1>2, <1>5 DEF Sound, Ears
<1>7. ~me.raced => IF held = "yes" THEN ~me.mic ELSE (me.mic <=> ~me.muted)
  BY <1>1, <1>2, <1>4, <1>5 DEF Sound, Mic
<1>8. CASE held = "yes"
  BY <1>6, <1>7, <1>8 DEF me
<1>9. CASE held # "yes"
  BY <1>6, <1>7, <1>9 DEF me
<1> QED
  BY <1>8, <1>9

\* At a settled desk the microphone and the participants heard follow the customer's hold,
\* for any number of desks, holds and retrieves, and clicks on Mute (hooks.ts).
THEOREM AudioFollowsHoldHolds == AudioSpec => []AudioFollowsHold
<1> QED
  BY AudioInvariant, AudioInvSays, PTL
==============================================================================
