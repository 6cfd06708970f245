------------------------------- MODULE CallButton -------------------------------
(***************************************************************************)
(* The call button on a customer's website: the reducer (apps/embed/src/   *)
(* state.ts), the hook around it (useCall.ts) and what the element shows   *)
(* and does (CallButton.tsx, call-button.ts).  A call attempt waits for    *)
(* the API, the join and the microphone; end() waits for the room to be    *)
(* left.  At each of these awaits the customer, the page and LiveKit may   *)
(* act.                                                                    *)
(*                                                                         *)
(* livekit-client (external): leaving a room one is in emits Disconnected  *)
(* before disconnect() returns; leaving one that is being joined rejects   *)
(* its connect().                                                          *)
(***************************************************************************)
EXTENDS Naturals, FiniteSets

CONSTANTS
  MaxAttempts,  \* bound: calls started
  NoRoom        \* undefined

ASSUME CallButtonAssumption == MaxAttempts \in Nat /\ NoRoom \notin 1..MaxAttempts

Attempts == 1..MaxAttempts

VARIABLES
  button,     \* CallState
  current,    \* room.current
  attempt,    \* per attempt, the await of start()
  joined,     \* rooms one is connected to
  live,       \* rooms in which the microphone is on
  peers,      \* roles of the others, per room
  leaving,    \* rooms whose disconnect() end() waits for
  mounted,    \* is the element in the page?
  started,    \* attempts so far
  overlapped, \* history: a call was started while end() waited
  removed     \* history: the element was removed while a call was being started

buttonVars ==
  <<button, current, attempt, joined, live, peers, leaving, mounted, started, overlapped, removed>>

Roles == {"ai", "human", "transcriber"}

-----------------------------------------------------------------------------
\* reduce() and the events it takes.

Plain(kind) == [kind |-> kind, with |-> "nobody", muted |-> FALSE]

OnClick(b) == IF b.kind \in {"idle", "ended", "error"} THEN Plain("connecting") ELSE b
OnConnected(b) == IF b.kind = "connecting" THEN Plain("waiting") ELSE b
OnPeerJoined(b, role) ==
  IF b.kind = "waiting" /\ role \in {"ai", "human"} THEN [Plain("in_call") EXCEPT !.with = role]
  ELSE IF b.kind = "in_call" /\ role = "human" THEN [b EXCEPT !.with = role]
  ELSE b
OnToggleMute(b) == IF b.kind = "in_call" THEN [b EXCEPT !.muted = ~@] ELSE b
OnDisconnected(b) == IF b.kind \in {"idle", "error"} THEN b ELSE Plain("ended")

\* Announcing everyone present; a human, whenever met, ends up as the label.
OnEveryone(b, roles) ==
  LET talking == roles \cap {"ai", "human"}
  IN  IF talking = {} THEN b ELSE OnPeerJoined(b, IF "human" \in talking THEN "human" ELSE "ai")

\* A component that is gone renders nothing more.
Dispatch(b) == button' = IF mounted THEN b ELSE button

InCall == button.kind \in {"waiting", "in_call"}

ButtonInit ==
  /\ button = Plain("idle") /\ current = NoRoom /\ leaving = {}
  /\ attempt = [a \in Attempts |-> "none"]
  /\ joined = {} /\ live = {} /\ peers = [a \in Attempts |-> {}]
  /\ mounted = TRUE /\ started = 0 /\ overlapped = FALSE /\ removed = FALSE

-----------------------------------------------------------------------------
\* start(): POST the call, join the room, switch the microphone on.

Busy == {a \in Attempts : attempt[a] \in {"post", "join", "mic", "aborted"}}

StartCall ==
  /\ mounted /\ button.kind # "connecting" /\ ~InCall /\ started < MaxAttempts
  /\ started' = started + 1
  /\ attempt' = [attempt EXCEPT ![started + 1] = "post"]
  /\ button' = OnClick(button)
  /\ overlapped' = (overlapped \/ leaving # {} \/ Busy # {})
  /\ UNCHANGED <<current, joined, live, peers, leaving, mounted, removed>>

\* The response: the room becomes the current one, whatever was.
Posted(a) ==
  /\ attempt[a] = "post"
  /\ attempt' = [attempt EXCEPT ![a] = "join"] /\ current' = a
  /\ UNCHANGED <<button, joined, live, peers, leaving, mounted, started, overlapped, removed>>

JoinedRoom(a) ==
  /\ attempt[a] = "join" /\ a \notin leaving
  /\ attempt' = [attempt EXCEPT ![a] = "mic"] /\ joined' = joined \cup {a}
  /\ UNCHANGED <<button, current, live, peers, leaving, mounted, started, overlapped, removed>>

\* connected, then everyone who is there already.
MicrophoneOn(a) ==
  /\ attempt[a] = "mic" /\ a \in joined
  /\ attempt' = [attempt EXCEPT ![a] = "over"] /\ live' = live \cup {a}
  /\ Dispatch(OnEveryone(OnConnected(button), peers[a]))
  /\ UNCHANGED <<current, joined, peers, leaving, mounted, started, overlapped, removed>>

\* Mutant: room.current is cleared before it is read.
LeaveNothing(b, gone) ==
  /\ current' = NoRoom /\ UNCHANGED leaving /\ Dispatch(OnDisconnected(b))

\* end(): leaves the current room; without one it dispatches at once.
Leave(b, gone) ==
  /\ current' = NoRoom
  /\ leaving' = (leaving \cup {current}) \ ({NoRoom} \cup gone)
  /\ Dispatch(IF current \in {NoRoom} \cup gone THEN OnDisconnected(b) ELSE b)

\* The catch block: error, and end(false).
Fail(a) ==
  /\ attempt' = [attempt EXCEPT ![a] = "over"]
  /\ Leave(Plain("error"), {})

\* The API refuses, the join fails, or the microphone is denied or its room gone.
StartFails(a) ==
  /\ a \in Busy /\ Fail(a)
  /\ UNCHANGED <<joined, live, peers, mounted, started, overlapped, removed>>

-----------------------------------------------------------------------------
\* The hang-up button.
HangUp ==
  /\ mounted /\ InCall /\ Leave(button, {})
  /\ UNCHANGED <<attempt, joined, live, peers, mounted, started, overlapped, removed>>

\* disconnect() is through: out of the room, Disconnected runs end(false) on the room
\* that is current now, then the waiting end() dispatches.  A join that was under way
\* fails in its own turn.
LeaveDone(a) ==
  /\ a \in leaving
  /\ joined' = joined \ {a} /\ live' = live \ {a} /\ peers' = [peers EXCEPT ![a] = {}]
  /\ Dispatch(OnDisconnected(button))
  /\ IF a \in joined
     THEN /\ current' = NoRoom
          /\ leaving' = (leaving \cup {current}) \ {a, NoRoom}
     ELSE leaving' = leaving \ {a} /\ UNCHANGED current
  /\ attempt' = [attempt EXCEPT ![a] = IF @ = "join" THEN "aborted" ELSE @]
  /\ UNCHANGED <<mounted, started, overlapped, removed>>

\* The room is deleted or the connection lost: end(false), on the current room too.
RoomGone(a) ==
  /\ a \in joined \ leaving
  /\ joined' = joined \ {a} /\ live' = live \ {a} /\ peers' = [peers EXCEPT ![a] = {}]
  /\ Leave(button, {a})
  /\ UNCHANGED <<attempt, mounted, started, overlapped, removed>>

\* A participant joins or sets its role.
PeerArrives(a, role) ==
  /\ a \in joined \ leaving /\ role \notin peers[a]
  /\ peers' = [peers EXCEPT ![a] = @ \cup {role}]
  /\ Dispatch(OnPeerJoined(button, role))
  /\ UNCHANGED <<current, attempt, joined, live, leaving, mounted, started, overlapped, removed>>

\* Ignored on purpose.
PeerLeaves(a, role) ==
  /\ role \in peers[a]
  /\ peers' = [peers EXCEPT ![a] = @ \ {role}]
  /\ UNCHANGED <<button, current, attempt, joined, live, leaving, mounted, started, overlapped, removed>>

\* The microphone of the current room follows the label.
ToggleMute ==
  /\ mounted /\ button.kind = "in_call"
  /\ button' = OnToggleMute(button)
  /\ live' = IF current \notin joined THEN live
             ELSE IF button.muted THEN live \cup {current} ELSE live \ {current}
  /\ UNCHANGED <<current, attempt, joined, peers, leaving, mounted, started, overlapped, removed>>

\* disconnectedCallback: the hook's cleanup leaves the room it has.
Unmount ==
  /\ mounted /\ mounted' = FALSE
  /\ current' = NoRoom /\ leaving' = (leaving \cup {current}) \ {NoRoom}
  /\ removed' = (Busy # {})
  /\ UNCHANGED <<button, attempt, joined, live, peers, started, overlapped>>

StartStep(a) == Posted(a) \/ JoinedRoom(a) \/ MicrophoneOn(a) \/ StartFails(a)

ButtonNext ==
  \/ \E a \in Attempts : StartStep(a) \/ LeaveDone(a) \/ RoomGone(a)
  \/ \E a \in Attempts, role \in Roles : PeerArrives(a, role) \/ PeerLeaves(a, role)
  \/ StartCall \/ HangUp \/ ToggleMute \/ Unmount

ButtonSpec == ButtonInit /\ [][ButtonNext]_buttonVars

-----------------------------------------------------------------------------
ButtonTypeOK ==
  /\ button \in [kind: {"idle", "connecting", "waiting", "in_call", "ended", "error"},
                 with: {"nobody", "ai", "human"}, muted: BOOLEAN]
  /\ current \in Attempts \cup {NoRoom} /\ leaving \subseteq Attempts
  /\ attempt \in [Attempts -> {"none", "post", "join", "aborted", "mic", "over"}]
  /\ live \subseteq joined /\ joined \subseteq Attempts
  /\ peers \in [Attempts -> SUBSET Roles]

\* Nobody listens in behind an idle button: an open microphone shows as a call, or its
\* room is being left; except after a call was started while an earlier one was still
\* being torn down (useCall.ts:71, end() acts on whatever room and state it finds), or
\* the element was removed while a call was being started (useCall.ts:172).
MicIsShown ==
  \A a \in live : (InCall /\ mounted) \/ a \in leaving \/ overlapped \/ removed
==============================================================================
