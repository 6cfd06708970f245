------------------------------- MODULE DeskAudio -------------------------------
(***************************************************************************)
(* What the people on a call hear and say while the customer is put on     *)
(* hold and retrieved: the hold state on its way from flow.ts to each      *)
(* desk (a websocket frame, and the call's detail fetched over HTTP), the  *)
(* effect of CallPanel.tsx that follows it, and the serialized setHeld and *)
(* toggleMute of useLiveRoom (apps/web/src/lib/hooks.ts).                  *)
(*                                                                         *)
(* The LiveKit room is external: a participant's tracks are subscribed     *)
(* when they appear, and microphone requests run one after the other.      *)
(* Left out: a microphone that fails, and the hold music.                  *)
(***************************************************************************)
EXTENDS Naturals, Sequences

CONSTANTS
  Desks,       \* the agents of the call
  Customer,    \* the caller, in the room throughout
  MaxHolds,    \* bound: holds and retrieves
  MaxToggles,  \* bound: clicks on Mute
  MaxJoins,    \* bound: times a panel is opened
  MaxOutages   \* bound: times a desk's websocket drops

ASSUME DeskAudioAssumption ==
  Customer \notin Desks /\ {MaxHolds, MaxToggles, MaxJoins, MaxOutages} \subseteq Nat

VARIABLES
  held,        \* the row: "yes" or "no"
  announcing,  \* handlers that have yet to announce the row they know
  told,        \* the hold state announced last
  desk,        \* what each desk knows, asks and does
  holds, toggles, joins, outages

audioVars == <<held, announcing, told, desk, holds, toggles, joins, outages>>
serverHold == <<held, announcing, told, holds>>

Hold == {"yes", "no"}
Known == Hold \cup {"unknown"}
Not(h) == IF h = "yes" THEN "no" ELSE "yes"

\* A desk: its socket and the frames on it (missed: one was lost, none came since);
\* DeskState.held; the fetched detail; the panel's room; what CallPanel applied last;
\* holdRef; the microphone requests under way; the outcome; and two histories, who came
\* since the tracks were last set, and whether a click on Mute met a setHeld under way.
DeskRecord ==
  [open: BOOLEAN, wire: Seq(Hold), missed: BOOLEAN, frame: Known, detail: Known,
   fetch: {"none", "asked"} \cup Hold, room: {"out", "joining", "in"}, seen: Known,
   desired: Hold, applied: Known, chain: Nat, applying: BOOLEAN,
   ops: Seq([on: BOOLEAN, by: {"hold", "toggle"}]), mic: BOOLEAN, muted: BOOLEAN,
   hears: SUBSET (Desks \cup {Customer}), late: SUBSET (Desks \cup {Customer}), raced: BOOLEAN]

AtDesk == [open |-> TRUE, wire |-> <<>>, missed |-> FALSE, frame |-> "unknown",
           detail |-> "unknown", fetch |-> "none", room |-> "out", seen |-> "unknown",
           desired |-> "no", applied |-> "unknown", chain |-> 0, applying |-> FALSE,
           ops |-> <<>>, mic |-> FALSE, muted |-> FALSE, hears |-> {}, late |-> {},
           raced |-> FALSE]

AudioInit ==
  /\ held = "no" /\ announcing = {} /\ told = "no"
  /\ desk = [d \in Desks |-> AtDesk]
  /\ holds = 0 /\ toggles = 0 /\ joins = 0 /\ outages = 0

InTheRoom == {d \in Desks : desk[d].room = "in"}

\* Everyone d could hear.
Around(d) == {Customer} \cup (InTheRoom \ {d})

\* heldAt of Desk.tsx: the frame is preferred to the fetched row.
Shown(d) == IF desk[d].frame # "unknown" THEN desk[d].frame ELSE desk[d].detail

\* The effects of the last render have run; they do before the next event is handled.
InStep(d) == d \notin InTheRoom \/ Shown(d) \in {"unknown", desk[d].seen}

-----------------------------------------------------------------------------
\* The server.

\* hold(), unhold(): by the button, a consultation, or an accepted transfer.
SetHeld ==
  /\ holds < MaxHolds /\ holds' = holds + 1
  /\ held' = Not(held) /\ announcing' = announcing \cup {[id |-> holds, says |-> Not(held)]}
  /\ UNCHANGED <<told, desk, toggles, joins, outages>>

\* updated(): every desk with an open socket gets the state this handler knows.
Tell(a) ==
  /\ announcing' = announcing \ {a} /\ told' = a.says
  /\ desk' = [d \in Desks |->
       IF desk[d].open THEN [desk[d] EXCEPT !.wire = Append(@, a.says)]
       ELSE [desk[d] EXCEPT !.missed = TRUE]]
  /\ UNCHANGED <<held, holds, toggles, joins, outages>>

-----------------------------------------------------------------------------
\* How a desk learns of it.

\* call.updated: the frame's state, and the detail is fetched again.
HearFrame(d) ==
  /\ desk[d].wire # <<>> /\ InStep(d)
  /\ desk' = [desk EXCEPT ![d] =
       [desk[d] EXCEPT !.wire = Tail(@), !.frame = Head(desk[d].wire), !.missed = FALSE,
                 !.fetch = IF desk[d].room = "out" THEN @ ELSE "asked"]]
  /\ UNCHANGED <<serverHold, toggles, joins, outages>>

ReadDetail(d) ==
  /\ desk[d].fetch = "asked" /\ desk' = [desk EXCEPT ![d].fetch = held]
  /\ UNCHANGED <<serverHold, toggles, joins, outages>>

ShowDetail(d) ==
  /\ desk[d].fetch \in Hold /\ InStep(d)
  /\ desk' = [desk EXCEPT ![d] = [desk[d] EXCEPT !.detail = desk[d].fetch, !.fetch = "none"]]
  /\ UNCHANGED <<serverHold, toggles, joins, outages>>

\* The socket drops with what is on it.
SocketDrops(d) ==
  /\ desk[d].open /\ outages < MaxOutages /\ outages' = outages + 1
  /\ desk' = [desk EXCEPT ![d] =
       [desk[d] EXCEPT !.open = FALSE, !.wire = <<>>, !.missed = @ \/ desk[d].wire # <<>>]]
  /\ UNCHANGED <<serverHold, toggles, joins>>

SocketReopens(d) ==
  /\ ~desk[d].open /\ desk' = [desk EXCEPT ![d].open = TRUE]
  /\ UNCHANGED <<serverHold, toggles, joins, outages>>

-----------------------------------------------------------------------------
\* The room of the panel.

\* The call is accepted or taken over: the panel opens, the detail is fetched.
OpenPanel(d) ==
  /\ desk[d].room = "out" /\ joins < MaxJoins /\ joins' = joins + 1
  /\ desk' = [desk EXCEPT ![d] = [desk[d] EXCEPT !.room = "joining", !.fetch = "asked",
                                           !.seen = "unknown"]]
  /\ UNCHANGED <<serverHold, toggles, outages>>

\* Mutant: the reference of the last room is kept.
JoinedUnreset(d, me) == [me EXCEPT !.room = "in", !.mic = TRUE, !.muted = FALSE,
                                   !.hears = Around(d), !.late = {}, !.raced = FALSE]

\* connect, microphone on, connected; with a fresh holdRef.
Joined(d, me) == [me EXCEPT !.room = "in", !.mic = TRUE, !.muted = FALSE, !.hears = Around(d),
                            !.late = {}, !.raced = FALSE, !.desired = "no", !.applied = "unknown"]

\* The others subscribe to the newcomer's tracks.
JoinRoom(d) ==
  /\ desk[d].room = "joining"
  /\ desk' = [e \in Desks |->
       IF e = d THEN Joined(d, desk[d])
       ELSE IF e \in InTheRoom
            THEN [desk[e] EXCEPT !.hears = @ \cup {d}, !.late = @ \cup {d}]
            ELSE desk[e]]
  /\ UNCHANGED <<serverHold, toggles, joins, outages>>

\* The customer's connection is renewed: the tracks are published, and subscribed, afresh.
CustomerRejoins(d) ==
  /\ d \in InTheRoom /\ Customer \notin desk[d].hears
  /\ desk' = [desk EXCEPT ![d].hears = @ \cup {Customer}, ![d].late = @ \cup {Customer}]
  /\ UNCHANGED <<serverHold, toggles, joins, outages>>

\* Hang up, the room is gone, or the customer left: the panel closes.
ClosePanel(d) ==
  /\ d \in InTheRoom
  /\ desk' = [e \in Desks |->
       IF e = d
       THEN [desk[d] EXCEPT !.room = "out", !.seen = "unknown", !.chain = 0, !.applying = FALSE,
                            !.ops = <<>>, !.mic = FALSE, !.muted = FALSE, !.hears = {},
                            !.late = {}]
       ELSE [desk[e] EXCEPT !.hears = @ \ {d}, !.late = @ \ {d}]]
  /\ UNCHANGED <<serverHold, toggles, joins, outages>>

-----------------------------------------------------------------------------
\* The microphone.

\* The effect of CallPanel: a known state that was not applied yet.
FollowHold(d) ==
  /\ ~InStep(d)
  /\ desk' = [desk EXCEPT ![d] = [desk[d] EXCEPT !.seen = Shown(d), !.desired = Shown(d),
                                           !.chain = @ + 1]]
  /\ UNCHANGED <<serverHold, toggles, joins, outages>>

\* setHeld, apply(): the latest wish; the tracks at once, then the microphone.
Apply(d) ==
  /\ desk[d].chain > 0 /\ ~desk[d].applying
  /\ LET want == desk[d].desired
     IN  desk' = [desk EXCEPT ![d] =
           IF want = desk[d].applied THEN [desk[d] EXCEPT !.chain = @ - 1]
           ELSE [desk[d] EXCEPT !.applied = want, !.applying = TRUE, !.muted = (want = "yes"),
                          !.hears = IF want = "yes" THEN {} ELSE Around(d), !.late = {},
                          !.raced = \E i \in DOMAIN desk[d].ops : desk[d].ops[i].by = "toggle",
                          !.ops = Append(@, [on |-> want = "no", by |-> "hold"])]]
  /\ UNCHANGED <<serverHold, toggles, joins, outages>>

\* The Mute button, disabled while the customer is held.
ToggleMic(d) ==
  /\ d \in InTheRoom /\ InStep(d) /\ Shown(d) # "yes"
  /\ toggles < MaxToggles /\ toggles' = toggles + 1
  /\ desk' = [desk EXCEPT ![d] =
       [desk[d] EXCEPT !.ops = Append(@, [on |-> desk[d].muted, by |-> "toggle"]),
                 !.raced = @ \/ desk[d].chain > 0]]
  /\ UNCHANGED <<serverHold, joins, outages>>

\* A microphone request is done; toggleMute then sets the label.
MicDone(d) ==
  /\ desk[d].ops # <<>>
  /\ LET op == Head(desk[d].ops)
     IN  desk' = [desk EXCEPT ![d] =
           IF op.by = "hold"
           THEN [desk[d] EXCEPT !.mic = op.on, !.ops = Tail(@), !.chain = @ - 1, !.applying = FALSE]
           ELSE [desk[d] EXCEPT !.mic = op.on, !.ops = Tail(@), !.muted = ~op.on]]
  /\ UNCHANGED <<serverHold, toggles, joins, outages>>

AudioNext ==
  \/ SetHeld
  \/ \E a \in announcing : Tell(a)
  \/ \E d \in Desks :
       \/ HearFrame(d) \/ ReadDetail(d) \/ ShowDetail(d) \/ SocketDrops(d) \/ SocketReopens(d)
       \/ OpenPanel(d) \/ JoinRoom(d) \/ CustomerRejoins(d) \/ ClosePanel(d)
       \/ FollowHold(d) \/ Apply(d) \/ ToggleMic(d) \/ MicDone(d)

AudioSpec == AudioInit /\ [][AudioNext]_audioVars

-----------------------------------------------------------------------------
AudioTypeOK ==
  /\ held \in Hold /\ told \in Hold /\ announcing \subseteq [id: 0..MaxHolds, says: Hold]
  /\ desk \in [Desks -> DeskRecord]

\* A desk in the room has nothing left to hear, fetch or apply.
AtEase(d) ==
  /\ d \in InTheRoom /\ desk[d].open /\ desk[d].wire = <<>> /\ desk[d].fetch = "none"
  /\ desk[d].seen = Shown(d) /\ desk[d].chain = 0 /\ desk[d].ops = <<>>

AllTold == announcing = {} /\ told = held

\* Once a desk is settled, its audio follows the customer's hold, through quick holds and
\* retrieves, clicks on Mute in between, panels opened and closed, and whichever of frame
\* and detail comes first: while the customer is held the microphone is off and none of
\* the participants who were there is heard; afterwards everyone is heard and the Mute
\* button tells the truth.  Known exceptions: a frame lost with the socket (the stale one
\* is preferred to every detail, Desk.tsx:85), handlers that announce in the wrong order
\* (flow.ts:417), who joins or rejoins while the customer is held (hooks.ts:190), and a
\* click on Mute that is under way together with a setHeld (hooks.ts:168, 187).
AudioFollowsHold ==
  AllTold => \A d \in Desks : AtEase(d) /\ ~desk[d].missed =>
    IF held = "yes" THEN (desk[d].raced \/ ~desk[d].mic) /\ desk[d].hears \subseteq desk[d].late
    ELSE desk[d].hears = Around(d) /\ (desk[d].raced \/ (desk[d].mic <=> ~desk[d].muted))

==============================================================================
