------------------------------- MODULE DeskOffers -------------------------------
(***************************************************************************)
(* The ring dialog of one agent's desk: the reducer (apps/web/src/lib/     *)
(* store.ts), the websocket hook (hooks.ts, useDeskSocket), and the        *)
(* buttons of Desk.tsx and StateBar.tsx.  The server side is what the desk *)
(* meets of routing.ts and flow.ts: a frame is sent some time after the    *)
(* transaction that causes it, to a socket that may have closed.           *)
(*                                                                         *)
(* Left out: what an offer says; the countdown, which only displays; ring  *)
(* tones.  Auto-answer is a click nobody makes.                            *)
(***************************************************************************)
EXTENDS Naturals, Sequences, SequencesExt

CONSTANTS
  Offered,    \* calls that may ring this agent
  NoCall,     \* null
  MaxRings,   \* bound: rings of this agent
  MaxClicks,  \* bound: clicks on Accept
  MaxDrops,   \* bound: times the socket drops
  MaxFrames   \* bound: frames on their way when the server causes another

ASSUME DeskOffersAssumption ==
  NoCall \notin Offered /\ MaxRings \in Nat /\ MaxClicks \in Nat
  /\ MaxDrops \in Nat /\ MaxFrames \in Nat

VARIABLES
  ring,      \* the call whose offer row names this agent
  agent,     \* the agent's row: "offline" without one
  over,      \* calls that have ended
  unsent,    \* frames for this desk that a handler has yet to publish
  link,      \* the socket: up, down (it reconnects), or out for good
  wire,      \* frames on the socket
  offer,     \* DeskState.offer
  active,    \* the call whose panel is open
  accepts,   \* POST /accept requests in flight: the call, the answer, and whether another
             \* offer was shown meanwhile
  pending,   \* socket messages (declines) queued while the socket is down
  uplink,    \* socket messages on their way to the server
  hungUp,    \* POST /leave requests in flight
  blind,     \* history: the dialog was cut off from the ring it shows, until the next offer
  overtaken, \* history: a frame, or an acceptance, overtook an older frame for this desk
  rings, clicks, drops

deskVars == <<ring, agent, over, unsent, link, wire, offer, active, accepts, pending, uplink,
              hungUp, blind, overtaken, rings, clicks, drops>>

serverVars == <<ring, agent, over, unsent>>
linkVars == <<link, wire, pending, uplink>>
bounds == <<rings, clicks, drops>>

\* Few enough frames are on their way for one more event.
RoomForMore == Len(unsent) + Len(wire) < MaxFrames

Frame(kind, c) == [kind |-> kind, call |-> c]

\* The frame to the agent whose ring is cancelled, if it is this one.
Cancelling(c) == IF c = NoCall THEN <<>> ELSE <<Frame("call.offer.cancelled", c)>>

DeskFrames == [kind: {"call.offer", "call.offer.cancelled", "ended", "logout"}, call: Offered \cup {NoCall}]

DeskInit ==
  /\ ring = NoCall /\ agent = "not_ready" /\ over = {} /\ unsent = <<>>
  /\ link = "up" /\ wire = <<>> /\ pending = <<>> /\ uplink = <<>>
  /\ offer = NoCall /\ active = NoCall /\ accepts = {} /\ hungUp = {}
  /\ blind = FALSE /\ overtaken = FALSE
  /\ rings = 0 /\ clicks = 0 /\ drops = 0

-----------------------------------------------------------------------------
\* The reducer.

\* Mutant: a call that ends closes whatever dialog is open.
AppliedAny(o, f) ==
  CASE f.kind = "call.offer" -> f.call
    [] f.kind = "call.offer.cancelled" -> IF o = f.call THEN NoCall ELSE o
    [] f.kind = "ended" -> NoCall
    [] f.kind = "logout" -> NoCall

\* applyServer, for the offer: only the end or the cancellation of that very call.
Applied(o, f) ==
  CASE f.kind = "call.offer" -> f.call
    [] f.kind \in {"call.offer.cancelled", "ended"} -> IF o = f.call THEN NoCall ELSE o
    [] f.kind = "logout" -> NoCall

\* onmessage: after `logout` the socket is not opened again.
Receive ==
  /\ link = "up" /\ wire # <<>>
  /\ wire' = Tail(wire) /\ offer' = Applied(offer, Head(wire))
  /\ blind' = (blind /\ Head(wire).kind # "call.offer")
  /\ accepts' = IF Head(wire).kind = "call.offer" THEN {[a EXCEPT !.behind = TRUE] : a \in accepts}
                ELSE accepts
  /\ link' = IF Head(wire).kind = "logout" THEN "out" ELSE link
  /\ UNCHANGED <<serverVars, active, pending, uplink, hungUp, overtaken, bounds>>

-----------------------------------------------------------------------------
\* The server.

\* advance(): the agent is the next to be rung.
Ring(c) ==
  /\ ring = NoCall /\ agent = "ready" /\ c \notin over /\ rings < MaxRings /\ RoomForMore
  /\ ring' = c /\ rings' = rings + 1
  /\ unsent' = Append(unsent, Frame("call.offer", c))
  /\ UNCHANGED <<agent, over, linkVars, offer, active, accepts, hungUp, blind, overtaken, clicks, drops>>

\* The ring time is over: on to the next, and the agent is parked.
RingTimesOut ==
  /\ RoomForMore /\ ring # NoCall /\ ring' = NoCall
  /\ unsent' = unsent \o Cancelling(ring)
  /\ agent' = IF agent = "ready" THEN "not_ready" ELSE agent
  /\ UNCHANGED <<over, linkVars, offer, active, accepts, hungUp, blind, overtaken, bounds>>

\* Flow.end: the status goes to every desk of the tenant, the ring stops.
EndCall(c, left) ==
  /\ over' = over \cup {c} /\ hungUp' = left
  /\ ring' = IF ring = c THEN NoCall ELSE ring
  /\ unsent' = unsent \o <<Frame("ended", c)>> \o (IF ring = c THEN Cancelling(c) ELSE <<>>)
  /\ agent' = IF agent = "busy" /\ active \in {c, NoCall} THEN "acw" ELSE agent

CallEnds(c) ==
  /\ RoomForMore /\ c \notin over /\ EndCall(c, hungUp)
  /\ UNCHANGED <<linkVars, offer, active, accepts, blind, overtaken, bounds>>

\* A frame reaches the socket, or nobody.
Send(i) ==
  /\ i \in 1..Len(unsent) /\ unsent' = RemoveAt(unsent, i)
  /\ wire' = IF link = "up" THEN Append(wire, unsent[i]) ELSE wire
  /\ overtaken' = (overtaken \/ i > 1)
  /\ UNCHANGED <<ring, agent, over, link, offer, active, accepts, pending, uplink, hungUp, blind, bounds>>

\* accept(): the row is the gate.  It may be a later ring of the call than the one shown.
Answer(a) ==
  /\ a.answer = "sent"
  /\ IF ring = a.call
     THEN /\ ring' = NoCall /\ agent' = "busy"
          /\ overtaken' = (overtaken \/ Frame("call.offer", ring) \in Range(wire \o unsent))
          /\ accepts' = (accepts \ {a}) \cup {[a EXCEPT !.answer = "ok"]}
     ELSE /\ accepts' = (accepts \ {a}) \cup {[a EXCEPT !.answer = "refused"]}
          /\ UNCHANGED <<ring, agent, overtaken>>
  /\ UNCHANGED <<over, unsent, linkVars, offer, active, hungUp, blind, bounds>>

\* decline(): ignored unless the call rings this agent.
HearDecline ==
  /\ link = "up" /\ uplink # <<>> /\ uplink' = Tail(uplink)
  /\ IF ring = Head(uplink)
     THEN ring' = NoCall /\ unsent' = unsent \o Cancelling(ring)
     ELSE UNCHANGED <<ring, unsent>>
  /\ UNCHANGED <<agent, over, link, wire, pending, offer, active, accepts, hungUp, blind, overtaken, bounds>>

\* Flow.leave of the last human.
HearLeave(c) ==
  /\ c \in hungUp /\ EndCall(c, hungUp \ {c})
  /\ UNCHANGED <<linkVars, offer, active, accepts, blind, overtaken, bounds>>

\* A supervisor logs the agent out: the frame, and the agent goes.
ForceOut ==
  /\ link = "up" /\ agent # "offline" /\ agent' = "offline" /\ ring' = NoCall
  /\ wire' = Append(wire, Frame("logout", NoCall)) /\ unsent' = unsent \o Cancelling(ring)
  /\ UNCHANGED <<over, link, pending, uplink, offer, active, accepts, hungUp, blind, overtaken, bounds>>

-----------------------------------------------------------------------------
\* The socket.

\* It drops: what was on it is lost, the agent goes and the ring moves on; the
\* dialog stays.
LoseSocket ==
  /\ link = "up" /\ drops < MaxDrops /\ drops' = drops + 1
  /\ link' = "down" /\ wire' = <<>> /\ uplink' = <<>>
  /\ agent' = "offline" /\ ring' = NoCall
  /\ blind' = (blind \/ offer # NoCall) /\ unsent' = unsent \o Cancelling(ring)
  /\ UNCHANGED <<over, offer, active, accepts, pending, hungUp, overtaken, rings, clicks>>

\* onopen, after the timeout: what was queued is flushed; agent starts afresh.
Reconnect ==
  /\ link = "down" /\ link' = "up" /\ agent' = "not_ready"
  /\ uplink' = pending /\ pending' = <<>>
  /\ UNCHANGED <<ring, over, unsent, wire, offer, active, accepts, hungUp, blind, overtaken, bounds>>

-----------------------------------------------------------------------------
\* The agent.  The dialog is open while there is an offer and no panel.

DialogOpen == offer # NoCall /\ active = NoCall

\* StateBar: the buttons are disabled while busy; POST /state is answered at once here.
SetReady ==
  /\ link = "up" /\ agent \in {"not_ready", "acw"} /\ agent' = "ready"
  /\ UNCHANGED <<ring, over, unsent, linkVars, offer, active, accepts, hungUp, blind, overtaken, bounds>>

\* Accept, by a click or the zip-tone timer.
Accept ==
  /\ DialogOpen /\ clicks < MaxClicks /\ clicks' = clicks + 1
  /\ accepts' = accepts \cup {[id |-> clicks, call |-> offer, answer |-> "sent",
                               behind |-> FALSE]}
  /\ UNCHANGED <<serverVars, linkVars, offer, active, hungUp, blind, overtaken, rings, drops>>

\* The response: either way the dialog is cleared, whatever it shows by now.
Accepted(a) ==
  /\ a.answer # "sent" /\ accepts' = accepts \ {a}
  /\ active' = IF a.answer = "ok" THEN a.call ELSE active
  /\ offer' = NoCall
  /\ blind' = (blind \/ a.behind)
  /\ UNCHANGED <<serverVars, linkVars, hungUp, overtaken, bounds>>

\* Decline: the message is sent, or queued while the socket is down.
Decline ==
  /\ DialogOpen /\ offer' = NoCall
  /\ IF link = "up" THEN uplink' = Append(uplink, offer) /\ UNCHANGED pending
     ELSE pending' = Append(pending, offer) /\ UNCHANGED uplink
  /\ UNCHANGED <<serverVars, link, wire, active, accepts, hungUp, blind, overtaken, bounds>>

\* Hang up, or the room is gone: the panel first, then POST /leave.
HangUpPanel ==
  /\ active # NoCall /\ active' = NoCall
  /\ hungUp' = IF active \in over THEN hungUp ELSE hungUp \cup {active}
  /\ UNCHANGED <<serverVars, linkVars, offer, accepts, blind, overtaken, bounds>>

DeskNext ==
  \/ \E c \in Offered : Ring(c) \/ CallEnds(c) \/ HearLeave(c)
  \/ \E i \in 1..Len(unsent) : Send(i)
  \/ \E a \in accepts : Answer(a) \/ Accepted(a)
  \/ Receive \/ RingTimesOut \/ HearDecline \/ ForceOut \/ LoseSocket \/ Reconnect
  \/ SetReady \/ Accept \/ Decline \/ HangUpPanel

DeskSpec == DeskInit /\ [][DeskNext]_deskVars

-----------------------------------------------------------------------------
DeskTypeOK ==
  /\ ring \in Offered \cup {NoCall} /\ offer \in Offered \cup {NoCall}
  /\ active \in Offered \cup {NoCall} /\ link \in {"up", "down", "out"}
  /\ agent \in {"offline", "not_ready", "ready", "busy", "acw"}
  /\ wire \in Seq(DeskFrames) /\ unsent \in Seq(DeskFrames)
  /\ accepts \subseteq [id: 0..MaxClicks, call: Offered, answer: {"sent", "ok", "refused"},
                       behind: BOOLEAN]

\* Nothing is on its way between the desk and the server.
AllHeard == link = "up" /\ wire = <<>> /\ unsent = <<>> /\ uplink = <<>> /\ accepts = {}

\* The dialog shows the call that rings this agent, and nothing else: whatever is
\* accepted, declined, cancelled or ended meanwhile, once all is heard the two agree.
\* Known exceptions, until the next offer: the socket dropped while the dialog was open
\* (store.ts:109, it stays, and its cancellation is lost), or the answer to an older
\* acceptance cleared it (Desk.tsx:124 and 130); and frames that overtook one another
\* (routing.ts:542).
DialogShowsRing == AllHeard /\ ~blind /\ ~overtaken => offer = ring
==============================================================================
