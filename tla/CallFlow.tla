------------------------------- MODULE CallFlow -------------------------------
(***************************************************************************)
(* One call, from its creation to its end: the Flow of the API             *)
(* (apps/api/src/flow.ts) with the routes that start its methods and the   *)
(* AI job that talks to the caller until a human joins.                    *)
(*                                                                         *)
(* A handler in flight is the list of the statements it still has to run   *)
(* (`todo`); an action runs the first one, with the code up to the next    *)
(* await, and handlers interleave between statements.  A statement that    *)
(* decides (a guard, a count) replaces the rest of the list.               *)
(*                                                                         *)
(* The ring cycle is the one RingCycle promises and Routing implements: it *)
(* may try any member of the cycle that is not on a call, and may close    *)
(* whenever the others are away.  Presence is reduced to the agent's work  *)
(* on this call.  The bus delivers in order and late, as PgBus does.       *)
(*                                                                         *)
(* Left out: the timeline events, and the silent monitors (listen,         *)
(* whisper, barge), whose rows change neither status nor presence.         *)
(***************************************************************************)
EXTENDS Naturals, Sequences, SequencesExt

CONSTANTS
  Agents,      \* desk users of the queue
  Handlers,    \* slots for handlers in flight
  Ops,         \* bound: the operations the environment invokes in a run
  MaxBus,      \* bound: messages on the bus
  MaxRequests, \* bound: requests in a run, acceptances aside
  Wraps,       \* whether the tenant has a wrap-up time (acwSec > 0)
  None         \* SQL null for agents

ASSUME CallFlowAssumption == None \notin Agents /\ MaxBus \in Nat \ {0}
                              /\ MaxRequests \in Nat /\ Wraps \in BOOLEAN

VARIABLES
  call,      \* the call row: status, held (heldAt), endedAt
  humans,    \* open call_participant rows of kind human
  work,      \* per agent: free, busy on the call, or in wrap-up for it
  ring,      \* the ring_offer row
  ai,        \* the AI job: "none", "talking", "handed" (a human joined)
  fallbacks, \* how often the fallback job was dispatched (bound: 2)
  music,     \* hold music, as the media worker was last told
  poll,      \* the AI's escalate request: "idle", "open", or its outcome
  waiter,    \* is a resolver registered for the call?
  bus,       \* outcomes under way to the process that holds the request
  todo,      \* per slot: the statements still to run
  requests   \* how many requests came in

vars == <<call, humans, work, ring, ai, fallbacks, music, poll, waiter, bus, todo, requests>>

Quiet == [open |-> FALSE, agent |-> None, members |-> {},
          retrieve |-> FALSE, fallback |-> FALSE]

-----------------------------------------------------------------------------
\* Statements, and the methods of Flow as lists of them.

\* What a statement carries along: a status, an outcome, on or off, the kind of ring.
Words == {"", "ai", "waiting_human", "human", "ended", "accepted", "nobody", "on", "off",
          "plain", "retrieve", "fallback"}

Stmt == [op: {"live", "ask", "mark", "count", "freeRead", "freeWrite", "drop", "freeAll",
              "over", "status", "publish", "hold", "setHeld", "music", "unhold", "offer",
              "wait", "busy", "enter", "intercept", "dropOther", "dispatch"},
         who: Agents \cup {None}, what: Words, members: SUBSET Agents]

Do(op) == [op |-> op, who |-> None, what |-> "", members |-> {}]
For(op, a) == [Do(op) EXCEPT !.who = a]
As(op, s) == [Do(op) EXCEPT !.what = s]
Human(a) == [As("status", "human") EXCEPT !.who = a]

HoldOn == <<As("setHeld", "on"), As("music", "on")>>

\* Mutant: the row says retrieved, the media worker is not told.
HoldOffSilent == <<As("setHeld", "off")>>

HoldOff == <<As("setHeld", "off"), As("music", "off")>>

FreeUser(a) == <<For("freeRead", a)>>

\* Mutant: release() frees the agents and leaves the ring alone.
ReleaseRinging == <<Do("freeAll")>>

Release == <<Do("drop"), Do("freeAll")>>

\* Mutant: end() forgets the pending escalation.
EndSilent == <<Do("over"), As("status", "ended")>> \o Release

\* end(): the status first, then the ring and the agents, then the escalation.
End == <<Do("over"), As("status", "ended")>> \o Release \o <<As("publish", "nobody")>>

Offer(members, kind) == <<[As("offer", kind) EXCEPT !.members = members]>>

\* Mutant: the leaver counts before the own row is closed.
LeaveCountsFirst(a) == <<For("count", a), For("mark", a)>>

Leave(a) == <<For("mark", a), For("count", a)>>

\* join() as the accepting agent: accept() has made the agent busy already.
Join(a) == <<Do("live"), For("enter", a), Human(a)>>

TakeOver(a) == <<Do("live"), For("enter", a), For("busy", a), Human(a)>>

Intercept(a) == <<Do("live"), For("intercept", a), For("enter", a), For("busy", a),
                  Human(a)>>

\* accept() after its DELETE, up to the acceptor taking the customer off hold.
Accepted(a, retrieve) ==
  <<For("busy", a), As("publish", "accepted")>> \o Join(a)
    \o (IF retrieve THEN <<Do("unhold")>> ELSE <<>>)

\* Mutant: a call that nobody took stays where it is.
NobodyStays(fallback) ==
  (IF fallback THEN <<Do("dispatch")>> ELSE <<>>) \o <<As("publish", "nobody")>>

Nobody(fallback) ==
  (IF fallback THEN <<Do("dispatch")>> ELSE <<>>)
    \o <<As("status", "ai"), As("publish", "nobody")>>

\* Mutant: transfer() without its guard.
TransferUnguarded(a, members) ==
  <<For("mark", a)>> \o FreeUser(a) \o <<Do("hold"), As("status", "waiting_human")>>
    \o Offer(members, "retrieve")

\* Mutant: transfer() rings, and leaves the call in status human.
TransferStaysHuman(a, members) ==
  <<Do("live"), For("mark", a)>> \o FreeUser(a) \o <<Do("hold")>> \o Offer(members, "retrieve")

Transfer(a, members) ==
  <<Do("live"), For("mark", a)>> \o FreeUser(a) \o <<Do("hold"), As("status", "waiting_human")>>
    \o Offer(members, "retrieve")

Consult(a, b) == <<Do("live"), Do("hold")>> \o Offer({b}, "plain")

HandOver(a) == <<Do("live"), Do("unhold"), For("mark", a)>> \o FreeUser(a)
Conference == <<Do("live"), Do("unhold")>>
DropConsultant(a) == <<Do("live"), For("dropOther", a)>>

-----------------------------------------------------------------------------
\* Requests.

Available(w) == todo[w] = <<>>

Run(w, prog) ==
  /\ todo' = [todo EXCEPT ![w] = prog]
  /\ UNCHANGED requests

Begin(w, prog) ==
  /\ requests < MaxRequests
  /\ requests' = requests + 1
  /\ todo' = [todo EXCEPT ![w] = prog]

\* A desk joins or leaves in one request at a time.
Pending(a) ==
  \E w \in Handlers : \E i \in DOMAIN todo[w] :
    todo[w][i].who = a /\ todo[w][i].op \in {"enter", "mark", "count", "status"}

\* POST /calls: the AI comes with the customer's token, or the desks ring first.
Create(w, aiFirst) ==
  /\ Available(w) /\ call.status = "ringing"
  /\ call' = [call EXCEPT !.status = IF aiFirst THEN "ai" ELSE "waiting_human"]
  /\ ai' = IF aiFirst THEN "talking" ELSE ai
  /\ Begin(w, IF aiFirst THEN <<>> ELSE Offer(Agents, "fallback"))
  /\ UNCHANGED <<humans, work, ring, fallbacks, music, poll, waiter, bus>>

\* The AI's tool call: one request at a time, until a human joined.
Escalate(w) ==
  /\ "escalate" \in Ops
  /\ Available(w) /\ ai = "talking" /\ poll = "idle"
  /\ poll' = "open"
  /\ Begin(w, <<Do("ask")>>)
  /\ UNCHANGED <<call, humans, work, ring, ai, fallbacks, music, waiter, bus>>

\* The caller hung up, or the AI said goodbye: the job reports the end.
AIEnds(w) ==
  /\ "aiEnds" \in Ops
  /\ Available(w) /\ ai # "none"
  /\ ai' = "none"
  /\ Begin(w, End)
  /\ UNCHANGED <<call, humans, work, ring, fallbacks, music, poll, waiter, bus>>

Accept(w, a) ==
  /\ Available(w) /\ ring.open /\ ring.agent = a /\ ~Pending(a)
  /\ ring' = Quiet
  /\ Run(w, Accepted(a, ring.retrieve))
  /\ UNCHANGED <<call, humans, work, ai, fallbacks, music, poll, waiter, bus>>

\* What a desk asks for; `rest` is the method, run without further conditions here.
Request(w, rest) ==
  /\ Available(w)
  /\ Begin(w, rest)
  /\ UNCHANGED <<call, humans, work, ring, ai, fallbacks, music, poll, waiter, bus>>

\* The routes for a desk in the call.  hold and retrieve look at the call before the
\* method does; the others pass on what the body says.
LeaveRoute(w, a) == "leave" \in Ops /\ Request(w, Leave(a))

HoldRoute(w) ==
  "hold" \in Ops /\ call.status # "ended" /\ ~call.held /\ Request(w, <<Do("hold")>>)

RetrieveRoute(w) == "hold" \in Ops /\ call.held /\ Request(w, <<Do("unhold")>>)

TransferRoute(w, a, members) == "transfer" \in Ops /\ Request(w, Transfer(a, members))

ConsultRoute(w, a, b) == "consult" \in Ops /\ Request(w, Consult(a, b))

CompleteRoute(w, a) ==
  /\ "complete" \in Ops
  /\ \/ Request(w, HandOver(a))
     \/ Request(w, Conference)
     \/ Request(w, DropConsultant(a))

\* What the panel offers: transfer to a queue or to a colleague, and consult one; with a
\* second human on the call, completing the consultation.  The panel's list of humans may
\* be an old one, so that a transfer is possible with a consultant as well.
TransferConsult(w, a) ==
  \/ \E target \in {Agents \ {a}} \cup {{b} : b \in Agents \ {a}} : TransferRoute(w, a, target)
  \/ \E b \in Agents \ humans : ConsultRoute(w, a, b)
  \/ humans # {a} /\ CompleteRoute(w, a)

\* A desk in the call, one request at a time.
Desk(w, a) ==
  /\ a \in humans /\ ~Pending(a)
  /\ LeaveRoute(w, a) \/ HoldRoute(w) \/ RetrieveRoute(w) \/ TransferConsult(w, a)

\* Desks learn of a call when Create announces it.
Supervise(w, a) ==
  /\ call.status # "ringing" /\ a \notin humans /\ work[a] # "busy" /\ ~Pending(a)
  /\ \/ "takeover" \in Ops /\ Request(w, TakeOver(a))
     \/ "intercept" \in Ops /\ Request(w, Intercept(a))

-----------------------------------------------------------------------------
\* The ring cycle.

RingAgent(a) ==
  /\ ring.open /\ a \in ring.members \ {ring.agent} /\ work[a] = "free"
  /\ ring' = [ring EXCEPT !.agent = a]
  /\ UNCHANGED <<call, humans, work, ai, fallbacks, music, poll, waiter, bus, todo, requests>>

\* Nobody is left: the row goes, and whoever deleted it reports (onNobody).
RingCloses(w) ==
  /\ Available(w) /\ ring.open
  /\ ring' = Quiet
  /\ Run(w, Nobody(ring.fallback))
  /\ UNCHANGED <<call, humans, work, ai, fallbacks, music, poll, waiter, bus>>

-----------------------------------------------------------------------------
\* Statements.

Op(w, op) == todo[w] # <<>> /\ Head(todo[w]).op = op
Now(w) == Head(todo[w])
Rest(w) == Tail(todo[w])
Goon(w) == Run(w, Rest(w))

\* Guards: getCall(), and what its status and hold decide.
Ask(w) ==
  /\ Op(w, "ask")
  /\ IF call.status = "ended"
       THEN poll' = "nobody" /\ Goon(w)
       ELSE /\ Run(w, <<As("status", "waiting_human"), Do("wait")>> \o Offer(Agents, "plain"))
            /\ UNCHANGED poll
  /\ UNCHANGED <<call, humans, work, ring, ai, fallbacks, music, waiter, bus>>

Decide(w) ==
  /\ \/ Op(w, "live") /\ Run(w, IF call.status = "ended" THEN <<>> ELSE Rest(w))
     \/ Op(w, "over") /\ Run(w, IF call.status = "ended" THEN <<>> ELSE Rest(w))
     \/ Op(w, "count") /\ Run(w, IF humans \ {Now(w).who} # {}
                                   THEN FreeUser(Now(w).who) \o Rest(w)
                                   ELSE Release \o End \o Rest(w))
     \/ Op(w, "freeRead") /\ Run(w, IF work[Now(w).who] = "busy"
                                        THEN <<For("freeWrite", Now(w).who)>> \o Rest(w)
                                        ELSE Rest(w))
     \/ Op(w, "hold") /\ Run(w, (IF call.held \/ call.status = "ended" THEN <<>> ELSE HoldOn)
                                  \o Rest(w))
     \/ Op(w, "unhold") /\ Run(w, (IF call.held THEN HoldOff ELSE <<>>) \o Rest(w))
  /\ UNCHANGED <<call, humans, work, ring, ai, fallbacks, music, poll, waiter, bus>>

\* setCallStatus(): an unconditional write; "ended" stamps endedAt.
WriteStatus(w) ==
  /\ Op(w, "status")
  /\ call' = [call EXCEPT !.status = Now(w).what, !.endedAt = @ \/ Now(w).what = "ended"]
  /\ Goon(w)
  /\ UNCHANGED <<humans, work, ring, ai, fallbacks, music, poll, waiter, bus>>

WriteHeld(w) ==
  /\ Op(w, "setHeld")
  /\ call' = [call EXCEPT !.held = Now(w).what = "on"]
  /\ Goon(w)
  /\ UNCHANGED <<humans, work, ring, ai, fallbacks, music, poll, waiter, bus>>

TellMedia(w) ==
  /\ Op(w, "music")
  /\ music' = (Now(w).what = "on")
  /\ Goon(w)
  /\ UNCHANGED <<call, humans, work, ring, ai, fallbacks, poll, waiter, bus>>

\* Participant rows.
Seat(w) ==
  /\ \/ Op(w, "mark") /\ humans' = humans \ {Now(w).who} /\ Goon(w)
     \/ Op(w, "enter") /\ humans' = humans \cup {Now(w).who} /\ Goon(w)
     \/ /\ Op(w, "intercept")
        /\ IF humans \ {Now(w).who} = {}
             THEN UNCHANGED humans /\ Goon(w)
             ELSE \E b \in humans \ {Now(w).who} :
                    humans' = humans \ {b} /\ Run(w, FreeUser(b) \o Rest(w))
     \/ /\ Op(w, "dropOther")
        /\ IF humans \ {Now(w).who} = {}
             THEN UNCHANGED humans /\ Goon(w)
             ELSE \E b \in humans \ {Now(w).who} :
                    humans' = humans \ {b} /\ Run(w, FreeUser(b))
  /\ UNCHANGED <<call, work, ring, ai, fallbacks, music, poll, waiter, bus>>

Freed == IF Wraps THEN "acw" ELSE "free"

\* Mutant: release() frees the agents in wrap-up but not the busy ones.
FreeWrapped(w) ==
  /\ \/ Op(w, "busy") /\ work' = [work EXCEPT ![Now(w).who] = "busy"]
     \/ Op(w, "freeWrite") /\ work' = [work EXCEPT ![Now(w).who] = Freed]
     \/ Op(w, "freeAll") /\ work' = [a \in Agents |-> IF work[a] = "acw" THEN Freed ELSE work[a]]
  /\ Goon(w)
  /\ UNCHANGED <<call, humans, ring, ai, fallbacks, music, poll, waiter, bus>>

\* Presence: busy(), the write of free(), and release() for all who work on the call.
Presence(w) ==
  /\ \/ Op(w, "busy") /\ work' = [work EXCEPT ![Now(w).who] = "busy"]
     \/ Op(w, "freeWrite") /\ work' = [work EXCEPT ![Now(w).who] = Freed]
     \/ Op(w, "freeAll") /\ work' = [a \in Agents |-> IF work[a] # "free" THEN Freed ELSE "free"]
  /\ Goon(w)
  /\ UNCHANGED <<call, humans, ring, ai, fallbacks, music, poll, waiter, bus>>

\* Mutant: the row stays, marked closed.
RowMarked(w) ==
  /\ \/ Op(w, "drop") /\ ring' = [ring EXCEPT !.open = FALSE]
     \/ /\ Op(w, "offer")
        /\ ring' = IF ring.open THEN ring
                   ELSE [ring EXCEPT !.open = TRUE, !.members = Now(w).members,
                                     !.retrieve = Now(w).what = "retrieve",
                                     !.fallback = Now(w).what = "fallback"]
  /\ Goon(w)
  /\ UNCHANGED <<call, humans, work, ai, fallbacks, music, poll, waiter, bus>>

\* The offer row: DELETE, and INSERT ... ON CONFLICT DO NOTHING.
Row(w) ==
  /\ \/ Op(w, "drop") /\ ring' = Quiet
     \/ /\ Op(w, "offer")
        /\ ring' = IF ring.open THEN ring
                   ELSE [Quiet EXCEPT !.open = TRUE, !.members = Now(w).members,
                                      !.retrieve = Now(w).what = "retrieve",
                                      !.fallback = Now(w).what = "fallback"]
  /\ Goon(w)
  /\ UNCHANGED <<call, humans, work, ai, fallbacks, music, poll, waiter, bus>>

\* Bound: the second dispatch is the last one counted.
Dispatch(w) ==
  /\ Op(w, "dispatch") /\ fallbacks < 2
  /\ ai' = "talking"
  /\ fallbacks' = fallbacks + 1
  /\ Goon(w)
  /\ UNCHANGED <<call, humans, work, ring, music, poll, waiter, bus>>

Wait(w) ==
  /\ Op(w, "wait")
  /\ waiter' = TRUE
  /\ Goon(w)
  /\ UNCHANGED <<call, humans, work, ring, ai, fallbacks, music, poll, bus>>

Publish(w) ==
  /\ Op(w, "publish") /\ Len(bus) < MaxBus
  /\ bus' = Append(bus, Now(w).what)
  /\ Goon(w)
  /\ UNCHANGED <<call, humans, work, ring, ai, fallbacks, music, poll, waiter>>

Step(w) ==
  \/ Ask(w) \/ Decide(w) \/ WriteStatus(w) \/ WriteHeld(w) \/ TellMedia(w) \/ Seat(w)
  \/ Presence(w) \/ Row(w) \/ Dispatch(w) \/ Wait(w) \/ Publish(w)

-----------------------------------------------------------------------------
\* The bus, the AI job and the wrap-up clock.

\* The subscriber of Flow: an outcome resolves the request that waits, if one does.
Deliver ==
  /\ bus # <<>>
  /\ bus' = Tail(bus)
  /\ waiter' = FALSE
  /\ poll' = IF waiter THEN Head(bus) ELSE poll
  /\ UNCHANGED <<call, humans, work, ring, ai, fallbacks, music, todo, requests>>

\* The tool result reaches the AI, which may escalate again later.
Heard ==
  /\ poll \in {"accepted", "nobody"}
  /\ poll' = "idle"
  /\ UNCHANGED <<call, humans, work, ring, ai, fallbacks, music, waiter, bus, todo, requests>>

\* onHumanJoined: the AI hands the conversation over.
HandOff ==
  /\ ai = "talking" /\ humans # {}
  /\ ai' = "handed"
  /\ UNCHANGED <<call, humans, work, ring, fallbacks, music, poll, waiter, bus, todo, requests>>

WrapUpEnds(a) ==
  /\ work[a] = "acw"
  /\ work' = [work EXCEPT ![a] = "free"]
  /\ UNCHANGED <<call, humans, ring, ai, fallbacks, music, poll, waiter, bus, todo, requests>>

-----------------------------------------------------------------------------

Init ==
  /\ call = [status |-> "ringing", held |-> FALSE, endedAt |-> FALSE]
  /\ humans = {}
  /\ work = [a \in Agents |-> "free"]
  /\ ring = Quiet
  /\ ai = "none" /\ fallbacks = 0
  /\ music = FALSE
  /\ poll = "idle" /\ waiter = FALSE /\ bus = <<>>
  /\ todo = [w \in Handlers |-> <<>>] /\ requests = 0

Next ==
  \/ \E w \in Handlers :
       \/ \E aiFirst \in BOOLEAN : Create(w, aiFirst)
       \/ Escalate(w) \/ AIEnds(w)
       \/ \E a \in Agents : Accept(w, a) \/ Desk(w, a) \/ Supervise(w, a)
       \/ RingCloses(w)
       \/ Step(w)
  \/ \E a \in Agents : RingAgent(a) \/ WrapUpEnds(a)
  \/ Deliver \/ Heard \/ HandOff

Spec == Init /\ [][Next]_vars

\* Handlers run on, the bus delivers, and a ring cycle that nobody answers ends
\* (Routing, CycleFairSpec).  Agents, callers and the AI may do nothing forever.
Fairness ==
  /\ \A w \in Handlers : WF_vars(Step(w))
  /\ WF_vars(Deliver)
  /\ SF_vars(\E w \in Handlers : RingCloses(w))

FairSpec == Spec /\ Fairness

-----------------------------------------------------------------------------
(***************************************************************************)
(* Properties                                                              *)
(***************************************************************************)

Statuses == {"ringing", "ai", "waiting_human", "human", "ended"}

TypeOK ==
  /\ call \in [status: Statuses, held: BOOLEAN, endedAt: BOOLEAN]
  /\ humans \subseteq Agents
  /\ work \in [Agents -> {"free", "busy", "acw"}]
  /\ ring \in [open: BOOLEAN, agent: Agents \cup {None}, members: SUBSET Agents,
               retrieve: BOOLEAN, fallback: BOOLEAN]
  /\ ring.open \/ ring = Quiet
  /\ ai \in {"none", "talking", "handed"} /\ fallbacks \in 0..2
  /\ music \in BOOLEAN /\ waiter \in BOOLEAN
  /\ poll \in {"idle", "open", "accepted", "nobody"}
  /\ bus \in Seq({"accepted", "nobody"}) /\ Len(bus) <= MaxBus
  /\ \A w \in Handlers : \A i \in DOMAIN todo[w] : todo[w][i] \in Stmt
  /\ requests \in 0..MaxRequests

AtRest == \A w \in Handlers : todo[w] = <<>>

\* An escalation is answered: with the name of the human who accepted, or with
\* "nobody" (Flow.escalate: "never rejects"), as long as the AI is there to hear it.
\* Holds for two requests at once.  Known exception with three, on a call that has ended: the
\* end publishes before the resolver is registered, and another leave takes the ring away
\* that the escalation started since (Flow.leave releases before end() returns early).
EscalationAnswered ==
  poll = "open" /\ ai # "none" ~> poll # "open" \/ ai = "none"

\* A caller does not wait for a human forever: the call leaves waiting_human by
\* an acceptance, by Flow.nobody or by its end, whatever else happens to it.
WaitingEnds == call.status = "waiting_human" ~> call.status # "waiting_human" \/ call.endedAt

\* The last human leaving ends the call, also when two leave at the same moment
\* (Flow.leave closes the leaver's row before it counts the others).
AbandonedEnds ==
  call.status = "human" /\ humans = {} ~> call.status # "human" \/ humans # {} \/ call.endedAt

\* With nothing in flight, an agent is busy exactly while being on the call: the
\* leaver, the one dropped and everyone on an ended call are free or in wrap-up.
BusyIffOnCall ==
  AtRest => \A a \in Agents : work[a] = "busy" <=> a \in humans /\ ~call.endedAt

\* With nothing in flight, the media worker plays to the customers on hold.
MusicFollowsHold == AtRest /\ ~call.endedAt => (music <=> call.held)

\* With nothing in flight, a call that rings is not over (Flow.end stops the ring).
NoRingAfterEnd == AtRest /\ ring.open => ~call.endedAt

\* A call is over once (Flow.end "idempotent"; the diagram of the guide lets
\* nothing follow `ended`).
EndedIsFinal == [][call.status = "ended" => call'.status = "ended"]_vars

\* With nothing in flight, a call in status human has a human.
HumanCallHasHuman == AtRest /\ call.status = "human" => humans # {}

\* "The call ended ...; stop ringing and free the agent" (Routing.release).
EndFreesAgents == AtRest /\ call.endedAt => \A a \in Agents : work[a] # "busy"
==============================================================================
