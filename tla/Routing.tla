------------------------------- MODULE Routing -------------------------------
(***************************************************************************)
(* The routing engine of the API (apps/api/src/routing.ts): who is online  *)
(* and in which agent state (table agent_presence) and which call rings    *)
(* whom (table ring_offer).                                                *)
(*                                                                         *)
(* The engine keeps nothing in memory: every handler is a chain of SQL     *)
(* statements with an `await` between them, so an action here is ONE       *)
(* statement (with the code up to the next await), and a handler that is   *)
(* between two statements is a record in `task`.  The ring_offer row lock  *)
(* that `advance` holds from its SELECT ... FOR UPDATE to the commit of    *)
(* its transaction is held by a task whose pc is "commit".                 *)
(*                                                                         *)
(* Deadlines are countdowns: where the code stores the instant ringUntil   *)
(* and compares it with now(), the model stores the time left, 0 meaning   *)
(* reached and NoTimer meaning SQL null.  The tick reads its clock once    *)
(* per pass; here each of its statements sees the current countdowns.      *)
(*                                                                         *)
(* Not told apart here: tenants (a call only meets agents of its own), the *)
(* order among eligible candidates and among expired rings, and the bus    *)
(* messages, which no state of the engine depends on.                      *)
(***************************************************************************)
EXTENDS Integers, FiniteSets

CONSTANTS
  Agents,      \* desk users of the tenant
  Calls,       \* calls that may ring
  Instances,   \* API processes sharing the database
  Handlers,    \* slots for request handlers in flight
  Tickers,     \* slots for ticks in flight
  InstanceOf,  \* the process a slot belongs to
  Requests,    \* what offer() may be called with, as records
  Holds,       \* the skills each agent holds at the required proficiency
  AcwTime,     \* wrap-up seconds of the tenant
  MaxAcw,      \* bound: the longest wrap-up that extensions add up to
  Ops,         \* bound: the operations the environment invokes in a run
  None         \* SQL null for agents and calls

Workers == Handlers \cup Tickers

NoTimer == -1
Timer == Nat \cup {NoTimer}

\* What a queue and its caller pass to offer(): 0 stands for an absent number.
Request ==
  [members: SUBSET Agents, skills: SUBSET UNION {Holds[a] : a \in Agents},
   callSkills: SUBSET UNION {Holds[a] : a \in Agents},
   giveUpAfter: Nat, ring: Nat \ {0}, relaxAfter: Nat]

ASSUME RoutingAssumption ==
  /\ InstanceOf \in [Workers -> Instances]
  /\ Requests \subseteq Request
  /\ AcwTime \in Nat /\ MaxAcw \in Nat
  /\ None \notin Agents /\ None \notin Calls
  /\ None \notin Requests /\ None \notin Instances

VARIABLES
  presence,    \* agent_presence: the row of each agent
  offer,       \* ring_offer: the row of each call
  task,        \* the handlers in flight
  up           \* the API processes that run

vars == <<presence, offer, task, up>>

-----------------------------------------------------------------------------
\* Rows.

Presence ==
  [state: {"offline", "ready", "not_ready", "busy", "acw"},
   call: Calls \cup {None}, acwUntil: Timer, home: Instances \cup {None}]

Offline == [state |-> "offline", call |-> None, acwUntil |-> NoTimer, home |-> None]

Online(a) == presence[a].state # "offline"

Offer ==
  [req: Requests \cup {None}, tried: SUBSET Agents, current: Agents \cup {None},
   ringUntil: Timer, giveUpAt: Timer, relaxAt: Timer, relaxed: BOOLEAN]

NoRow ==
  [req |-> None, tried |-> {}, current |-> None, ringUntil |-> NoTimer,
   giveUpAt |-> NoTimer, relaxAt |-> NoTimer, relaxed |-> FALSE]

Present(c) == offer[c].req # None

\* The row offer() inserts: call skills that the queue's list does not hold are
\* dropped, and only what is left can be relaxed.
NewRow(r) ==
  [NoRow EXCEPT
     !.req = r,
     !.giveUpAt = IF r.giveUpAfter > 0 THEN r.giveUpAfter ELSE NoTimer,
     !.relaxAt = IF r.callSkills \cap r.skills # {} /\ r.relaxAfter > 0
                   THEN r.relaxAfter ELSE NoTimer]

Skills(r, relaxed) == IF relaxed THEN r.skills \ r.callSkills ELSE r.skills

\* Mutant: the ring is not cut at the deadline.
EarliestUncapped(s, t) == s

Earliest(s, t) ==
  IF s = NoTimer THEN t ELSE IF t = NoTimer THEN s ELSE IF s < t THEN s ELSE t

\* Mutant: a null deadline counts down too.
DownNull(t) == t - 1

Down(t) == IF t > 0 THEN t - 1 ELSE t

-----------------------------------------------------------------------------
\* Handlers in flight.

Task ==
  [pc: {"idle", "setWrite", "extendWrite", "freeWrite", "busyRead", "busyWrite",
        "freeCall", "mine", "advance", "commit", "missed", "park", "nobody",
        "wrap", "expire"},
   call: Calls \cup {None},        \* the call worked on
   agent: Agents \cup {None},      \* the user the handler is about
   to: {"ready", "not_ready"},     \* setState: the state asked for
   until: Timer,                   \* extendAcw: the deadline to write
   acw: Nat,                       \* free, release: wrap-up seconds
   todo: SUBSET Calls,             \* calls still to advance
   gone: SUBSET Agents,            \* users whose rings are still to be moved on
   sweeping: BOOLEAN,              \* a tick in its stale-user phase
   rona: BOOLEAN,                  \* advance because of a timeout
   gaveUp: BOOLEAN, relax: BOOLEAN, next: Agents \cup {None},  \* advance's decisions
   cancelled: Agents \cup {None},  \* whose ring advance cancelled
   closed: BOOLEAN]                \* advance deleted the row

Idle ==
  [pc |-> "idle", call |-> None, agent |-> None, to |-> "ready", until |-> NoTimer,
   acw |-> 0, todo |-> {}, gone |-> {}, sweeping |-> FALSE, rona |-> FALSE,
   gaveUp |-> FALSE, relax |-> FALSE, next |-> None, cancelled |-> None,
   closed |-> FALSE]

Available(w) == task[w] = Idle /\ InstanceOf[w] \in up

\* Mutant: the SELECT takes no lock.
NeverLocked(c) == FALSE

\* The row lock of the transaction in advance.
Locked(c) == \E w \in Workers : task[w].pc = "commit" /\ task[w].call = c

\* Where a handler goes when an advance of its loop is over: the next call of the
\* loop, the next departed user, the next phase of the tick, or its end.
Continue(t) ==
  LET s == [Idle EXCEPT !.todo = t.todo, !.gone = t.gone, !.sweeping = t.sweeping,
                        !.rona = t.rona]
  IN  IF t.todo # {} THEN [s EXCEPT !.pc = "advance", !.agent = t.agent]
      ELSE IF t.gone # {} THEN [s EXCEPT !.pc = "mine"]
      ELSE IF t.sweeping THEN [Idle EXCEPT !.pc = "wrap"]
      ELSE Idle

Goto(w, t) == task' = [task EXCEPT ![w] = t]

-----------------------------------------------------------------------------
\* Writes of presence rows: an UPDATE of a row that is gone changes nothing.

Write(a, p) == presence' = [presence EXCEPT ![a] = IF Online(a) THEN p ELSE @]

\* Mutant: the call is not cleared.
EnterKeepsCall(p, state, call) ==
  [p EXCEPT !.state = state, !.acwUntil = NoTimer]

Enter(p, state, call) ==
  [p EXCEPT !.state = state, !.call = call, !.acwUntil = NoTimer]

\* What release and free write: wrap-up keeps the call, ready clears it.
Freed(p, acw) ==
  IF acw > 0 THEN [p EXCEPT !.state = "acw", !.acwUntil = acw]
  ELSE Enter(p, "ready", None)

-----------------------------------------------------------------------------
\* Presence operations.

\* connect(): one upsert; an online user keeps the state and is re-homed.
Connect(a, i) ==
  /\ "connect" \in Ops
  /\ i \in up
  /\ presence' = [presence EXCEPT
       ![a] = IF Online(a) THEN [@ EXCEPT !.home = i]
              ELSE [Offline EXCEPT !.state = "not_ready", !.home = i]]
  /\ UNCHANGED <<offer, task, up>>

\* disconnect(): the row goes first, the user's rings move on after.
Disconnect(w, a) ==
  /\ "disconnect" \in Ops
  /\ Available(w) /\ Online(a)
  /\ presence' = [presence EXCEPT ![a] = Offline]
  /\ Goto(w, [Idle EXCEPT !.pc = "mine", !.gone = {a}])
  /\ UNCHANGED <<offer, up>>

\* setState(): the guard reads the row, the write is a later statement.
SetState(w, a, s) ==
  /\ "setState" \in Ops
  /\ Available(w) /\ Online(a) /\ presence[a].state # "busy"
  /\ Goto(w, [Idle EXCEPT !.pc = "setWrite", !.agent = a, !.to = s])
  /\ UNCHANGED <<presence, offer, up>>

SetWrite(w) ==
  /\ task[w].pc = "setWrite"
  /\ Write(task[w].agent, Enter(presence[task[w].agent], task[w].to, None))
  /\ Goto(w, Idle)
  /\ UNCHANGED <<offer, up>>

\* extendAcw(): a missing acwUntil counts as now.
ExtendAcw(w, a) ==
  /\ "extendAcw" \in Ops
  /\ Available(w) /\ presence[a].state = "acw"
  /\ LET left == IF presence[a].acwUntil = NoTimer THEN 0 ELSE presence[a].acwUntil
     IN  /\ left + AcwTime <= MaxAcw
         /\ Goto(w, [Idle EXCEPT !.pc = "extendWrite", !.agent = a,
                                 !.until = left + AcwTime])
  /\ UNCHANGED <<presence, offer, up>>

ExtendWrite(w) ==
  /\ task[w].pc = "extendWrite"
  /\ Write(task[w].agent, [presence[task[w].agent] EXCEPT !.acwUntil = task[w].until])
  /\ Goto(w, Idle)
  /\ UNCHANGED <<offer, up>>

\* free(): only a busy user is freed, by a write that checks nothing any more.
FreeUser(w, a, acw) ==
  /\ "free" \in Ops
  /\ Available(w) /\ presence[a].state = "busy"
  /\ Goto(w, [Idle EXCEPT !.pc = "freeWrite", !.agent = a, !.acw = acw])
  /\ UNCHANGED <<presence, offer, up>>

FreeWrite(w) ==
  /\ task[w].pc = "freeWrite"
  /\ Write(task[w].agent, Freed(presence[task[w].agent], task[w].acw))
  /\ Goto(w, Idle)
  /\ UNCHANGED <<offer, up>>

\* busy(): take-over of a call, and the second half of accept().
Busy(w, c, a) ==
  /\ "busy" \in Ops
  /\ Available(w)
  /\ Goto(w, [Idle EXCEPT !.pc = "busyRead", !.call = c, !.agent = a])
  /\ UNCHANGED <<presence, offer, up>>

BusyRead(w) ==
  /\ task[w].pc = "busyRead"
  /\ Goto(w, IF Online(task[w].agent) THEN [task[w] EXCEPT !.pc = "busyWrite"] ELSE Idle)
  /\ UNCHANGED <<presence, offer, up>>

BusyWrite(w) ==
  /\ task[w].pc = "busyWrite"
  /\ Write(task[w].agent, Enter(presence[task[w].agent], "busy", task[w].call))
  /\ Goto(w, Idle)
  /\ UNCHANGED <<offer, up>>

-----------------------------------------------------------------------------
\* Ring operations.

\* offer(): INSERT ... ON CONFLICT DO NOTHING, then the first advance.
MakeOffer(w, c, r) ==
  /\ "offer" \in Ops
  /\ Available(w) /\ ~Present(c)
  /\ offer' = [offer EXCEPT ![c] = NewRow(r)]
  /\ Goto(w, [Idle EXCEPT !.pc = "advance", !.todo = {c}])
  /\ UNCHANGED <<presence, up>>

\* accept(): the DELETE that only the ringing agent's request matches; it waits
\* for a row lock and then sees the row as the transaction left it.
Accept(w, c, a) ==
  /\ "accept" \in Ops
  /\ Available(w) /\ ~Locked(c) /\ offer[c].current = a
  /\ offer' = [offer EXCEPT ![c] = NoRow]
  /\ Goto(w, [Idle EXCEPT !.pc = "busyRead", !.call = c, !.agent = a])
  /\ UNCHANGED <<presence, up>>

\* Mutant: whoever declines moves the ring on.
DeclineByAnyone(w, c, a) ==
  /\ "decline" \in Ops
  /\ Available(w) /\ offer[c].current # None
  /\ Goto(w, [Idle EXCEPT !.pc = "advance", !.todo = {c}, !.agent = a])
  /\ UNCHANGED <<presence, offer, up>>

\* decline(): the check reads the row without a lock.
Decline(w, c, a) ==
  /\ "decline" \in Ops
  /\ Available(w) /\ offer[c].current = a
  /\ Goto(w, [Idle EXCEPT !.pc = "advance", !.todo = {c}, !.agent = a])
  /\ UNCHANGED <<presence, offer, up>>

\* release(): the row is deleted, then everyone whose row names the call is freed.
Release(w, c, acw) ==
  /\ "release" \in Ops
  /\ Available(w) /\ ~Locked(c)
  /\ offer' = [offer EXCEPT ![c] = NoRow]
  /\ Goto(w, [Idle EXCEPT !.pc = "freeCall", !.call = c, !.acw = acw])
  /\ UNCHANGED <<presence, up>>

FreeCall(w) ==
  /\ task[w].pc = "freeCall"
  /\ presence' = [a \in Agents |->
       IF presence[a].call = task[w].call THEN Freed(presence[a], task[w].acw)
       ELSE presence[a]]
  /\ Goto(w, Idle)
  /\ UNCHANGED <<offer, up>>

\* advanceOffersOf(): the rings of one departed user, advanced one after another.
Mine(w) ==
  /\ task[w].pc = "mine"
  /\ \E a \in task[w].gone :
       Goto(w, Continue([task[w] EXCEPT
         !.agent = a, !.gone = @ \ {a}, !.todo = {c \in Calls : offer[c].current = a}]))
  /\ UNCHANGED <<presence, offer, up>>

\* Mutants: agents are tried again; agents rung for another call are not left out.
CandidatesRetried(c, tried, skills) ==
  {a \in offer[c].req.members :
     /\ presence[a].state = "ready"
     /\ \A d \in Calls \ {c} : offer[d].current # a
     /\ skills \subseteq Holds[a]}

CandidatesElsewhere(c, tried, skills) ==
  {a \in offer[c].req.members :
     presence[a].state = "ready" /\ a \notin tried /\ skills \subseteq Holds[a]}

\* Who candidate() may return: ready members that hold the skills, were not tried
\* and are not rung for another call, as the other transactions committed them.
Candidates(c, tried, skills) ==
  {a \in offer[c].req.members :
     /\ presence[a].state = "ready"
     /\ a \notin tried
     /\ \A d \in Calls \ {c} : offer[d].current # a
     /\ skills \subseteq Holds[a]}

\* Mutant: the agent whose ring is cancelled is not remembered.
TriedForgets(o) == o.tried

Tried(o) == o.tried \cup ({o.current} \ {None})

\* advance(), the skipped case: no row, or another transaction has its lock.
AdvanceSkip(w) ==
  /\ task[w].pc = "advance"
  /\ \E c \in task[w].todo :
       /\ ~Present(c) \/ Locked(c)
       /\ Goto(w, Continue([task[w] EXCEPT !.todo = @ \ {c}]))
  /\ UNCHANGED <<presence, offer, up>>

\* advance(), SELECT ... FOR UPDATE up to the choice of the candidate.
AdvanceLock(w) ==
  /\ task[w].pc = "advance"
  /\ \E c \in task[w].todo :
       LET o == offer[c]
           gaveUp == o.giveUpAt = 0
           relax == ~gaveUp /\ o.relaxAt = 0
           pool == IF gaveUp THEN {}
                   ELSE Candidates(c, Tried(o), Skills(o.req, o.relaxed \/ relax))
       IN  /\ Present(c) /\ ~Locked(c)
           /\ \E n \in (IF pool = {} THEN {None} ELSE pool) :
                Goto(w, [task[w] EXCEPT !.pc = "commit", !.call = c, !.todo = @ \ {c},
                                        !.gaveUp = gaveUp, !.relax = relax, !.next = n])
  /\ UNCHANGED <<presence, offer, up>>

\* Mutant: the resting offer gets no timer.
RestedUnarmed(r) == [r EXCEPT !.current = None, !.ringUntil = NoTimer]

\* Nobody qualifies yet: the offer rests until the relax deadline or its own.
Rested(r) ==
  [r EXCEPT !.current = None, !.ringUntil = Earliest(r.relaxAt, r.giveUpAt)]

\* The row as the transaction of advance commits it: the next candidate rings, or
\* the offer rests, or the cycle is over.
Advanced(o, t) ==
  LET r == [o EXCEPT !.tried = Tried(o),
                     !.relaxAt = IF t.relax THEN NoTimer ELSE @,
                     !.relaxed = @ \/ t.relax]
  IN  IF t.next # None
        THEN [r EXCEPT !.current = t.next, !.ringUntil = Earliest(r.req.ring, r.giveUpAt)]
      ELSE IF ~t.gaveUp /\ r.relaxAt # NoTimer
        THEN Rested(r)
      ELSE NoRow

AdvanceCommit(w) ==
  LET t == task[w]
      o == offer[t.call]
      row == Advanced(o, t)
      done == [t EXCEPT !.cancelled = o.current, !.closed = row = NoRow]
  IN  /\ t.pc = "commit"
      /\ offer' = [offer EXCEPT ![t.call] = row]
      /\ Goto(w, IF o.current # None /\ t.rona THEN [done EXCEPT !.pc = "missed"]
                 ELSE IF row = NoRow THEN [done EXCEPT !.pc = "nobody"]
                 ELSE Continue(done))
      /\ UNCHANGED <<presence, up>>

\* After the commit: a missed ring parks the agent, if the row still says ready.
AfterRona(t) == IF t.closed THEN [t EXCEPT !.pc = "nobody"] ELSE Continue(t)

Missed(w) ==
  /\ task[w].pc = "missed"
  /\ Goto(w, IF presence[task[w].cancelled].state = "ready"
               THEN [task[w] EXCEPT !.pc = "park"] ELSE AfterRona(task[w]))
  /\ UNCHANGED <<presence, offer, up>>

Park(w) ==
  /\ task[w].pc = "park"
  /\ Write(task[w].cancelled, Enter(presence[task[w].cancelled], "not_ready", None))
  /\ Goto(w, AfterRona(task[w]))
  /\ UNCHANGED <<offer, up>>

\* onNobody runs to its end (what it does is Flow's) before the loop goes on.
Nobody(w) ==
  /\ task[w].pc = "nobody"
  /\ Goto(w, Continue(task[w]))
  /\ UNCHANGED <<presence, offer, up>>

-----------------------------------------------------------------------------
\* tick()

\* Heartbeat and sweep: only rows of a dead process can have gone stale; which of
\* them did by now is left open (the age of a heartbeat is not modelled here).
TickStart(w) ==
  /\ Available(w)
  /\ \E gone \in SUBSET {a \in Agents : Online(a) /\ presence[a].home \notin up} :
       /\ presence' = [a \in Agents |-> IF a \in gone THEN Offline ELSE presence[a]]
       /\ Goto(w, Continue([Idle EXCEPT !.gone = gone, !.sweeping = TRUE]))
  /\ UNCHANGED <<offer, up>>

\* Mutant: only wrap-ups without a call are ended.
WrapWithoutCall(w) ==
  /\ task[w].pc = "wrap"
  /\ presence' = [a \in Agents |->
       IF presence[a].state = "acw" /\ presence[a].acwUntil = 0 /\ presence[a].call = None
         THEN Enter(presence[a], "ready", None) ELSE presence[a]]
  /\ Goto(w, [Idle EXCEPT !.pc = "expire"])
  /\ UNCHANGED <<offer, up>>

\* Wrap-ups whose deadline passed end.
Wrap(w) ==
  /\ task[w].pc = "wrap"
  /\ presence' = [a \in Agents |->
       IF presence[a].state = "acw" /\ presence[a].acwUntil = 0
         THEN Enter(presence[a], "ready", None) ELSE presence[a]]
  /\ Goto(w, [Idle EXCEPT !.pc = "expire"])
  /\ UNCHANGED <<offer, up>>

\* Mutant: offers that rest are overlooked.
ExpireRungOnly(w) ==
  /\ task[w].pc = "expire"
  /\ Goto(w, Continue([Idle EXCEPT
       !.todo = {c \in Calls : offer[c].ringUntil = 0 /\ offer[c].current # None},
       !.rona = TRUE]))
  /\ UNCHANGED <<presence, offer, up>>

\* Rings (and rests) that ran out are advanced one after another.
Expire(w) ==
  /\ task[w].pc = "expire"
  /\ Goto(w, Continue([Idle EXCEPT !.todo = {c \in Calls : offer[c].ringUntil = 0},
                                   !.rona = TRUE]))
  /\ UNCHANGED <<presence, offer, up>>

-----------------------------------------------------------------------------
\* Time, and the end of a process: what it had in flight is lost, the rows stay.
\* Bound: one process survives (a restarted one has a new id, so it is that one).

Clock ==
  /\ presence' = [a \in Agents |-> [presence[a] EXCEPT !.acwUntil = Down(@)]]
  /\ offer' = [c \in Calls |->
       [offer[c] EXCEPT !.ringUntil = Down(@), !.giveUpAt = Down(@), !.relaxAt = Down(@)]]
  /\ task' = [w \in Workers |-> [task[w] EXCEPT !.until = Down(@)]]
  /\ UNCHANGED up

Crash(i) ==
  /\ "crash" \in Ops
  /\ i \in up /\ up # {i}
  /\ up' = up \ {i}
  /\ task' = [w \in Workers |-> IF InstanceOf[w] = i THEN Idle ELSE task[w]]
  /\ UNCHANGED <<presence, offer>>

-----------------------------------------------------------------------------

Init ==
  /\ presence = [a \in Agents |-> Offline]
  /\ offer = [c \in Calls |-> NoRow]
  /\ task = [w \in Workers |-> Idle]
  /\ up = Instances

\* The next statement of a handler in flight.
Step(w) ==
  \/ SetWrite(w) \/ ExtendWrite(w) \/ FreeWrite(w)
  \/ BusyRead(w) \/ BusyWrite(w) \/ FreeCall(w)
  \/ Mine(w) \/ AdvanceSkip(w) \/ AdvanceLock(w) \/ AdvanceCommit(w)
  \/ Missed(w) \/ Park(w) \/ Nobody(w)
  \/ Wrap(w) \/ Expire(w)

\* A request arrives.
Arrival(w) ==
  \/ \E a \in Agents :
       \/ Disconnect(w, a) \/ ExtendAcw(w, a)
       \/ \E s \in {"ready", "not_ready"} : SetState(w, a, s)
       \/ \E acw \in {0, AcwTime} : FreeUser(w, a, acw)
       \/ \E c \in Calls : Busy(w, c, a) \/ Accept(w, c, a) \/ Decline(w, c, a)
  \/ \E c \in Calls :
       \/ \E r \in Requests : MakeOffer(w, c, r)
       \/ \E acw \in {0, AcwTime} : Release(w, c, acw)

Next ==
  \/ \E a \in Agents, i \in Instances : Connect(a, i)
  \/ \E w \in Handlers : Arrival(w)
  \/ \E w \in Tickers : TickStart(w)
  \/ \E w \in Workers : Step(w)
  \/ \E i \in Instances : Crash(i)
  \/ Clock

Spec == Init /\ [][Next]_vars

\* A running process finishes what it awaits, its interval timer fires, and time
\* passes.  Nothing is assumed of agents, callers or crashes.
Fairness ==
  /\ \A w \in Workers : WF_vars(Step(w))
  /\ \A w \in Tickers : WF_vars(TickStart(w))
  /\ WF_vars(Clock)

FairSpec == Spec /\ Fairness

-----------------------------------------------------------------------------
(***************************************************************************)
(* Properties                                                              *)
(***************************************************************************)

\* Type correctness of the rows and of the handlers in flight.
TypeOK ==
  /\ presence \in [Agents -> Presence]
  /\ offer \in [Calls -> Offer]
  /\ task \in [Workers -> Task]
  /\ up \subseteq Instances

\* Whatever handlers overlap, a presence row keeps the shape the desk and the tick
\* rely on: only busy and acw users carry a call, a busy one always does (release
\* finds them by it), and a wrap-up has the deadline at which the tick ends it.
PresenceShape ==
  \A a \in Agents :
    LET p == presence[a]
    IN  /\ p.state \in {"offline", "ready", "not_ready"} => p.call = None
        /\ p.state = "busy" => p.call # None
        /\ p.state = "acw" => p.acwUntil # NoTimer

\* The agent being rung is a member of the queue who holds the skills still asked
\* for and was not tried before, although they were chosen from a read made before
\* the commit; an offer that rests has a relax deadline to wake up for.
RingDiscipline ==
  \A c \in Calls :
    LET o == offer[c]
    IN  /\ o.current # None =>
             /\ o.current \in o.req.members \ o.tried
             /\ Skills(o.req, o.relaxed) \subseteq Holds[o.current]
             /\ o.ringUntil # NoTimer
        /\ o.current = None /\ o.ringUntil # NoTimer =>
             o.relaxAt # NoTimer /\ o.ringUntil <= o.relaxAt

\* "The last agent's ring is shortened so it never passes the deadline": no ring
\* and no rest outlives giveUpAt, even when the deadline passes in mid-advance.
NoRingPastDeadline ==
  \A c \in Calls :
    offer[c].giveUpAt # NoTimer => offer[c].ringUntil <= offer[c].giveUpAt

\* No ring is forgotten: a row without a timer, which no tick can see, has a handler
\* that is about to advance it.
Watched ==
  \A c \in Calls :
    Present(c) =>
      \/ offer[c].ringUntil # NoTimer
      \/ \E w \in Workers :
           \/ task[w].pc = "advance" /\ c \in task[w].todo
           \/ task[w].pc = "commit" /\ task[w].call = c

\* onNobody reports the end of a cycle that this very transaction ended: two
\* handlers never both report one cycle, and none reports a cycle already accepted.
ReportsOwnClosing ==
  [][\A w \in Workers :
       task'[w].closed /\ ~task[w].closed =>
         Present(task[w].call) /\ offer'[task[w].call] = NoRow]_vars

\* What one state change may not do to an agent on a call (setState's contract, and
\* RONA's: only an agent who is ready is parked): busy ends by the wrap-up writes of
\* free and release, never by a write decided on an older read of the row.
BusyNotFreedByStateChange ==
  [][\A w \in Workers, a \in Agents :
       /\ task[w].pc \in {"setWrite", "park"} /\ task'[w] # task[w]
       /\ presence[a].state = "busy"
       => presence'[a].state = "busy"]_vars

\* An agent rings for one call at a time.
OneRingPerAgent ==
  \A c, d \in Calls : c # d /\ offer[c].current # None => offer[c].current # offer[d].current

\* An advance cancels only the ring it was started for: a timeout one that ran out,
\* a decline or a departure the ring of that very agent.
CancelsOwnRing ==
  [][\A w \in Workers :
       /\ task[w].pc = "commit" /\ task'[w] # task[w] /\ up' = up
       /\ offer[task[w].call].current # None
       => IF task[w].rona THEN offer[task[w].call].ringUntil = 0
          ELSE offer[task[w].call].current = task[w].agent]_vars

\* Every ring cycle comes to an end, whatever agents and callers do or fail to do.
RingEnds == \A c \in Calls : Present(c) ~> ~Present(c)

\* A wrap-up that ran out is over, or was prolonged, at a later tick.
WrapUpEnds ==
  \A a \in Agents :
    (presence[a].state = "acw" /\ presence[a].acwUntil = 0)
      ~> ~(presence[a].state = "acw" /\ presence[a].acwUntil = 0)

\* The engine implements the ring cycle a caller of offer() is promised.
Cycle ==
  INSTANCE RingCycle WITH
    ring <- [c \in Calls |-> [open |-> Present(c), agent |-> offer[c].current,
                              tried |-> offer[c].tried]]

CycleSpec == Cycle!Spec
CycleFairSpec == Cycle!FairSpec
==============================================================================
