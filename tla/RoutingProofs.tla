---------------------------- MODULE RoutingProofs ----------------------------
(***************************************************************************)
(* Theorems about Routing, for every set of agents, calls, processes,      *)
(* slots and requests: types and row locks, which offers there may be, no  *)
(* ring is forgotten, a cycle is reported once, and the engine implements  *)
(* the ring cycle of RingCycle.                                            *)
(***************************************************************************)
EXTENDS Routing, TLAPS

-----------------------------------------------------------------------------
\* Lemmas about the helpers.

LEMMA EarliestType ==
  ASSUME NEW s \in Timer, NEW t \in Timer
  PROVE  /\ Earliest(s, t) \in Timer
         /\ s # NoTimer => Earliest(s, t) # NoTimer /\ Earliest(s, t) <= s
         /\ t # NoTimer => Earliest(s, t) # NoTimer /\ Earliest(s, t) <= t
  BY DEF Earliest, Timer, NoTimer

LEMMA DownType ==
  ASSUME NEW t \in Timer
  PROVE  /\ Down(t) \in Timer
         /\ Down(t) = NoTimer <=> t = NoTimer
  BY DEF Down, Timer, NoTimer

LEMMA DownMonotone ==
  ASSUME NEW s \in Timer, NEW t \in Timer, s <= t
  PROVE  Down(s) <= Down(t)
  BY DEF Down, Timer, NoTimer

LEMMA IdleType == Idle \in Task
  BY DEF Idle, Task, Timer, NoTimer

\* The end of an advance leads to another row read, another phase, or the end.
LEMMA ContinueType ==
  ASSUME NEW t \in Task
  PROVE  /\ Continue(t) \in Task
         /\ Continue(t).pc \in {"idle", "mine", "advance", "wrap"}
         /\ ~Continue(t).closed
<1> DEFINE s == [Idle EXCEPT !.todo = t.todo, !.gone = t.gone,
                             !.sweeping = t.sweeping, !.rona = t.rona]
           Good(x) == x \in Task /\ x.pc \in {"idle", "mine", "advance", "wrap"} /\ ~x.closed
<1>1. s \in Task /\ ~s.closed
  BY DEF Idle, Task, Timer, NoTimer
<1>2. Good([s EXCEPT !.pc = "advance", !.agent = t.agent])
  BY <1>1 DEF Task
<1>3. Good([s EXCEPT !.pc = "mine"])
  BY <1>1 DEF Task
<1>4. Good([Idle EXCEPT !.pc = "wrap"])
  BY IdleType DEF Idle, Task
<1>5. Good(Idle)
  BY IdleType DEF Idle
<1>6. Good(Continue(t))
  <2> HIDE DEF Good, s
  <2>1. CASE t.todo # {}
    BY <1>2, <2>1 DEF Continue, s
  <2>2. CASE t.todo = {} /\ t.gone # {}
    BY <1>3, <2>2 DEF Continue, s
  <2>3. CASE t.todo = {} /\ t.gone = {}
    BY <1>4, <1>5, <2>3 DEF Continue
  <2> QED BY <2>1, <2>2, <2>3
<1> QED BY <1>6

LEMMA GotoType ==
  ASSUME task \in [Workers -> Task], NEW w \in Workers, NEW t \in Task, Goto(w, t)
  PROVE  /\ task' \in [Workers -> Task]
         /\ task'[w] = t
         /\ \A v \in Workers \ {w} : task'[v] = task[v]
  BY DEF Goto

LEMMA EnterType ==
  ASSUME NEW p \in Presence, NEW st \in {"ready", "not_ready", "busy"},
         NEW c \in Calls \cup {None}
  PROVE  /\ Enter(p, st, c) \in Presence
         /\ Enter(p, st, c).state = st
         /\ Enter(p, st, c).call = c
  BY DEF Enter, Presence, Timer, NoTimer

LEMMA FreedType ==
  ASSUME NEW p \in Presence, NEW acw \in Nat
  PROVE  /\ Freed(p, acw) \in Presence
         /\ Freed(p, acw).state \in {"ready", "acw"}
         /\ Freed(p, acw).state = "ready" => Freed(p, acw).call = None
         /\ Freed(p, acw).state = "acw" => Freed(p, acw).acwUntil # NoTimer
<1>1. CASE acw > 0
  <2> DEFINE q == [p EXCEPT !.state = "acw", !.acwUntil = acw]
  <2>1. Freed(p, acw) = q
    BY <1>1 DEF Freed
  <2>2. q \in Presence
    BY DEF Presence, Timer
  <2>3. q.state = "acw" /\ q.acwUntil = acw
    BY DEF Presence
  <2>4. acw # NoTimer
    BY <1>1 DEF NoTimer
  <2> HIDE DEF q
  <2> QED BY <2>1, <2>2, <2>3, <2>4
<1>2. CASE ~(acw > 0)
  <2>1. Freed(p, acw) = Enter(p, "ready", None)
    BY <1>2 DEF Freed
  <2> QED BY <2>1, EnterType
<1> QED BY <1>1, <1>2

LEMMA RowType ==
  ASSUME NEW r \in Requests
  PROVE  NewRow(r) \in Offer /\ NewRow(r).req = r
  BY RoutingAssumption DEF NewRow, NoRow, Offer, Request, Timer, NoTimer

LEMMA NoRowType == NoRow \in Offer
  BY DEF NoRow, Offer, Timer, NoTimer

-----------------------------------------------------------------------------
(***************************************************************************)
(* The typing invariant.  TypeOK alone is not inductive: a commit computes *)
(* the new row from the old one, so the row must still be there, and it is *)
(* because no other transaction can hold its lock.                         *)
(***************************************************************************)

\* What a handler knows by its program counter alone.
TaskOK(t) ==
  /\ t.pc \in {"setWrite", "extendWrite", "freeWrite", "busyRead", "busyWrite"} =>
       t.agent \in Agents
  /\ t.pc \in {"busyRead", "busyWrite", "freeCall", "commit"} => t.call \in Calls
  /\ t.pc = "extendWrite" => t.until # NoTimer
  /\ t.pc \in {"missed", "park"} => t.cancelled \in Agents

\* The row lock: a transaction keeps its row alive and to itself.
RowLock ==
  \A w \in Workers :
    task[w].pc = "commit" =>
      /\ Present(task[w].call)
      /\ \A v \in Workers : task[v].pc = "commit" /\ task[v].call = task[w].call => v = w

TypeInv ==
  /\ TypeOK
  /\ \A w \in Workers : TaskOK(task[w])
  /\ RowLock

LEMMA IdleOK == TaskOK(Idle) /\ Idle.pc = "idle" /\ ~Idle.closed
  BY DEF TaskOK, Idle

LEMMA ContinueOK ==
  ASSUME NEW t \in Task
  PROVE  TaskOK(Continue(t)) /\ Continue(t).pc # "commit"
  BY ContinueType DEF TaskOK

\* A step that moves one handler to a place without a lock, and removes no locked
\* row, keeps the invariant.
LEMMA MoveKeepsTypeInv ==
  ASSUME TypeInv, NEW w \in Workers, NEW t \in Task, Goto(w, t), TaskOK(t),
         t.pc # "commit",
         presence' \in [Agents -> Presence], offer' \in [Calls -> Offer],
         up' \subseteq Instances,
         \A v \in Workers \ {w} :
           task[v].pc = "commit" => offer'[task[v].call] = offer[task[v].call]
  PROVE  TypeInv'
<1>1. /\ task' \in [Workers -> Task]
      /\ task'[w] = t
      /\ \A v \in Workers \ {w} : task'[v] = task[v]
  BY GotoType DEF TypeInv, TypeOK
<1>2. TypeOK'
  BY <1>1 DEF TypeOK
<1>3. (\A v \in Workers : TaskOK(task[v]))'
  BY <1>1 DEF TypeInv, TaskOK
<1>4. RowLock'
  BY <1>1 DEF TypeInv, RowLock, Present
<1> QED BY <1>2, <1>3, <1>4 DEF TypeInv

\* Writes of presence rows keep their type.
LEMMA WriteType ==
  ASSUME presence \in [Agents -> Presence], NEW a \in Agents, NEW p \in Presence,
         Write(a, p)
  PROVE  presence' \in [Agents -> Presence]
  BY DEF Write

\* A row that is gone or replaced by another keeps the type of the table.
LEMMA OfferType ==
  ASSUME offer \in [Calls -> Offer], NEW c \in Calls, NEW o \in Offer,
         offer' = [offer EXCEPT ![c] = o]
  PROVE  /\ offer' \in [Calls -> Offer]
         /\ offer'[c] = o
         /\ \A d \in Calls \ {c} : offer'[d] = offer[d]
  OBVIOUS

LEMMA AdvancedType ==
  ASSUME NEW o \in Offer, o.req # None, NEW t \in Task
  PROVE  /\ Advanced(o, t) \in Offer
         /\ Advanced(o, t) = NoRow \/ Advanced(o, t).req = o.req
<1> DEFINE r == [o EXCEPT !.tried = Tried(o),
                          !.relaxAt = IF t.relax THEN NoTimer ELSE @,
                          !.relaxed = @ \/ t.relax]
<1>1. r \in Offer /\ r.req = o.req /\ r.giveUpAt \in Timer /\ r.relaxAt \in Timer
  BY DEF Offer, Task, Tried, Timer
<1>2. r.req.ring \in Timer
  BY <1>1, RoutingAssumption DEF Offer, Request, Timer
<1>3. Earliest(r.req.ring, r.giveUpAt) \in Timer /\ Earliest(r.relaxAt, r.giveUpAt) \in Timer
  BY <1>1, <1>2, EarliestType
<1>4. ASSUME t.next # None
      PROVE  LET x == [r EXCEPT !.current = t.next,
                                !.ringUntil = Earliest(r.req.ring, r.giveUpAt)]
             IN  x \in Offer /\ x.req = o.req
  <2> HIDE DEF r
  <2> QED BY <1>1, <1>3, <1>4 DEF Offer, Task
<1>5. Rested(r) \in Offer /\ Rested(r).req = o.req
  <2> HIDE DEF r
  <2> QED BY <1>1, <1>3 DEF Offer, Rested
<1>6. Advanced(o, t) = IF t.next # None
        THEN [r EXCEPT !.current = t.next, !.ringUntil = Earliest(r.req.ring, r.giveUpAt)]
        ELSE IF ~t.gaveUp /\ r.relaxAt # NoTimer THEN Rested(r) ELSE NoRow
  BY DEF Advanced
<1> HIDE DEF r
<1> QED BY <1>4, <1>5, <1>6, NoRowType

\* The actions, one by one.

LEMMA PresenceStepsKeepTypeInv ==
  ASSUME TypeInv, NEW a \in Agents, NEW w \in Workers, NEW s \in {"ready", "not_ready"},
         NEW acw \in {0, AcwTime},
         \/ Disconnect(w, a) \/ SetState(w, a, s) \/ ExtendAcw(w, a) \/ FreeUser(w, a, acw)
  PROVE  TypeInv'
<1>1. CASE Disconnect(w, a)
  <2> DEFINE t == [Idle EXCEPT !.pc = "mine", !.gone = {a}]
  <2>1. t \in Task /\ TaskOK(t) /\ t.pc # "commit"
    BY IdleType DEF Idle, Task, TaskOK
  <2>2. Offline \in Presence
    BY DEF Offline, Presence, Timer
  <2>3. presence' \in [Agents -> Presence] /\ offer' = offer /\ up' = up /\ Goto(w, t)
    BY <1>1, <2>2 DEF Disconnect, TypeInv, TypeOK
  <2> QED BY <2>1, <2>3, MoveKeepsTypeInv DEF TypeInv, TypeOK
<1>2. CASE SetState(w, a, s)
  <2> DEFINE t == [Idle EXCEPT !.pc = "setWrite", !.agent = a, !.to = s]
  <2>1. t \in Task /\ TaskOK(t) /\ t.pc # "commit"
    BY IdleType DEF Idle, Task, TaskOK
  <2>2. presence' = presence /\ offer' = offer /\ up' = up /\ Goto(w, t)
    BY <1>2 DEF SetState
  <2> QED BY <2>1, <2>2, MoveKeepsTypeInv DEF TypeInv, TypeOK
<1>3. CASE ExtendAcw(w, a)
  <2> DEFINE left == IF presence[a].acwUntil = NoTimer THEN 0 ELSE presence[a].acwUntil
             until == left + AcwTime
             t == [Idle EXCEPT !.pc = "extendWrite", !.agent = a, !.until = until]
  <2>1. until \in Nat
    BY RoutingAssumption DEF TypeInv, TypeOK, Presence, Timer
  <2>a. until \in Timer /\ until # NoTimer
    BY <2>1 DEF Timer, NoTimer
  <2>2. t \in Task /\ TaskOK(t) /\ t.pc # "commit"
    <3> HIDE DEF until
    <3> QED BY <2>a, IdleType DEF Idle, Task, TaskOK
  <2>3. presence' = presence /\ offer' = offer /\ up' = up /\ Goto(w, t)
    BY <1>3 DEF ExtendAcw
  <2> HIDE DEF t
  <2> QED BY <2>2, <2>3, MoveKeepsTypeInv DEF TypeInv, TypeOK
<1>4. CASE FreeUser(w, a, acw)
  <2> DEFINE t == [Idle EXCEPT !.pc = "freeWrite", !.agent = a, !.acw = acw]
  <2>1. t \in Task /\ TaskOK(t) /\ t.pc # "commit"
    BY IdleType, RoutingAssumption DEF Idle, Task, TaskOK
  <2>2. presence' = presence /\ offer' = offer /\ up' = up /\ Goto(w, t)
    BY <1>4 DEF FreeUser
  <2> QED BY <2>1, <2>2, MoveKeepsTypeInv DEF TypeInv, TypeOK
<1> QED BY <1>1, <1>2, <1>3, <1>4

LEMMA BusyKeepsTypeInv ==
  ASSUME TypeInv, NEW a \in Agents, NEW w \in Workers, NEW c \in Calls, Busy(w, c, a)
  PROVE  TypeInv'
<1> DEFINE t == [Idle EXCEPT !.pc = "busyRead", !.call = c, !.agent = a]
<1>1. t \in Task /\ TaskOK(t) /\ t.pc # "commit"
  BY IdleType DEF Idle, Task, TaskOK
<1>2. presence' = presence /\ offer' = offer /\ up' = up /\ Goto(w, t)
  BY DEF Busy
<1> QED BY <1>1, <1>2, MoveKeepsTypeInv DEF TypeInv, TypeOK

LEMMA ConnectKeepsTypeInv ==
  ASSUME TypeInv, NEW a \in Agents, NEW i \in Instances, Connect(a, i)
  PROVE  TypeInv'
<1>1. presence' \in [Agents -> Presence] /\ offer' = offer /\ task' = task /\ up' = up
  BY DEF Connect, TypeInv, TypeOK, Presence, Offline, Timer
<1> QED BY <1>1 DEF TypeInv, TypeOK, RowLock, Present, TaskOK

LEMMA RingStepsKeepTypeInv ==
  ASSUME TypeInv, NEW w \in Workers, NEW c \in Calls,
         \/ \E r \in Requests : MakeOffer(w, c, r)
         \/ \E a \in Agents : Accept(w, c, a) \/ Decline(w, c, a)
         \/ \E acw \in {0, AcwTime} : Release(w, c, acw)
  PROVE  TypeInv'
<1>1. ASSUME NEW r \in Requests, MakeOffer(w, c, r) PROVE TypeInv'
  <2> DEFINE t == [Idle EXCEPT !.pc = "advance", !.todo = {c}]
  <2>1. t \in Task /\ TaskOK(t) /\ t.pc # "commit"
    BY IdleType DEF Idle, Task, TaskOK
  <2>2. presence' = presence /\ up' = up /\ Goto(w, t)
        /\ offer' = [offer EXCEPT ![c] = NewRow(r)] /\ ~Present(c)
    BY <1>1 DEF MakeOffer
  <2>3. /\ offer' \in [Calls -> Offer]
        /\ \A d \in Calls \ {c} : offer'[d] = offer[d]
    BY <2>2, RowType DEF TypeInv, TypeOK
  <2>4. \A v \in Workers : task[v].pc = "commit" => task[v].call \in Calls \ {c}
    BY <2>2 DEF TypeInv, TaskOK, RowLock
  <2> HIDE DEF t
  <2> QED BY <2>1, <2>2, <2>3, <2>4, MoveKeepsTypeInv DEF TypeInv, TypeOK
<1>2. ASSUME NEW t \in Task, TaskOK(t), t.pc # "commit", Goto(w, t), ~Locked(c),
             presence' = presence, up' = up, offer' = [offer EXCEPT ![c] = NoRow]
      PROVE  TypeInv'
  <2>1. /\ offer' \in [Calls -> Offer]
        /\ \A d \in Calls \ {c} : offer'[d] = offer[d]
    BY <1>2, NoRowType DEF TypeInv, TypeOK
  <2>2. \A v \in Workers : task[v].pc = "commit" => task[v].call \in Calls \ {c}
    BY <1>2 DEF TypeInv, TaskOK, Locked
  <2> QED BY <1>2, <2>1, <2>2, MoveKeepsTypeInv DEF TypeInv, TypeOK
<1>3. ASSUME NEW a \in Agents, Accept(w, c, a) PROVE TypeInv'
  <2> DEFINE t == [Idle EXCEPT !.pc = "busyRead", !.call = c, !.agent = a]
  <2>1. t \in Task /\ TaskOK(t) /\ t.pc # "commit"
    BY IdleType DEF Idle, Task, TaskOK
  <2> QED BY <1>2, <1>3, <2>1 DEF Accept
<1>4. ASSUME NEW a \in Agents, Decline(w, c, a) PROVE TypeInv'
  <2> DEFINE t == [Idle EXCEPT !.pc = "advance", !.todo = {c}, !.agent = a]
  <2>1. t \in Task /\ TaskOK(t) /\ t.pc # "commit"
    BY IdleType DEF Idle, Task, TaskOK
  <2>2. presence' = presence /\ offer' = offer /\ up' = up /\ Goto(w, t)
    BY <1>4 DEF Decline
  <2> QED BY <2>1, <2>2, MoveKeepsTypeInv DEF TypeInv, TypeOK
<1>5. ASSUME NEW acw \in {0, AcwTime}, Release(w, c, acw) PROVE TypeInv'
  <2> DEFINE t == [Idle EXCEPT !.pc = "freeCall", !.call = c, !.acw = acw]
  <2>1. t \in Task /\ TaskOK(t) /\ t.pc # "commit"
    BY IdleType, RoutingAssumption DEF Idle, Task, TaskOK
  <2> QED BY <1>2, <1>5, <2>1 DEF Release
<1> QED BY <1>1, <1>3, <1>4, <1>5

LEMMA WritesKeepTypeInv ==
  ASSUME TypeInv, NEW w \in Workers,
         \/ SetWrite(w) \/ ExtendWrite(w) \/ FreeWrite(w) \/ BusyWrite(w) \/ Park(w)
  PROVE  TypeInv'
<1> DEFINE u == task[w]
<1>0. u \in Task /\ TaskOK(u)
  BY DEF TypeInv, TypeOK
<1>1. ASSUME NEW a \in Agents, NEW p \in Presence, Write(a, p),
             offer' = offer, up' = up,
             NEW t \in Task, TaskOK(t), t.pc # "commit", Goto(w, t)
      PROVE  TypeInv'
  <2>1. presence' \in [Agents -> Presence]
    BY <1>1, WriteType DEF TypeInv, TypeOK
  <2> QED BY <1>1, <2>1, MoveKeepsTypeInv DEF TypeInv, TypeOK
<1>2. CASE SetWrite(w)
  <2>1. u.agent \in Agents
    BY <1>0, <1>2 DEF SetWrite, TaskOK
  <2>2. Enter(presence[u.agent], u.to, None) \in Presence
    BY <1>0, <2>1, EnterType DEF TypeInv, TypeOK, Task
  <2> QED BY <1>1, <1>2, <2>1, <2>2, IdleType, IdleOK DEF SetWrite
<1>3. CASE ExtendWrite(w)
  <2>1. u.agent \in Agents
    BY <1>0, <1>3 DEF ExtendWrite, TaskOK
  <2>2. [presence[u.agent] EXCEPT !.acwUntil = u.until] \in Presence
    BY <1>0, <2>1 DEF TypeInv, TypeOK, Task, Presence
  <2> QED BY <1>1, <1>3, <2>1, <2>2, IdleType, IdleOK DEF ExtendWrite
<1>4. CASE FreeWrite(w)
  <2>1. u.agent \in Agents
    BY <1>0, <1>4 DEF FreeWrite, TaskOK
  <2>2. Freed(presence[u.agent], u.acw) \in Presence
    BY <1>0, <2>1, FreedType DEF TypeInv, TypeOK, Task
  <2> QED BY <1>1, <1>4, <2>1, <2>2, IdleType, IdleOK DEF FreeWrite
<1>5. CASE BusyWrite(w)
  <2>1. u.agent \in Agents /\ u.call \in Calls
    BY <1>0, <1>5 DEF BusyWrite, TaskOK
  <2>2. Enter(presence[u.agent], "busy", u.call) \in Presence
    BY <1>0, <2>1, EnterType DEF TypeInv, TypeOK, Task
  <2> QED BY <1>1, <1>5, <2>1, <2>2, IdleType, IdleOK DEF BusyWrite
<1>6. CASE Park(w)
  <2>1. u.cancelled \in Agents
    BY <1>0, <1>6 DEF Park, TaskOK
  <2>2. Enter(presence[u.cancelled], "not_ready", None) \in Presence
    BY <1>0, <2>1, EnterType DEF TypeInv, TypeOK, Task
  <2>3. AfterRona(u) \in Task /\ TaskOK(AfterRona(u)) /\ AfterRona(u).pc # "commit"
    BY <1>0, ContinueType, ContinueOK DEF AfterRona, Task, TaskOK
  <2> QED BY <1>1, <1>6, <2>1, <2>2, <2>3 DEF Park
<1> QED BY <1>2, <1>3, <1>4, <1>5, <1>6

LEMMA LoopStepsKeepTypeInv ==
  ASSUME TypeInv, NEW w \in Workers,
         \/ BusyRead(w) \/ Mine(w) \/ AdvanceSkip(w) \/ Missed(w) \/ Nobody(w) \/ Expire(w)
  PROVE  TypeInv'
<1> DEFINE u == task[w]
<1>0. u \in Task /\ TaskOK(u)
  BY DEF TypeInv, TypeOK
<1>1. ASSUME presence' = presence, offer' = offer, up' = up,
             NEW t \in Task, TaskOK(t), t.pc # "commit", Goto(w, t)
      PROVE  TypeInv'
  BY <1>1, MoveKeepsTypeInv DEF TypeInv, TypeOK
<1>2. ASSUME presence' = presence, offer' = offer, up' = up,
             NEW t \in Task, Goto(w, Continue(t))
      PROVE  TypeInv'
  BY <1>1, <1>2, ContinueType, ContinueOK
<1>3. CASE BusyRead(w)
  <2>1. [u EXCEPT !.pc = "busyWrite"] \in Task /\ TaskOK([u EXCEPT !.pc = "busyWrite"])
    BY <1>0, <1>3 DEF BusyRead, Task, TaskOK
  <2>2. [u EXCEPT !.pc = "busyWrite"].pc # "commit"
    BY <1>0 DEF Task
  <2>3. Goto(w, Idle) \/ Goto(w, [u EXCEPT !.pc = "busyWrite"])
    BY <1>3 DEF BusyRead, Goto
  <2> QED BY <1>1, <1>3, <2>1, <2>2, <2>3, IdleType, IdleOK DEF BusyRead
<1>4. CASE Mine(w)
  <2>1. PICK a \in u.gone :
          Goto(w, Continue([u EXCEPT !.agent = a, !.gone = @ \ {a},
                                     !.todo = {c \in Calls : offer[c].current = a}]))
    BY <1>4 DEF Mine
  <2>2. [u EXCEPT !.agent = a, !.gone = @ \ {a},
                  !.todo = {c \in Calls : offer[c].current = a}] \in Task
    BY <1>0 DEF Task
  <2> QED BY <1>2, <1>4, <2>1, <2>2 DEF Mine
<1>5. CASE AdvanceSkip(w)
  <2>1. PICK c \in u.todo : Goto(w, Continue([u EXCEPT !.todo = @ \ {c}]))
    BY <1>5 DEF AdvanceSkip
  <2>2. [u EXCEPT !.todo = @ \ {c}] \in Task
    BY <1>0 DEF Task
  <2> QED BY <1>2, <1>5, <2>1, <2>2 DEF AdvanceSkip
<1>6. CASE Missed(w)
  <2>1. [u EXCEPT !.pc = "park"] \in Task /\ TaskOK([u EXCEPT !.pc = "park"])
    BY <1>0, <1>6 DEF Missed, Task, TaskOK
  <2>2. AfterRona(u) \in Task /\ TaskOK(AfterRona(u)) /\ AfterRona(u).pc # "commit"
    BY <1>0, ContinueType, ContinueOK DEF AfterRona, Task, TaskOK
  <2>3. [u EXCEPT !.pc = "park"].pc # "commit"
    BY <1>0 DEF Task
  <2>4. Goto(w, AfterRona(u)) \/ Goto(w, [u EXCEPT !.pc = "park"])
    BY <1>6 DEF Missed
  <2> QED BY <1>1, <1>6, <2>1, <2>2, <2>3, <2>4 DEF Missed
<1>7. CASE Nobody(w)
  BY <1>0, <1>2, <1>7 DEF Nobody
<1>8. CASE Expire(w)
  <2> DEFINE t == [Idle EXCEPT !.todo = {c \in Calls : offer[c].ringUntil = 0}, !.rona = TRUE]
  <2>1. t \in Task
    BY IdleType DEF Idle, Task
  <2>2. Goto(w, Continue(t))
    BY <1>8 DEF Expire
  <2> HIDE DEF t
  <2> QED BY <1>2, <1>8, <2>1, <2>2 DEF Expire
<1> QED BY <1>3, <1>4, <1>5, <1>6, <1>7, <1>8

LEMMA SweepsKeepTypeInv ==
  ASSUME TypeInv, NEW w \in Workers, FreeCall(w) \/ TickStart(w) \/ Wrap(w)
  PROVE  TypeInv'
<1>0. task[w] \in Task /\ TaskOK(task[w])
  BY DEF TypeInv, TypeOK
<1>1. CASE FreeCall(w)
  <2>1. \A a \in Agents : Freed(presence[a], task[w].acw) \in Presence
    BY <1>0, FreedType DEF TypeInv, TypeOK, Task
  <2>2. presence' \in [Agents -> Presence]
    BY <1>1, <2>1 DEF FreeCall, TypeInv, TypeOK
  <2> QED BY <1>1, <2>2, IdleType, IdleOK, MoveKeepsTypeInv DEF FreeCall, TypeInv, TypeOK
<1>2. CASE TickStart(w)
  <2>1. PICK gone \in SUBSET Agents :
          /\ presence' = [a \in Agents |-> IF a \in gone THEN Offline ELSE presence[a]]
          /\ Goto(w, Continue([Idle EXCEPT !.gone = gone, !.sweeping = TRUE]))
    BY <1>2 DEF TickStart
  <2>2. [Idle EXCEPT !.gone = gone, !.sweeping = TRUE] \in Task
    BY IdleType DEF Idle, Task
  <2>3. Offline \in Presence
    BY DEF Offline, Presence, Timer
  <2>4. presence' \in [Agents -> Presence]
    BY <2>1, <2>3 DEF TypeInv, TypeOK
  <2> QED BY <1>2, <2>1, <2>2, <2>4, ContinueType, ContinueOK, MoveKeepsTypeInv
          DEF TickStart, TypeInv, TypeOK
<1>3. CASE Wrap(w)
  <2>1. \A a \in Agents : Enter(presence[a], "ready", None) \in Presence
    BY EnterType DEF TypeInv, TypeOK
  <2>2. presence' \in [Agents -> Presence]
    BY <1>3, <2>1 DEF Wrap, TypeInv, TypeOK
  <2>3. [Idle EXCEPT !.pc = "expire"] \in Task /\ TaskOK([Idle EXCEPT !.pc = "expire"])
        /\ [Idle EXCEPT !.pc = "expire"].pc # "commit"
    BY IdleType DEF Idle, Task, TaskOK
  <2> QED BY <1>3, <2>2, <2>3, MoveKeepsTypeInv DEF Wrap, TypeInv, TypeOK
<1> QED BY <1>1, <1>2, <1>3

LEMMA LockKeepsTypeInv ==
  ASSUME TypeInv, NEW w \in Workers, AdvanceLock(w)
  PROVE  TypeInv'
<1>0. task[w] \in Task /\ TaskOK(task[w])
  BY DEF TypeInv, TypeOK
<1>1. PICK c \in task[w].todo, gaveUp \in BOOLEAN, relax \in BOOLEAN, n \in Agents \cup {None} :
        /\ Present(c) /\ ~Locked(c)
        /\ Goto(w, [task[w] EXCEPT !.pc = "commit", !.call = c, !.todo = @ \ {c},
                                   !.gaveUp = gaveUp, !.relax = relax, !.next = n])
  <2>1. PICK c \in task[w].todo :
          LET o == offer[c]
              gaveUp == o.giveUpAt = 0
              relax == ~gaveUp /\ o.relaxAt = 0
              pool == IF gaveUp THEN {}
                      ELSE Candidates(c, Tried(o), Skills(o.req, o.relaxed \/ relax))
          IN  /\ Present(c) /\ ~Locked(c)
              /\ \E n \in (IF pool = {} THEN {None} ELSE pool) :
                   Goto(w, [task[w] EXCEPT !.pc = "commit", !.call = c, !.todo = @ \ {c},
                                           !.gaveUp = gaveUp, !.relax = relax, !.next = n])
    BY DEF AdvanceLock
  <2>2. c \in Calls
    BY <1>0 DEF Task
  <2>3. ASSUME Present(c)
        PROVE  \A tried, skills : Candidates(c, tried, skills) \subseteq Agents
    BY <2>2, <2>3, RoutingAssumption DEF Candidates, Present, TypeInv, TypeOK, Offer, Request
  <2> QED BY <2>1, <2>3
<1> DEFINE t == [task[w] EXCEPT !.pc = "commit", !.call = c, !.todo = @ \ {c},
                                !.gaveUp = gaveUp, !.relax = relax, !.next = n]
<1>2. t \in Task /\ t.pc = "commit" /\ t.call = c /\ c \in Calls
  BY <1>0 DEF Task
<1>3. TaskOK(t)
  BY <1>2 DEF TaskOK
<1>4. presence' = presence /\ offer' = offer /\ up' = up
  BY DEF AdvanceLock
<1> HIDE DEF t
<1>5. /\ task' \in [Workers -> Task]
      /\ task'[w] = t
      /\ \A v \in Workers \ {w} : task'[v] = task[v]
  BY <1>1, <1>2, GotoType DEF TypeInv, TypeOK, t
<1>6. TypeOK'
  BY <1>4, <1>5 DEF TypeInv, TypeOK
<1>7. (\A v \in Workers : TaskOK(task[v]))'
  BY <1>3, <1>5 DEF TypeInv, TaskOK
<1>8. RowLock'
  BY <1>1, <1>2, <1>4, <1>5 DEF TypeInv, RowLock, Present, Locked
<1> QED BY <1>6, <1>7, <1>8 DEF TypeInv

\* What a commit does to the handler and to the tables.
LEMMA CommitEffect ==
  ASSUME TypeInv, NEW w \in Workers, AdvanceCommit(w)
  PROVE  /\ task[w].call \in Calls /\ Present(task[w].call)
         /\ offer' \in [Calls -> Offer]
         /\ offer'[task[w].call] = Advanced(offer[task[w].call], task[w])
         /\ \A d \in Calls \ {task[w].call} : offer'[d] = offer[d]
         /\ \E t \in Task :
              /\ Goto(w, t) /\ TaskOK(t) /\ t.pc \notin {"commit", "busyWrite", "extendWrite"}
              /\ t.closed => offer'[task[w].call] = NoRow
<1> DEFINE u == task[w]
           o == offer[u.call]
           row == Advanced(o, u)
           done == [u EXCEPT !.cancelled = o.current, !.closed = row = NoRow]
<1>1. u \in Task /\ TaskOK(u) /\ u.pc = "commit" /\ u.call \in Calls /\ Present(u.call)
  BY DEF TypeInv, TypeOK, TaskOK, RowLock, AdvanceCommit
<1>2. o \in Offer /\ o.req # None
  BY <1>1 DEF TypeInv, TypeOK, Present
<1>3. row \in Offer
  BY <1>1, <1>2, AdvancedType
<1>4. presence' = presence /\ up' = up /\ offer' = [offer EXCEPT ![u.call] = row]
  BY DEF AdvanceCommit
<1>5. /\ offer' \in [Calls -> Offer]
      /\ offer'[u.call] = row
      /\ \A d \in Calls \ {u.call} : offer'[d] = offer[d]
  BY <1>1, <1>3, <1>4, OfferType DEF TypeInv, TypeOK
<1>6. done \in Task /\ done.cancelled = o.current /\ (done.closed <=> row = NoRow)
  BY <1>1, <1>2 DEF Task, Offer
<1>7. Goto(w, IF o.current # None /\ u.rona THEN [done EXCEPT !.pc = "missed"]
              ELSE IF row = NoRow THEN [done EXCEPT !.pc = "nobody"]
              ELSE Continue(done))
  BY DEF AdvanceCommit
<1> DEFINE Good(t) ==
      /\ t \in Task /\ TaskOK(t) /\ t.pc \notin {"commit", "busyWrite", "extendWrite"}
      /\ t.closed => row = NoRow
<1>8. o.current # None => Good([done EXCEPT !.pc = "missed"])
  <2> HIDE DEF done, row
  <2> QED BY <1>2, <1>6 DEF Task, TaskOK, Offer
<1>9. row = NoRow => Good([done EXCEPT !.pc = "nobody"])
  <2> HIDE DEF done, row
  <2> QED BY <1>6 DEF Task, TaskOK
<1>10. Good(Continue(done))
  <2> HIDE DEF done, row
  <2> QED BY <1>6, ContinueType, ContinueOK
<1>11. \E t : Good(t) /\ Goto(w, t)
  <2> HIDE DEF done, row, Good
  <2> QED BY <1>7, <1>8, <1>9, <1>10
<1> HIDE DEF done
<1> QED BY <1>1, <1>5, <1>11

LEMMA CommitKeepsTypeInv ==
  ASSUME TypeInv, NEW w \in Workers, AdvanceCommit(w)
  PROVE  TypeInv'
<1>1. PICK t \in Task : Goto(w, t) /\ TaskOK(t) /\ t.pc # "commit"
  BY CommitEffect
<1>2. presence' = presence /\ up' = up
  BY DEF AdvanceCommit
<1>3. \A v \in Workers \ {w} : task[v].pc = "commit" =>
        task[v].call \in Calls /\ task[v].call # task[w].call
  BY DEF TypeInv, TaskOK, RowLock, AdvanceCommit
<1>4. \A v \in Workers \ {w} : task[v].pc = "commit" => offer'[task[v].call] = offer[task[v].call]
  BY <1>3, CommitEffect
<1> QED BY <1>1, <1>2, <1>4, CommitEffect, MoveKeepsTypeInv DEF TypeInv, TypeOK

\* The clock changes deadlines only.
LEMMA ClockEffect ==
  ASSUME TypeInv, Clock
  PROVE  /\ TypeOK'
         /\ \A c \in Calls :
              /\ offer'[c] = [offer[c] EXCEPT !.ringUntil = Down(@), !.giveUpAt = Down(@),
                                              !.relaxAt = Down(@)]
              /\ offer'[c].req = offer[c].req
         /\ \A w \in Workers :
              /\ task'[w] = [task[w] EXCEPT !.until = Down(@)]
              /\ task'[w].pc = task[w].pc
              /\ task'[w].call = task[w].call
<1>1. \A a \in Agents : [presence[a] EXCEPT !.acwUntil = Down(@)] \in Presence
  BY DownType DEF TypeInv, TypeOK, Presence
<1>2. \A c \in Calls :
        LET o == [offer[c] EXCEPT !.ringUntil = Down(@), !.giveUpAt = Down(@), !.relaxAt = Down(@)]
        IN  o \in Offer /\ o.req = offer[c].req
  BY DownType DEF TypeInv, TypeOK, Offer
<1>3. \A w \in Workers :
        LET t == [task[w] EXCEPT !.until = Down(@)]
        IN  t \in Task /\ t.pc = task[w].pc /\ t.call = task[w].call
  BY DownType DEF TypeInv, TypeOK, Task
<1> QED BY <1>1, <1>2, <1>3 DEF Clock, TypeInv, TypeOK

LEMMA ClockKeepsTypeInv ==
  ASSUME TypeInv, Clock
  PROVE  TypeInv'
<1>1. \A w \in Workers : TaskOK([task[w] EXCEPT !.until = Down(@)])
  <2> SUFFICES ASSUME NEW w \in Workers
               PROVE  TaskOK([task[w] EXCEPT !.until = Down(@)])
    OBVIOUS
  <2>1. task[w] \in Task /\ TaskOK(task[w])
    BY DEF TypeInv, TypeOK
  <2>2. task[w].until # NoTimer => Down(task[w].until) # NoTimer
    BY <2>1, DownType DEF Task
  <2> QED BY <2>1, <2>2 DEF Task, TaskOK
<1>2. (\A w \in Workers : TaskOK(task[w]))'
  BY <1>1, ClockEffect
<1>3. \A w \in Workers : task[w].pc = "commit" =>
        task[w].call \in Calls /\ offer'[task[w].call].req = offer[task[w].call].req
  BY ClockEffect DEF TypeInv, TaskOK
<1>4. RowLock'
  <2> SUFFICES ASSUME NEW w \in Workers, task'[w].pc = "commit"
               PROVE  /\ offer'[task'[w].call].req # None
                      /\ \A v \in Workers :
                           task'[v].pc = "commit" /\ task'[v].call = task'[w].call => v = w
    BY DEF RowLock, Present
  <2>1. task[w].pc = "commit" /\ task'[w].call = task[w].call
    BY ClockEffect
  <2>2. \A v \in Workers : task'[v].pc = task[v].pc /\ task'[v].call = task[v].call
    BY ClockEffect
  <2> QED BY <1>3, <2>1, <2>2 DEF TypeInv, RowLock, Present
<1> QED BY <1>2, <1>4, ClockEffect DEF TypeInv

LEMMA CrashKeepsTypeInv ==
  ASSUME TypeInv, NEW i \in Instances, Crash(i)
  PROVE  TypeInv'
<1>1. \A w \in Workers : task'[w] \in {Idle, task[w]}
  BY DEF Crash
<1>2. TypeOK'
  BY <1>1, IdleType DEF Crash, TypeInv, TypeOK
<1>3. (\A w \in Workers : TaskOK(task[w]))'
  BY <1>1, IdleOK DEF TypeInv
<1>4. RowLock'
  BY <1>1, IdleOK DEF Crash, TypeInv, RowLock, Present
<1> QED BY <1>2, <1>3, <1>4 DEF TypeInv

LEMMA InitTypeInv == Init => TypeInv
<1> SUFFICES ASSUME Init PROVE TypeInv
  OBVIOUS
<1>1. Offline \in Presence
  BY DEF Offline, Presence, Timer
<1>2. TypeOK
  BY <1>1, NoRowType, IdleType DEF Init, TypeOK
<1>3. \A w \in Workers : TaskOK(task[w])
  BY IdleOK DEF Init
<1>4. RowLock
  BY IdleOK DEF Init, RowLock
<1> QED BY <1>2, <1>3, <1>4 DEF TypeInv

LEMMA NextTypeInv == TypeInv /\ [Next]_vars => TypeInv'
<1> SUFFICES ASSUME TypeInv, [Next]_vars PROVE TypeInv'
  OBVIOUS
<1>1. ASSUME NEW a \in Agents, NEW i \in Instances, Connect(a, i) PROVE TypeInv'
  BY <1>1, ConnectKeepsTypeInv
<1>2. ASSUME NEW w \in Handlers, Arrival(w) PROVE TypeInv'
  <2>1. w \in Workers
    BY DEF Workers
  <2>2. ASSUME NEW a \in Agents, Disconnect(w, a) \/ ExtendAcw(w, a) PROVE TypeInv'
    BY <2>1, <2>2, PresenceStepsKeepTypeInv
  <2>3. ASSUME NEW a \in Agents, NEW s \in {"ready", "not_ready"}, SetState(w, a, s) PROVE TypeInv'
    BY <2>1, <2>3, PresenceStepsKeepTypeInv
  <2>4. ASSUME NEW a \in Agents, NEW acw \in {0, AcwTime}, FreeUser(w, a, acw) PROVE TypeInv'
    BY <2>1, <2>4, PresenceStepsKeepTypeInv
  <2>5. ASSUME NEW a \in Agents, NEW c \in Calls, Busy(w, c, a) PROVE TypeInv'
    BY <2>1, <2>5, BusyKeepsTypeInv
  <2>6. ASSUME NEW c \in Calls,
               \/ \E r \in Requests : MakeOffer(w, c, r)
               \/ \E a \in Agents : Accept(w, c, a) \/ Decline(w, c, a)
               \/ \E acw \in {0, AcwTime} : Release(w, c, acw)
        PROVE TypeInv'
    BY <2>1, <2>6, RingStepsKeepTypeInv
  <2> QED BY <1>2, <2>2, <2>3, <2>4, <2>5, <2>6 DEF Arrival
<1>3. ASSUME NEW w \in Tickers, TickStart(w) PROVE TypeInv'
  BY <1>3, SweepsKeepTypeInv DEF Workers
<1>4. ASSUME NEW w \in Workers, Step(w) PROVE TypeInv'
  BY <1>4, WritesKeepTypeInv, LoopStepsKeepTypeInv, SweepsKeepTypeInv, LockKeepsTypeInv,
     CommitKeepsTypeInv DEF Step
<1>5. ASSUME NEW i \in Instances, Crash(i) PROVE TypeInv'
  BY <1>5, CrashKeepsTypeInv
<1>6. CASE Clock
  BY <1>6, ClockKeepsTypeInv
<1>7. CASE UNCHANGED vars
  BY <1>7 DEF vars, TypeInv, TypeOK, RowLock, Present, TaskOK
<1> QED BY <1>1, <1>2, <1>3, <1>4, <1>5, <1>6, <1>7 DEF Next

\* Every row and every handler has its type, and a transaction owns the row it is
\* about to rewrite: whatever handlers overlap and whichever process dies.
THEOREM TypeInvariant == Spec => []TypeInv
  BY InitTypeInv, NextTypeInv, PTL DEF Spec

\* The table agent_presence and ring_offer hold only rows of their type.
THEOREM TypeCorrect == Spec => []TypeOK
<1>1. TypeInv => TypeOK
  BY DEF TypeInv
<1> QED BY <1>1, TypeInvariant, PTL

-----------------------------------------------------------------------------
(***************************************************************************)
(* The shape of presence rows.                                             *)
(***************************************************************************)

Shaped(p) ==
  /\ p.state \in {"offline", "ready", "not_ready"} => p.call = None
  /\ p.state = "busy" => p.call # None
  /\ p.state = "acw" => p.acwUntil # NoTimer

LEMMA ShapeIsShaped == PresenceShape <=> \A a \in Agents : Shaped(presence[a])
  BY DEF PresenceShape, Shaped

LEMMA EnterShaped ==
  ASSUME NEW p \in Presence, NEW st \in {"ready", "not_ready"}
  PROVE  Shaped(Enter(p, st, None))
  BY EnterType DEF Shaped

LEMMA FreedShaped ==
  ASSUME NEW p \in Presence, NEW acw \in Nat
  PROVE  Shaped(Freed(p, acw))
  BY FreedType DEF Shaped

\* A write of one row, which does nothing when the row is gone.
LEMMA WriteShaped ==
  ASSUME presence \in [Agents -> Presence], PresenceShape,
         NEW a \in Agents, NEW p, Shaped(p), Write(a, p)
  PROVE  PresenceShape'
<1>1. \A b \in Agents : presence'[b] = presence[b] \/ presence'[b] = p
  BY DEF Write
<1>2. \A b \in Agents : Shaped(presence[b])
  BY DEF PresenceShape, Shaped
<1>3. \A b \in Agents : Shaped(presence'[b])
  BY <1>1, <1>2
<1> QED BY <1>3 DEF PresenceShape, Shaped

\* A step that leaves every row alone or gives it the shape.
LEMMA RowsShaped ==
  ASSUME PresenceShape,
         \A a \in Agents : presence'[a] = presence[a] \/ Shaped(presence'[a])
  PROVE  PresenceShape'
<1>1. \A a \in Agents : Shaped(presence[a])
  BY DEF PresenceShape, Shaped
<1>2. \A a \in Agents : Shaped(presence'[a])
  BY <1>1
<1> QED BY <1>2 DEF PresenceShape, Shaped

LEMMA StepKeepsShape ==
  ASSUME TypeInv, PresenceShape, NEW w \in Workers, Step(w)
  PROVE  PresenceShape'
<1> DEFINE u == task[w]
<1>0. u \in Task /\ TaskOK(u) /\ presence \in [Agents -> Presence]
  BY DEF TypeInv, TypeOK
<1>1. CASE SetWrite(w)
  <2>1. u.agent \in Agents /\ u.to \in {"ready", "not_ready"}
    BY <1>0, <1>1 DEF SetWrite, TaskOK, Task
  <2> QED BY <1>0, <1>1, <2>1, EnterShaped, WriteShaped DEF SetWrite
<1>2. CASE ExtendWrite(w)
  <2> DEFINE p == [presence[u.agent] EXCEPT !.acwUntil = u.until]
  <2>1. u.agent \in Agents /\ u.until # NoTimer
    BY <1>0, <1>2 DEF ExtendWrite, TaskOK
  <2>2. Shaped(p)
    BY <1>0, <2>1 DEF PresenceShape, Shaped, Presence
  <2> QED BY <1>0, <1>2, <2>1, <2>2, WriteShaped DEF ExtendWrite
<1>3. CASE FreeWrite(w)
  <2>1. u.agent \in Agents /\ u.acw \in Nat
    BY <1>0, <1>3 DEF FreeWrite, TaskOK, Task
  <2> QED BY <1>0, <1>3, <2>1, FreedShaped, WriteShaped DEF FreeWrite
<1>4. CASE BusyWrite(w)
  <2> DEFINE p == Enter(presence[u.agent], "busy", u.call)
  <2>1. u.agent \in Agents /\ u.call \in Calls /\ u.call # None
    BY <1>0, <1>4, RoutingAssumption DEF BusyWrite, TaskOK
  <2>2. Shaped(p)
    BY <1>0, <2>1, EnterType DEF Shaped
  <2> QED BY <1>0, <1>4, <2>1, <2>2, WriteShaped DEF BusyWrite
<1>5. CASE Park(w)
  <2>1. u.cancelled \in Agents
    BY <1>0, <1>5 DEF Park, TaskOK
  <2> QED BY <1>0, <1>5, <2>1, EnterShaped, WriteShaped DEF Park
<1>6. CASE FreeCall(w)
  <2>1. u.acw \in Nat
    BY <1>0 DEF Task
  <2>2. \A a \in Agents : presence'[a] \in {presence[a], Freed(presence[a], u.acw)}
    BY <1>6 DEF FreeCall
  <2>3. \A a \in Agents : Shaped(Freed(presence[a], u.acw))
    BY <1>0, <2>1, FreedShaped
  <2> QED BY <2>2, <2>3, RowsShaped
<1>7. CASE Wrap(w)
  <2>1. \A a \in Agents : presence'[a] \in {presence[a], Enter(presence[a], "ready", None)}
    BY <1>7 DEF Wrap
  <2>2. \A a \in Agents : Shaped(Enter(presence[a], "ready", None))
    BY <1>0, EnterShaped
  <2> QED BY <2>1, <2>2, RowsShaped
<1>8. CASE \/ BusyRead(w) \/ Mine(w) \/ AdvanceSkip(w) \/ AdvanceLock(w)
           \/ AdvanceCommit(w) \/ Missed(w) \/ Nobody(w) \/ Expire(w)
  <2>1. presence' = presence
    BY <1>8 DEF BusyRead, Mine, AdvanceSkip, AdvanceLock, AdvanceCommit, Missed, Nobody, Expire
  <2> QED BY <2>1, RowsShaped
<1> QED BY <1>1, <1>2, <1>3, <1>4, <1>5, <1>6, <1>7, <1>8 DEF Step

LEMMA NextShape == TypeInv /\ PresenceShape /\ [Next]_vars => PresenceShape'
<1> SUFFICES ASSUME TypeInv, PresenceShape, [Next]_vars PROVE PresenceShape'
  OBVIOUS
<1>0. presence \in [Agents -> Presence] /\ Shaped(Offline)
  BY DEF TypeInv, TypeOK, Shaped, Offline
<1>1. ASSUME NEW a \in Agents, NEW i \in Instances, Connect(a, i) PROVE PresenceShape'
  <2>1. Shaped(presence[a])
    BY DEF PresenceShape, Shaped
  <2>2. Online(a) => Shaped([presence[a] EXCEPT !.home = i])
    BY <1>0, <2>1 DEF Shaped, Presence
  <2>3. Shaped([Offline EXCEPT !.state = "not_ready", !.home = i])
    BY DEF Shaped, Offline
  <2>4. \A b \in Agents : presence'[b] = presence[b] \/ Shaped(presence'[b])
    BY <1>0, <1>1, <2>2, <2>3 DEF Connect
  <2> QED BY <2>4, RowsShaped
<1>2. ASSUME NEW w \in Handlers, Arrival(w) PROVE PresenceShape'
  <2>1. presence' = presence \/ \E a \in Agents : presence' = [presence EXCEPT ![a] = Offline]
    BY <1>2 DEF Arrival, Disconnect, SetState, ExtendAcw, FreeUser, Busy, Accept, Decline,
                MakeOffer, Release
  <2>2. \A b \in Agents : presence'[b] = presence[b] \/ presence'[b] = Offline
    BY <1>0, <2>1
  <2> QED BY <1>0, <2>2, RowsShaped
<1>3. ASSUME NEW w \in Tickers, TickStart(w) PROVE PresenceShape'
  <2>1. \A b \in Agents : presence'[b] = presence[b] \/ presence'[b] = Offline
    BY <1>3 DEF TickStart
  <2> QED BY <1>0, <2>1, RowsShaped
<1>4. ASSUME NEW w \in Workers, Step(w) PROVE PresenceShape'
  BY <1>4, StepKeepsShape
<1>5. ASSUME NEW i \in Instances, Crash(i) PROVE PresenceShape'
  BY <1>5, RowsShaped DEF Crash
<1>6. CASE Clock
  <2>1. \A a \in Agents : presence'[a] = [presence[a] EXCEPT !.acwUntil = Down(@)]
    BY <1>6 DEF Clock
  <2>2. \A a \in Agents : Shaped(presence[a])
    BY DEF PresenceShape, Shaped
  <2>3. \A a \in Agents : Shaped([presence[a] EXCEPT !.acwUntil = Down(@)])
    BY <1>0, <2>2, DownType DEF Shaped, Presence
  <2> QED BY <2>1, <2>3, RowsShaped
<1>7. CASE UNCHANGED vars
  BY <1>7, RowsShaped DEF vars
<1> QED BY <1>1, <1>2, <1>3, <1>4, <1>5, <1>6, <1>7 DEF Next

\* A desk row always has the shape its readers rely on, although setState, free,
\* extendAcw, busy and RONA write it from reads that may be stale: a ready agent has
\* no call, a busy one has, a wrap-up has a deadline for the tick to end it.
THEOREM PresenceShapeHolds == Spec => []PresenceShape
<1>1. Init => PresenceShape
  BY DEF Init, PresenceShape, Offline
<1> QED BY <1>1, NextShape, TypeInvariant, PTL DEF Spec

-----------------------------------------------------------------------------
(***************************************************************************)
(* The ring discipline.  The candidate is chosen one statement before the  *)
(* row is written, so the invariant also says what a transaction that has  *)
(* chosen knows: its row cannot change meanwhile.                          *)
(***************************************************************************)

\* What RingDiscipline and NoRingPastDeadline say of one row.
RowOK(o) ==
  /\ o.current # None =>
       /\ o.current \in o.req.members \ o.tried
       /\ Skills(o.req, o.relaxed) \subseteq Holds[o.current]
       /\ o.ringUntil # NoTimer
  /\ o.current = None /\ o.ringUntil # NoTimer =>
       o.relaxAt # NoTimer /\ o.ringUntil <= o.relaxAt
  /\ o.giveUpAt # NoTimer => o.ringUntil <= o.giveUpAt

\* The choice a transaction is about to commit, relative to its row.
ChoiceOK(t, o) ==
  t.next # None =>
    /\ t.next \in o.req.members \ Tried(o)
    /\ Skills(o.req, o.relaxed \/ t.relax) \subseteq Holds[t.next]

RingInv ==
  /\ \A c \in Calls : RowOK(offer[c])
  /\ \A w \in Workers : task[w].pc = "commit" => ChoiceOK(task[w], offer[task[w].call])

LEMMA RingInvImplies == RingInv => RingDiscipline /\ NoRingPastDeadline
  BY DEF RingInv, RowOK, RingDiscipline, NoRingPastDeadline

LEMMA NoRowOK == RowOK(NoRow)
  BY DEF RowOK, NoRow, NoTimer

LEMMA NewRowOK ==
  ASSUME NEW r \in Requests
  PROVE  RowOK(NewRow(r))
<1>1. r.giveUpAfter \in Nat
  BY RoutingAssumption DEF Request
<1>2. /\ NewRow(r).current = None
      /\ NewRow(r).ringUntil = NoTimer
      /\ NewRow(r).giveUpAt = IF r.giveUpAfter > 0 THEN r.giveUpAfter ELSE NoTimer
  BY DEF NewRow, NoRow
<1>3. NewRow(r).ringUntil <= NewRow(r).giveUpAt
  BY <1>1, <1>2 DEF NoTimer
<1> QED BY <1>2, <1>3 DEF RowOK

\* The row a transaction writes is in order if its choice was.
LEMMA AdvancedOK ==
  ASSUME NEW o \in Offer, o.req # None, NEW t \in Task, ChoiceOK(t, o)
  PROVE  RowOK(Advanced(o, t))
<1> DEFINE r == [o EXCEPT !.tried = Tried(o),
                          !.relaxAt = IF t.relax THEN NoTimer ELSE @,
                          !.relaxed = @ \/ t.relax]
<1>1. /\ r \in Offer /\ r.req = o.req /\ r.tried = Tried(o) /\ r.relaxed = (o.relaxed \/ t.relax)
      /\ r.giveUpAt \in Timer /\ r.relaxAt \in Timer
  BY DEF Offer, Task, Tried, Timer
<1>2. r.req.ring \in Timer /\ r.req.ring # NoTimer
  BY <1>1, RoutingAssumption DEF Offer, Request, Timer, NoTimer
<1>3. Advanced(o, t) = IF t.next # None
        THEN [r EXCEPT !.current = t.next, !.ringUntil = Earliest(r.req.ring, r.giveUpAt)]
        ELSE IF ~t.gaveUp /\ r.relaxAt # NoTimer THEN Rested(r) ELSE NoRow
  BY DEF Advanced
<1> HIDE DEF r
<1>4. ASSUME t.next # None
      PROVE  RowOK([r EXCEPT !.current = t.next, !.ringUntil = Earliest(r.req.ring, r.giveUpAt)])
  <2> DEFINE until == Earliest(r.req.ring, r.giveUpAt)
             x == [r EXCEPT !.current = t.next, !.ringUntil = until]
  <2>1. until # NoTimer /\ (r.giveUpAt # NoTimer => until <= r.giveUpAt)
    BY <1>1, <1>2, EarliestType
  <2> HIDE DEF until
  <2>2. /\ x.current = t.next /\ x.ringUntil = until /\ x.req = o.req /\ x.tried = Tried(o)
        /\ x.relaxed = (o.relaxed \/ t.relax) /\ x.giveUpAt = r.giveUpAt
    BY <1>1 DEF Offer
  <2> HIDE DEF x
  <2> QED BY <1>4, <2>1, <2>2 DEF RowOK, ChoiceOK, x, until
<1>5. ASSUME r.relaxAt # NoTimer
      PROVE  RowOK(Rested(r))
  <2> DEFINE until == Earliest(r.relaxAt, r.giveUpAt)
             x == [r EXCEPT !.current = None, !.ringUntil = until]
  <2>1. until <= r.relaxAt /\ (r.giveUpAt # NoTimer => until <= r.giveUpAt)
    BY <1>1, <1>5, EarliestType
  <2> HIDE DEF until
  <2>2. /\ x.current = None /\ x.ringUntil = until /\ x.relaxAt = r.relaxAt
        /\ x.giveUpAt = r.giveUpAt
    BY <1>1 DEF Offer
  <2>3. Rested(r) = x
    BY DEF Rested, until
  <2> HIDE DEF x
  <2> QED BY <1>5, <2>1, <2>2, <2>3 DEF RowOK
<1> QED BY <1>3, <1>4, <1>5, NoRowOK

\* The rows keep their order as time passes: deadlines meet, they never cross.
LEMMA DownOK ==
  ASSUME NEW o \in Offer, RowOK(o)
  PROVE  RowOK([o EXCEPT !.ringUntil = Down(@), !.giveUpAt = Down(@), !.relaxAt = Down(@)])
<1> DEFINE x == [o EXCEPT !.ringUntil = Down(@), !.giveUpAt = Down(@), !.relaxAt = Down(@)]
<1>1. /\ x.ringUntil = Down(o.ringUntil) /\ x.giveUpAt = Down(o.giveUpAt)
      /\ x.relaxAt = Down(o.relaxAt) /\ x.current = o.current /\ x.req = o.req
      /\ x.tried = o.tried /\ x.relaxed = o.relaxed
  BY DEF Offer
<1>2. o.ringUntil \in Timer /\ o.giveUpAt \in Timer /\ o.relaxAt \in Timer
  BY DEF Offer
<1> HIDE DEF x
<1>3. RowOK(x)
  BY <1>1, <1>2, DownType, DownMonotone DEF RowOK
<1> QED BY <1>3 DEF x

\* Only AdvanceLock takes a row lock; every other step of a handler ends without.
LEMMA NoNewLock ==
  ASSUME TypeInv, NEW w \in Workers, Arrival(w) \/ TickStart(w) \/ Step(w), ~AdvanceLock(w)
  PROVE  \A v \in Workers : task'[v] = task[v] \/ task'[v].pc # "commit"
<1>0. task[w] \in Task /\ task \in [Workers -> Task]
  BY DEF TypeInv, TypeOK
<1>1. ASSUME NEW t, Goto(w, t), t.pc # "commit"
      PROVE  \A v \in Workers : task'[v] = task[v] \/ task'[v].pc # "commit"
  BY <1>0, <1>1 DEF Goto
<1>2. ASSUME NEW t \in Task, Goto(w, Continue(t))
      PROVE  \A v \in Workers : task'[v] = task[v] \/ task'[v].pc # "commit"
  BY <1>1, <1>2, ContinueOK
<1>3. AfterRona(task[w]).pc # "commit"
  BY <1>0, ContinueOK DEF AfterRona, Task
<1>4. ASSUME NEW a \in Agents, Disconnect(w, a) \/ ExtendAcw(w, a)
      PROVE  \A v \in Workers : task'[v] = task[v] \/ task'[v].pc # "commit"
  BY <1>1, <1>4 DEF Disconnect, ExtendAcw, Idle
<1>5. ASSUME NEW a \in Agents, NEW s, NEW acw, SetState(w, a, s) \/ FreeUser(w, a, acw)
      PROVE  \A v \in Workers : task'[v] = task[v] \/ task'[v].pc # "commit"
  BY <1>1, <1>5 DEF SetState, FreeUser, Idle
<1>6. ASSUME NEW a \in Agents, NEW c \in Calls, Busy(w, c, a) \/ Accept(w, c, a) \/ Decline(w, c, a)
      PROVE  \A v \in Workers : task'[v] = task[v] \/ task'[v].pc # "commit"
  BY <1>1, <1>6 DEF Busy, Accept, Decline, Idle
<1>7. ASSUME NEW c \in Calls, NEW r, NEW acw, MakeOffer(w, c, r) \/ Release(w, c, acw)
      PROVE  \A v \in Workers : task'[v] = task[v] \/ task'[v].pc # "commit"
  BY <1>1, <1>7 DEF MakeOffer, Release, Idle
<1>8. CASE Arrival(w)
  BY <1>4, <1>5, <1>6, <1>7, <1>8 DEF Arrival
<1>9. CASE TickStart(w)
  <2>1. PICK gone \in SUBSET Agents :
          Goto(w, Continue([Idle EXCEPT !.gone = gone, !.sweeping = TRUE]))
    BY <1>9 DEF TickStart
  <2>2. [Idle EXCEPT !.gone = gone, !.sweeping = TRUE] \in Task
    BY IdleType DEF Idle, Task
  <2> QED BY <1>2, <2>1, <2>2
<1>10. CASE Step(w)
  <2>1. CASE SetWrite(w) \/ ExtendWrite(w) \/ FreeWrite(w) \/ BusyWrite(w) \/ FreeCall(w)
    BY <1>1, <2>1, IdleOK DEF SetWrite, ExtendWrite, FreeWrite, BusyWrite, FreeCall
  <2>2. CASE BusyRead(w)
    <3>1. [task[w] EXCEPT !.pc = "busyWrite"].pc # "commit"
      BY <1>0 DEF Task
    <3>2. Goto(w, Idle) \/ Goto(w, [task[w] EXCEPT !.pc = "busyWrite"])
      BY <2>2 DEF BusyRead
    <3> QED BY <1>1, <3>1, <3>2, IdleOK
  <2>3. CASE Mine(w)
    <3>1. PICK a \in task[w].gone :
            Goto(w, Continue([task[w] EXCEPT !.agent = a, !.gone = @ \ {a},
                                             !.todo = {c \in Calls : offer[c].current = a}]))
      BY <2>3 DEF Mine
    <3>2. [task[w] EXCEPT !.agent = a, !.gone = @ \ {a},
                          !.todo = {c \in Calls : offer[c].current = a}] \in Task
      BY <1>0 DEF Task
    <3> QED BY <1>2, <3>1, <3>2
  <2>4. CASE AdvanceSkip(w)
    <3>1. PICK c \in task[w].todo : Goto(w, Continue([task[w] EXCEPT !.todo = @ \ {c}]))
      BY <2>4 DEF AdvanceSkip
    <3>2. [task[w] EXCEPT !.todo = @ \ {c}] \in Task
      BY <1>0 DEF Task
    <3> QED BY <1>2, <3>1, <3>2
  <2>5. CASE AdvanceCommit(w)
    BY <1>1, <2>5, CommitEffect
  <2>6. CASE Missed(w)
    <3>1. [task[w] EXCEPT !.pc = "park"].pc # "commit"
      BY <1>0 DEF Task
    <3>2. Goto(w, AfterRona(task[w])) \/ Goto(w, [task[w] EXCEPT !.pc = "park"])
      BY <2>6 DEF Missed
    <3> QED BY <1>1, <1>3, <3>1, <3>2
  <2>7. CASE Park(w)
    BY <1>1, <1>3, <2>7 DEF Park
  <2>8. CASE Nobody(w)
    BY <1>0, <1>2, <2>8 DEF Nobody
  <2>9. CASE Wrap(w)
    BY <1>1, <2>9 DEF Wrap, Idle
  <2>10. CASE Expire(w)
    <3> DEFINE t == [Idle EXCEPT !.todo = {c \in Calls : offer[c].ringUntil = 0}, !.rona = TRUE]
    <3>1. t \in Task
      BY IdleType DEF Idle, Task
    <3>2. Goto(w, Continue(t))
      BY <2>10 DEF Expire
    <3> HIDE DEF t
    <3> QED BY <1>2, <3>1, <3>2
  <2> QED BY <1>10, <2>1, <2>2, <2>3, <2>4, <2>5, <2>6, <2>7, <2>8, <2>9, <2>10 DEF Step
<1> QED BY <1>8, <1>9, <1>10

\* A step that takes no lock and changes at most one row, not a locked one, into
\* another row that is in order.
LEMMA RowStepKeepsRingInv ==
  ASSUME TypeInv, RingInv,
         \A v \in Workers : task'[v] = task[v] \/ task'[v].pc # "commit",
         \A d \in Calls : offer'[d] = offer[d] \/ RowOK(offer'[d]),
         \A v \in Workers :
           task[v].pc = "commit" /\ task'[v] = task[v] =>
             offer'[task[v].call] = offer[task[v].call]
  PROVE  RingInv'
<1>1. \A d \in Calls : RowOK(offer'[d])
  BY DEF RingInv
<1>2. \A v \in Workers : task'[v].pc = "commit" => ChoiceOK(task'[v], offer'[task'[v].call])
  BY DEF RingInv
<1> QED BY <1>1, <1>2 DEF RingInv

LEMMA AdvanceLockKeepsRingInv ==
  ASSUME TypeInv, RingInv, NEW w \in Workers, AdvanceLock(w)
  PROVE  RingInv'
<1>0. task[w] \in Task
  BY DEF TypeInv, TypeOK
<1>1. PICK c \in task[w].todo :
        LET o == offer[c]
            gaveUp == o.giveUpAt = 0
            relax == ~gaveUp /\ o.relaxAt = 0
            pool == IF gaveUp THEN {}
                    ELSE Candidates(c, Tried(o), Skills(o.req, o.relaxed \/ relax))
        IN  \E n \in (IF pool = {} THEN {None} ELSE pool) :
              Goto(w, [task[w] EXCEPT !.pc = "commit", !.call = c, !.todo = @ \ {c},
                                      !.gaveUp = gaveUp, !.relax = relax, !.next = n])
  BY DEF AdvanceLock
<1> DEFINE o == offer[c]
           gaveUp == o.giveUpAt = 0
           relax == ~gaveUp /\ o.relaxAt = 0
           pool == IF gaveUp THEN {}
                   ELSE Candidates(c, Tried(o), Skills(o.req, o.relaxed \/ relax))
<1>2. PICK n \in (IF pool = {} THEN {None} ELSE pool) :
        Goto(w, [task[w] EXCEPT !.pc = "commit", !.call = c, !.todo = @ \ {c},
                                !.gaveUp = gaveUp, !.relax = relax, !.next = n])
  BY <1>1
<1> DEFINE t == [task[w] EXCEPT !.pc = "commit", !.call = c, !.todo = @ \ {c},
                                !.gaveUp = gaveUp, !.relax = relax, !.next = n]
<1>3. t.call = c /\ t.next = n /\ t.relax = relax /\ c \in Calls
  BY <1>0 DEF Task
<1>4. n # None =>
        /\ n \in o.req.members \ Tried(o)
        /\ Skills(o.req, o.relaxed \/ relax) \subseteq Holds[n]
  BY DEF Candidates
<1>5. ChoiceOK(t, o)
  <2> HIDE DEF t, relax, o
  <2> QED BY <1>3, <1>4 DEF ChoiceOK
<1>6. offer' = offer /\ task'[w] = t /\ \A v \in Workers \ {w} : task'[v] = task[v]
  <2>1. Goto(w, t) /\ task \in [Workers -> Task]
    BY <1>2 DEF TypeInv, TypeOK
  <2> HIDE DEF t
  <2> QED BY <2>1 DEF AdvanceLock, Goto
<1> HIDE DEF t
<1>7. \A v \in Workers : task'[v].pc = "commit" => ChoiceOK(task'[v], offer'[task'[v].call])
  BY <1>3, <1>5, <1>6 DEF RingInv
<1> QED BY <1>6, <1>7 DEF RingInv

LEMMA CommitKeepsRingInv ==
  ASSUME TypeInv, RingInv, NEW w \in Workers, AdvanceCommit(w)
  PROVE  RingInv'
<1> DEFINE u == task[w]
           o == offer[u.call]
<1>1. u \in Task /\ u.pc = "commit" /\ u.call \in Calls /\ o \in Offer /\ o.req # None
  BY CommitEffect DEF AdvanceCommit, TypeInv, TypeOK, Present
<1>2. ChoiceOK(u, o)
  BY <1>1 DEF RingInv
<1>3. RowOK(Advanced(o, u))
  BY <1>1, <1>2, AdvancedOK
<1>4. \A d \in Calls : offer'[d] = offer[d] \/ RowOK(offer'[d])
  BY <1>3, CommitEffect
<1>5. Step(w) /\ ~AdvanceLock(w)
  BY DEF Step, AdvanceLock, AdvanceCommit
<1>6. \A v \in Workers : task'[v] = task[v] \/ task'[v].pc # "commit"
  BY <1>5, NoNewLock
<1>7. task'[w].pc # "commit"
  <2>1. PICK t \in Task : Goto(w, t) /\ t.pc # "commit"
    BY CommitEffect
  <2> QED BY <2>1, GotoType DEF TypeInv, TypeOK
<1>8. \A v \in Workers :
        task[v].pc = "commit" /\ task'[v] = task[v] => task[v].call \in Calls \ {u.call}
  BY <1>1, <1>7 DEF TypeInv, TaskOK, RowLock
<1>9. \A v \in Workers :
        task[v].pc = "commit" /\ task'[v] = task[v] =>
          offer'[task[v].call] = offer[task[v].call]
  BY <1>8, CommitEffect
<1> QED BY <1>4, <1>6, <1>9, RowStepKeepsRingInv

LEMMA ArrivalKeepsRingInv ==
  ASSUME TypeInv, RingInv, NEW w \in Workers, Arrival(w)
  PROVE  RingInv'
<1>1. \A v \in Workers : task'[v] = task[v] \/ task'[v].pc # "commit"
  <2>1. task[w] = Idle
    BY DEF Arrival, Disconnect, SetState, ExtendAcw, FreeUser, Busy, Accept, Decline,
           MakeOffer, Release, Available
  <2>2. ~AdvanceLock(w)
    BY <2>1 DEF AdvanceLock, Idle
  <2> QED BY <2>2, NoNewLock
<1>2. ASSUME offer' = offer PROVE RingInv'
  BY <1>1, <1>2, RowStepKeepsRingInv
<1>3. ASSUME NEW c \in Calls, NEW o, RowOK(o), offer' = [offer EXCEPT ![c] = o],
             ~Present(c) \/ ~Locked(c)
      PROVE  RingInv'
  <2>1. /\ offer'[c] = o
        /\ \A d \in Calls \ {c} : offer'[d] = offer[d]
    BY <1>3 DEF TypeInv, TypeOK
  <2>2. \A v \in Workers : task[v].pc = "commit" => task[v].call \in Calls \ {c}
    BY <1>3 DEF TypeInv, TaskOK, RowLock, Locked
  <2> QED BY <1>1, <1>3, <2>1, <2>2, RowStepKeepsRingInv
<1>4. ASSUME NEW c \in Calls, NEW r \in Requests, MakeOffer(w, c, r) PROVE RingInv'
  BY <1>3, <1>4, NewRowOK DEF MakeOffer
<1>5. ASSUME NEW c \in Calls, NEW a \in Agents, Accept(w, c, a) PROVE RingInv'
  BY <1>3, <1>5, NoRowOK DEF Accept
<1>6. ASSUME NEW c \in Calls, NEW acw \in {0, AcwTime}, Release(w, c, acw) PROVE RingInv'
  BY <1>3, <1>6, NoRowOK DEF Release
<1>7. ASSUME NEW a \in Agents, NEW s, NEW acw,
             Disconnect(w, a) \/ ExtendAcw(w, a) \/ SetState(w, a, s) \/ FreeUser(w, a, acw)
      PROVE  RingInv'
  BY <1>2, <1>7 DEF Disconnect, ExtendAcw, SetState, FreeUser
<1>8. ASSUME NEW a \in Agents, NEW c \in Calls, Busy(w, c, a) \/ Decline(w, c, a)
      PROVE  RingInv'
  BY <1>2, <1>8 DEF Busy, Decline
<1> QED BY <1>4, <1>5, <1>6, <1>7, <1>8 DEF Arrival

LEMMA ClockKeepsRingInv ==
  ASSUME TypeInv, RingInv, Clock
  PROVE  RingInv'
<1>1. \A c \in Calls : RowOK(offer'[c])
  <2> SUFFICES ASSUME NEW c \in Calls
               PROVE  RowOK(offer'[c])
    OBVIOUS
  <2>1. offer[c] \in Offer /\ RowOK(offer[c])
    BY DEF RingInv, TypeInv, TypeOK
  <2>2. RowOK([offer[c] EXCEPT !.ringUntil = Down(@), !.giveUpAt = Down(@), !.relaxAt = Down(@)])
    BY <2>1, DownOK
  <2> QED BY <2>2, ClockEffect
<1>2. SUFFICES ASSUME NEW w \in Workers, task'[w].pc = "commit"
               PROVE  ChoiceOK(task'[w], offer'[task'[w].call])
  BY <1>1 DEF RingInv
<1> DEFINE t == task[w]
           o == offer[t.call]
<1>3. t \in Task /\ t.pc = "commit" /\ t.call \in Calls /\ o \in Offer /\ ChoiceOK(t, o)
  BY <1>2, ClockEffect DEF TypeInv, TypeOK, TaskOK, RingInv
<1>4. task'[w].call = t.call /\ task'[w].next = t.next /\ task'[w].relax = t.relax
  BY <1>3, ClockEffect DEF Task
<1>5. LET n == offer'[t.call]
      IN  n.req = o.req /\ n.tried = o.tried /\ n.current = o.current /\ n.relaxed = o.relaxed
  BY <1>3, ClockEffect DEF Offer
<1> QED BY <1>3, <1>4, <1>5 DEF ChoiceOK, Tried

LEMMA NextRingInv == TypeInv /\ RingInv /\ [Next]_vars => RingInv'
<1> SUFFICES ASSUME TypeInv, RingInv, [Next]_vars
             PROVE  RingInv'
  OBVIOUS
<1>1. ASSUME NEW w \in Workers, offer' = offer, Arrival(w) \/ TickStart(w) \/ Step(w),
             ~AdvanceLock(w)
      PROVE  RingInv'
  BY <1>1, NoNewLock, RowStepKeepsRingInv
<1>2. ASSUME NEW a \in Agents, NEW i \in Instances, Connect(a, i) PROVE RingInv'
  BY <1>2, RowStepKeepsRingInv DEF Connect
<1>3. ASSUME NEW w \in Handlers, Arrival(w) PROVE RingInv'
  BY <1>3, ArrivalKeepsRingInv DEF Workers
<1>4. ASSUME NEW w \in Tickers, TickStart(w) PROVE RingInv'
  <2>1. w \in Workers /\ offer' = offer /\ ~AdvanceLock(w)
    BY <1>4 DEF Workers, TickStart, Available, AdvanceLock, Idle
  <2> QED BY <1>1, <1>4, <2>1
<1>5. ASSUME NEW w \in Workers, Step(w) PROVE RingInv'
  <2>1. CASE AdvanceLock(w)
    BY <2>1, AdvanceLockKeepsRingInv
  <2>2. CASE AdvanceCommit(w)
    BY <2>2, CommitKeepsRingInv
  <2>3. CASE ~AdvanceLock(w) /\ ~AdvanceCommit(w)
    <3>1. offer' = offer
      BY <1>5, <2>3 DEF Step, SetWrite, ExtendWrite, FreeWrite, BusyRead, BusyWrite, FreeCall,
                        Mine, AdvanceSkip, Missed, Park, Nobody, Wrap, Expire
    <3> QED BY <1>1, <1>5, <2>3, <3>1
  <2> QED BY <2>1, <2>2, <2>3
<1>6. ASSUME NEW i \in Instances, Crash(i) PROVE RingInv'
  <2>1. \A v \in Workers : task'[v] = task[v] \/ task'[v].pc # "commit"
    BY <1>6, IdleOK DEF Crash
  <2> QED BY <1>6, <2>1, RowStepKeepsRingInv DEF Crash
<1>7. CASE Clock
  BY <1>7, ClockKeepsRingInv
<1>8. CASE UNCHANGED vars
  BY <1>8, RowStepKeepsRingInv DEF vars
<1> QED BY <1>2, <1>3, <1>4, <1>5, <1>6, <1>7, <1>8 DEF Next

LEMMA InitRingInv == Init => RingInv
  BY NoRowOK, IdleOK DEF Init, RingInv

\* The ring a call has is always one its queue allows: a member with the skills still
\* asked for, not tried before, with a timer, although candidate() chose the agent
\* one statement before advance() wrote the row.
THEOREM RingDisciplineHolds == Spec => []RingDiscipline
<1> QED BY InitRingInv, NextRingInv, RingInvImplies, TypeInvariant, PTL DEF Spec

\* No ring and no rest outlives the deadline of its cycle, with any number of
\* handlers and whenever the deadline passes.
THEOREM NoRingPastDeadlineHolds == Spec => []NoRingPastDeadline
<1> QED BY InitRingInv, NextRingInv, RingInvImplies, TypeInvariant, PTL DEF Spec

-----------------------------------------------------------------------------
(***************************************************************************)
(* One handler at a time.  OneRingPerAgent and CancelsOwnRing are false of *)
(* overlapping transactions (two of them choose one agent, an answer comes *)
(* between a tick's read and its lock); with one handler in flight they    *)
(* hold, although requests, the clock and crashes still come between any   *)
(* two of its statements.  What the handler decided on earlier reads stays *)
(* true until it acts on it.                                               *)
(***************************************************************************)

\* The offer o is one that the loop of t was started for: it ran out, or it rings the
\* agent who declined or departed.
Own(t, o) == IF t.rona THEN o.ringUntil = 0 ELSE o.current \in {None, t.agent}

\* While h is alone, nothing comes between what its loop found and what it does about it,
\* and whom it chose under the lock is rung for no other call at the commit.
AloneInv(h) ==
  /\ OneRingPerAgent
  /\ task[h].gone # {} => ~task[h].rona
  /\ \A c \in task[h].todo : Own(task[h], offer[c])
  /\ task[h].pc = "commit" =>
       /\ task[h].call \notin task[h].todo /\ Own(task[h], offer[task[h].call])
       /\ task[h].next # None => \A d \in Calls \ {task[h].call} : offer[d].current # task[h].next

LEMMA ContinueKeeps ==
  ASSUME NEW t \in Task
  PROVE  /\ Continue(t) \in Task /\ Continue(t).pc # "commit" /\ Continue(t).todo = t.todo
         /\ Continue(t).gone # {} => Continue(t).gone = t.gone /\ Continue(t).rona = t.rona
         /\ t.todo # {} => Continue(t).rona = t.rona /\ Continue(t).agent = t.agent
<1> DEFINE s == [Idle EXCEPT !.todo = t.todo, !.gone = t.gone, !.sweeping = t.sweeping,
                             !.rona = t.rona]
<1>1. s \in Task /\ s.todo = t.todo /\ s.gone = t.gone /\ s.rona = t.rona
  <2>1. s \in Task
    BY DEF Idle, Task, Timer, NoTimer
  <2>2. s.todo = t.todo /\ s.gone = t.gone /\ s.rona = t.rona
    BY DEF Idle
  <2> QED
    BY <2>1, <2>2
<1>2. Idle.todo = {} /\ Idle.gone = {} /\ Idle.pc # "commit"
      /\ [Idle EXCEPT !.pc = "wrap"].todo = {} /\ [Idle EXCEPT !.pc = "wrap"].gone = {}
  BY DEF Idle
<1>3. Continue(t) = IF t.todo # {} THEN [s EXCEPT !.pc = "advance", !.agent = t.agent]
                    ELSE IF t.gone # {} THEN [s EXCEPT !.pc = "mine"]
                    ELSE IF t.sweeping THEN [Idle EXCEPT !.pc = "wrap"] ELSE Idle
  BY DEF Continue
<1> HIDE DEF s
<1>4. CASE t.todo # {}
  BY <1>1, <1>3, <1>4, ContinueType DEF Task
<1>5. CASE t.todo = {} /\ t.gone # {}
  BY <1>1, <1>3, <1>5, ContinueType DEF Task
<1>6. CASE t.todo = {} /\ t.gone = {}
  BY <1>2, <1>3, <1>6, ContinueType
<1> QED
  BY <1>4, <1>5, <1>6

\* A handler moves on to calls it is about, and no row changes;
LEMMA MoveAlone ==
  ASSUME TypeInv, NEW h, Workers = {h}, OneRingPerAgent, NEW t \in Task, Goto(h, t), offer' = offer,
         t.pc # "commit", t.gone # {} => ~t.rona, \A c \in t.todo : Own(t, offer[c])
  PROVE  AloneInv(h)'
<1>1. task'[h] = t
  BY GotoType DEF TypeInv, TypeOK
<1> QED
  BY <1>1 DEF AloneInv, OneRingPerAgent

\* in particular, it goes on with its loop.
LEMMA ContinueAlone ==
  ASSUME TypeInv, NEW h, Workers = {h}, OneRingPerAgent, NEW t \in Task, Goto(h, Continue(t)),
         offer' = offer, t.gone # {} => ~t.rona, \A c \in t.todo : Own(t, offer[c])
  PROVE  AloneInv(h)'
<1>1. /\ Continue(t) \in Task /\ Continue(t).pc # "commit" /\ Continue(t).todo = t.todo
      /\ Continue(t).gone # {} => ~Continue(t).rona
      /\ t.todo # {} => Continue(t).rona = t.rona /\ Continue(t).agent = t.agent
  BY ContinueKeeps
<1>2. \A c \in Continue(t).todo : Own(Continue(t), offer[c])
  BY <1>1 DEF Own
<1> QED
  BY <1>1, <1>2, MoveAlone

\* A row without a ring takes the place of another.
LEMMA QuietRow ==
  ASSUME TypeInv, OneRingPerAgent, NEW c \in Calls, NEW o \in Offer, o.current = None,
         offer' = [offer EXCEPT ![c] = o]
  PROVE  OneRingPerAgent'
<1>1. offer'[c] = o /\ \A d \in Calls \ {c} : offer'[d] = offer[d]
  BY DEF TypeInv, TypeOK
<1> QED
  BY <1>1 DEF OneRingPerAgent

LEMMA ArrivalAlone ==
  ASSUME TypeInv, NEW h, Workers = {h}, AloneInv(h), Arrival(h) PROVE AloneInv(h)'
<1>1. OneRingPerAgent
  BY DEF AloneInv
<1>2. Idle.todo = {} /\ Idle.gone = {} /\ Idle.pc = "idle" /\ Idle.rona = FALSE
  BY DEF Idle
<1>3. ASSUME NEW t \in Task, Goto(h, t), offer' = offer, t.todo = {}, t.pc # "commit", t.rona = FALSE
      PROVE  AloneInv(h)'
  BY <1>1, <1>3, MoveAlone
<1>4. ASSUME NEW a \in Agents, Disconnect(h, a) PROVE AloneInv(h)'
  <2> DEFINE t == [Idle EXCEPT !.pc = "mine", !.gone = {a}]
  <2>1. t \in Task /\ t.todo = {} /\ t.pc # "commit" /\ t.rona = FALSE
    BY IdleType DEF Idle, Task, Timer, NoTimer
  <2>2. Goto(h, t) /\ offer' = offer
    BY <1>4 DEF Disconnect
  <2> HIDE DEF t
  <2> QED
    BY <1>3, <2>1, <2>2
<1>5. ASSUME NEW a \in Agents, ExtendAcw(h, a) PROVE AloneInv(h)'
  <2> DEFINE left == IF presence[a].acwUntil = NoTimer THEN 0 ELSE presence[a].acwUntil
             t == [Idle EXCEPT !.pc = "extendWrite", !.agent = a, !.until = left + AcwTime]
  <2>1. left + AcwTime \in Nat
    BY RoutingAssumption DEF TypeInv, TypeOK, Presence, Timer
  <2>2. Goto(h, t) /\ offer' = offer
    BY <1>5 DEF ExtendAcw
  <2> HIDE DEF left
  <2>3. t \in Task /\ t.todo = {} /\ t.pc # "commit" /\ t.rona = FALSE
    BY <2>1, IdleType DEF Idle, Task, Timer
  <2> HIDE DEF t
  <2> QED
    BY <1>3, <2>2, <2>3
<1>6. ASSUME NEW a \in Agents, NEW s \in {"ready", "not_ready"}, SetState(h, a, s) PROVE AloneInv(h)'
  <2> DEFINE t == [Idle EXCEPT !.pc = "setWrite", !.agent = a, !.to = s]
  <2>1. t \in Task /\ t.todo = {} /\ t.pc # "commit" /\ t.rona = FALSE
    BY IdleType DEF Idle, Task, Timer, NoTimer
  <2>2. Goto(h, t) /\ offer' = offer
    BY <1>6 DEF SetState
  <2> HIDE DEF t
  <2> QED
    BY <1>3, <2>1, <2>2
<1>7. ASSUME NEW a \in Agents, NEW acw \in {0, AcwTime}, FreeUser(h, a, acw) PROVE AloneInv(h)'
  <2> DEFINE t == [Idle EXCEPT !.pc = "freeWrite", !.agent = a, !.acw = acw]
  <2>1. t \in Task /\ t.todo = {} /\ t.pc # "commit" /\ t.rona = FALSE
    BY IdleType, RoutingAssumption DEF Idle, Task
  <2>2. Goto(h, t) /\ offer' = offer
    BY <1>7 DEF FreeUser
  <2> HIDE DEF t
  <2> QED
    BY <1>3, <2>1, <2>2
<1>8. ASSUME NEW a \in Agents, NEW c \in Calls, Busy(h, c, a) \/ Accept(h, c, a) PROVE AloneInv(h)'
  <2> DEFINE t == [Idle EXCEPT !.pc = "busyRead", !.call = c, !.agent = a]
  <2>1. t \in Task /\ t.todo = {} /\ t.pc # "commit" /\ t.rona = FALSE /\ t.gone = {}
    BY IdleType DEF Idle, Task, Timer, NoTimer
  <2>2. Goto(h, t) /\ (offer' = offer \/ offer' = [offer EXCEPT ![c] = NoRow])
    BY <1>8 DEF Busy, Accept
  <2> HIDE DEF t
  <2>3. OneRingPerAgent'
    <3>1. NoRow.current = None
      BY DEF NoRow
    <3> QED
      BY <1>1, <2>2, <3>1, NoRowType, QuietRow DEF OneRingPerAgent
  <2>4. task'[h] = t
    BY <2>1, <2>2, GotoType DEF TypeInv, TypeOK
  <2> QED
    BY <2>1, <2>3, <2>4 DEF AloneInv
<1>9. ASSUME NEW a \in Agents, NEW c \in Calls, Decline(h, c, a) PROVE AloneInv(h)'
  <2> DEFINE t == [Idle EXCEPT !.pc = "advance", !.todo = {c}, !.agent = a]
  <2>1. t \in Task /\ t.todo = {c} /\ t.pc # "commit" /\ t.gone = {} /\ ~t.rona /\ t.agent = a
    BY IdleType DEF Idle, Task, Timer, NoTimer
  <2>2. Goto(h, t) /\ offer' = offer /\ offer[c].current = a
    BY <1>9 DEF Decline
  <2> HIDE DEF t
  <2> QED
    BY <1>1, <2>1, <2>2, MoveAlone DEF Own
<1>10. ASSUME NEW c \in Calls, NEW r \in Requests, MakeOffer(h, c, r) PROVE AloneInv(h)'
  <2> DEFINE t == [Idle EXCEPT !.pc = "advance", !.todo = {c}]
  <2>1. t \in Task /\ t.todo = {c} /\ t.pc # "commit" /\ t.gone = {} /\ ~t.rona
    BY IdleType DEF Idle, Task, Timer, NoTimer
  <2>2. Goto(h, t) /\ offer' = [offer EXCEPT ![c] = NewRow(r)]
    BY <1>10 DEF MakeOffer
  <2> HIDE DEF t
  <2>3. NewRow(r) \in Offer /\ NewRow(r).current = None
    BY RowType DEF NewRow, NoRow
  <2>4. task'[h] = t /\ offer'[c] = NewRow(r)
    BY <2>1, <2>2, <2>3, GotoType DEF TypeInv, TypeOK
  <2>5. OneRingPerAgent'
    BY <1>1, <2>2, <2>3, QuietRow
  <2> QED
    BY <2>1, <2>3, <2>4, <2>5 DEF AloneInv, Own
<1>11. ASSUME NEW c \in Calls, NEW acw \in {0, AcwTime}, Release(h, c, acw) PROVE AloneInv(h)'
  <2> DEFINE t == [Idle EXCEPT !.pc = "freeCall", !.call = c, !.acw = acw]
  <2>1. t \in Task /\ t.todo = {} /\ t.pc # "commit" /\ t.gone = {}
    BY IdleType, RoutingAssumption DEF Idle, Task
  <2>2. Goto(h, t) /\ offer' = [offer EXCEPT ![c] = NoRow]
    BY <1>11 DEF Release
  <2> HIDE DEF t
  <2>3. NoRow.current = None
    BY DEF NoRow
  <2>4. task'[h] = t
    BY <2>1, <2>2, GotoType DEF TypeInv, TypeOK
  <2>5. OneRingPerAgent'
    BY <1>1, <2>2, <2>3, NoRowType, QuietRow
  <2> QED
    BY <2>1, <2>4, <2>5 DEF AloneInv
<1> QED
  BY <1>4, <1>5, <1>6, <1>7, <1>8, <1>9, <1>10, <1>11 DEF Arrival

\* The writes of presence rows, which end their handler,
LEMMA WritesAlone ==
  ASSUME TypeInv, NEW h, Workers = {h}, AloneInv(h),
         \/ SetWrite(h) \/ ExtendWrite(h) \/ FreeWrite(h) \/ BusyWrite(h) \/ FreeCall(h)
         \/ Wrap(h) \/ BusyRead(h)
  PROVE  AloneInv(h)'
<1>1. OneRingPerAgent /\ task[h] \in Task /\ offer' = offer
  BY DEF AloneInv, TypeInv, TypeOK, SetWrite, ExtendWrite, FreeWrite, BusyWrite, FreeCall, Wrap,
         BusyRead
<1>2. Idle \in Task /\ Idle.todo = {} /\ Idle.gone = {} /\ Idle.pc # "commit"
  BY IdleType DEF Idle
<1>3. CASE Goto(h, Idle)
  BY <1>1, <1>2, <1>3, MoveAlone
<1>4. CASE Wrap(h)
  <2> DEFINE t == [Idle EXCEPT !.pc = "expire"]
  <2>1. t \in Task /\ t.todo = {} /\ t.gone = {} /\ t.pc # "commit"
    BY <1>2 DEF Task
  <2>2. Goto(h, t)
    BY <1>4 DEF Wrap
  <2> HIDE DEF t
  <2> QED
    BY <1>1, <2>1, <2>2, MoveAlone
<1>5. CASE BusyRead(h) /\ Online(task[h].agent)
  <2> DEFINE t == [task[h] EXCEPT !.pc = "busyWrite"]
  <2>1. /\ t \in Task /\ t.pc # "commit" /\ t.todo = task[h].todo /\ t.gone = task[h].gone
        /\ t.rona = task[h].rona /\ t.agent = task[h].agent
    BY <1>1 DEF Task
  <2>2. Goto(h, t)
    BY <1>5 DEF BusyRead
  <2> HIDE DEF t
  <2> QED
    BY <1>1, <2>1, <2>2, MoveAlone DEF AloneInv, Own
<1> QED
  BY <1>3, <1>4, <1>5 DEF SetWrite, ExtendWrite, FreeWrite, BusyWrite, FreeCall, BusyRead

\* the reads that collect what is to be advanced,
LEMMA CollectAlone ==
  ASSUME TypeInv, NEW h, Workers = {h}, AloneInv(h), Mine(h) \/ Expire(h) \/ TickStart(h)
  PROVE  AloneInv(h)'
<1>1. OneRingPerAgent /\ task[h] \in Task /\ offer' = offer
  BY DEF AloneInv, TypeInv, TypeOK, Mine, Expire, TickStart
<1>2. CASE Mine(h)
  <2>1. PICK a \in task[h].gone :
          Goto(h, Continue([task[h] EXCEPT
            !.agent = a, !.gone = @ \ {a}, !.todo = {c \in Calls : offer[c].current = a}]))
    BY <1>2 DEF Mine
  <2> DEFINE mine == {c \in Calls : offer[c].current = a}
             t == [task[h] EXCEPT !.agent = a, !.gone = @ \ {a}, !.todo = mine]
  <2>2. mine \subseteq Calls /\ \A c \in mine : offer[c].current = a
    OBVIOUS
  <2>3. Goto(h, Continue(t))
    BY <2>1
  <2> HIDE DEF mine
  <2>4. t \in Task /\ t.todo = mine /\ t.agent = a /\ t.rona = task[h].rona
    BY <1>1, <2>2 DEF Task
  <2>5. ~task[h].rona
    BY <2>1 DEF AloneInv
  <2> HIDE DEF t
  <2> QED
    BY <1>1, <2>2, <2>3, <2>4, <2>5, ContinueAlone DEF Own
<1>3. CASE Expire(h)
  <2> DEFINE due == {c \in Calls : offer[c].ringUntil = 0}
             t == [Idle EXCEPT !.todo = due, !.rona = TRUE]
  <2>1. due \subseteq Calls /\ \A c \in due : offer[c].ringUntil = 0
    OBVIOUS
  <2>2. Goto(h, Continue(t))
    BY <1>3 DEF Expire
  <2> HIDE DEF due
  <2>3. t \in Task /\ t.todo = due /\ t.gone = {} /\ t.rona
    BY <2>1, IdleType DEF Task, Idle
  <2> HIDE DEF t
  <2> QED
    BY <1>1, <2>1, <2>2, <2>3, ContinueAlone DEF Own
<1>4. CASE TickStart(h)
  <2>1. PICK gone \in SUBSET Agents :
          Goto(h, Continue([Idle EXCEPT !.gone = gone, !.sweeping = TRUE]))
    BY <1>4 DEF TickStart
  <2> DEFINE t == [Idle EXCEPT !.gone = gone, !.sweeping = TRUE]
  <2>2. Goto(h, Continue(t))
    BY <2>1
  <2>3. t \in Task /\ t.todo = {} /\ ~t.rona
    BY IdleType DEF Task, Idle
  <2> HIDE DEF t
  <2> QED
    BY <1>1, <2>2, <2>3, ContinueAlone
<1> QED
  BY <1>2, <1>3, <1>4

\* the row lock with the choice of the candidate,
LEMMA LockAlone ==
  ASSUME TypeInv, NEW h, Workers = {h}, AloneInv(h), AdvanceLock(h)
  PROVE  AloneInv(h)'
<1>0. OneRingPerAgent /\ task[h] \in Task /\ offer' = offer
  BY DEF AloneInv, TypeInv, TypeOK, AdvanceLock
<1>1. PICK c \in task[h].todo, gaveUp \in BOOLEAN, relax \in BOOLEAN, n \in Agents \cup {None} :
        /\ n # None => \A d \in Calls \ {c} : offer[d].current # n
        /\ Goto(h, [task[h] EXCEPT !.pc = "commit", !.call = c, !.todo = @ \ {c},
                                   !.gaveUp = gaveUp, !.relax = relax, !.next = n])
  <2>1. PICK c \in task[h].todo :
          LET o == offer[c]
              gaveUp == o.giveUpAt = 0
              relax == ~gaveUp /\ o.relaxAt = 0
              pool == IF gaveUp THEN {}
                      ELSE Candidates(c, Tried(o), Skills(o.req, o.relaxed \/ relax))
          IN  /\ Present(c) /\ ~Locked(c)
              /\ \E n \in (IF pool = {} THEN {None} ELSE pool) :
                   Goto(h, [task[h] EXCEPT !.pc = "commit", !.call = c, !.todo = @ \ {c},
                                           !.gaveUp = gaveUp, !.relax = relax, !.next = n])
    BY DEF AdvanceLock
  <2>2. c \in Calls
    BY <1>0 DEF Task
  <2>3. ASSUME Present(c), NEW tried, NEW skills
        PROVE  /\ Candidates(c, tried, skills) \subseteq Agents
               /\ \A n \in Candidates(c, tried, skills) :
                    \A d \in Calls \ {c} : offer[d].current # n
    BY <2>2, <2>3, RoutingAssumption DEF Candidates, Present, TypeInv, TypeOK, Offer, Request
  <2> DEFINE gaveUp == offer[c].giveUpAt = 0
             relax == ~gaveUp /\ offer[c].relaxAt = 0
             pool == IF gaveUp THEN {}
                     ELSE Candidates(c, Tried(offer[c]), Skills(offer[c].req, offer[c].relaxed \/ relax))
  <2>4. PICK n \in (IF pool = {} THEN {None} ELSE pool) :
          Goto(h, [task[h] EXCEPT !.pc = "commit", !.call = c, !.todo = @ \ {c},
                                  !.gaveUp = gaveUp, !.relax = relax, !.next = n])
    BY <2>1
  <2>5. pool \subseteq Agents /\ \A m \in pool : \A d \in Calls \ {c} : offer[d].current # m
    BY <2>1, <2>3
  <2>6. gaveUp \in BOOLEAN /\ relax \in BOOLEAN
    OBVIOUS
  <2> HIDE DEF gaveUp, relax, pool
  <2>7. n \in Agents \cup {None} /\ (n # None => \A d \in Calls \ {c} : offer[d].current # n)
    BY <2>4, <2>5
  <2> QED
    BY <2>4, <2>6, <2>7
<1> DEFINE t == [task[h] EXCEPT !.pc = "commit", !.call = c, !.todo = @ \ {c},
                                !.gaveUp = gaveUp, !.relax = relax, !.next = n]
<1>2. /\ t \in Task /\ t.pc = "commit" /\ t.call = c /\ c \in Calls /\ t.todo = task[h].todo \ {c}
      /\ t.next = n /\ t.gone = task[h].gone /\ t.rona = task[h].rona /\ t.agent = task[h].agent
  BY <1>0 DEF Task
<1>3. Goto(h, t)
  BY <1>1
<1> HIDE DEF t
<1>4. task'[h] = t
  BY <1>2, <1>3, GotoType DEF TypeInv, TypeOK
<1>5. /\ task[h].gone # {} => ~task[h].rona
      /\ \A d \in task[h].todo : Own(task[h], offer[d])
  BY DEF AloneInv
<1>6. \A d \in task[h].todo : Own(t, offer[d])
  BY <1>2, <1>5 DEF Own
<1>7. OneRingPerAgent'
  BY <1>0 DEF OneRingPerAgent
<1>8. t.next # None => \A d \in Calls \ {t.call} : offer[d].current # t.next
  BY <1>1, <1>2
<1> QED
  BY <1>0, <1>2, <1>4, <1>5, <1>6, <1>7, <1>8 DEF AloneInv

\* the commit,
LEMMA CommitAlone ==
  ASSUME TypeInv, NEW h, Workers = {h}, AloneInv(h), AdvanceCommit(h)
  PROVE  AloneInv(h)'
<1> DEFINE u == task[h]
           o == offer[u.call]
           row == Advanced(o, u)
           done == [u EXCEPT !.cancelled = o.current, !.closed = row = NoRow]
<1>1. u \in Task /\ u.pc = "commit" /\ u.call \in Calls /\ Present(u.call)
  BY DEF TypeInv, TypeOK, TaskOK, RowLock, AdvanceCommit
<1>2. o \in Offer /\ o.req # None
  BY <1>1 DEF TypeInv, TypeOK, Present
<1>3. row \in Offer
  BY <1>1, <1>2, AdvancedType
<1>4. /\ offer'[u.call] = row
      /\ \A d \in Calls \ {u.call} : offer'[d] = offer[d]
  BY CommitEffect
<1>5. row.current \in {u.next, None}
  <2> HIDE DEF u, o
  <2>1. NoRow.current = None /\ NoRow \in Offer
    BY NoRowType DEF NoRow
  <2> DEFINE r == [o EXCEPT !.tried = Tried(o),
                     !.relaxAt = IF u.relax THEN NoTimer ELSE @,
                     !.relaxed = @ \/ u.relax]
  <2>2. row = IF u.next # None
        THEN [r EXCEPT !.current = u.next, !.ringUntil = Earliest(r.req.ring, r.giveUpAt)]
      ELSE IF ~u.gaveUp /\ r.relaxAt # NoTimer
        THEN Rested(r)
      ELSE NoRow
    BY DEF Advanced
  <2>3. "current" \in DOMAIN r
    BY <1>2 DEF Offer
  <2> HIDE DEF r, row
  <2> QED
    BY <2>1, <2>2, <2>3 DEF Rested
<1>6. /\ u.gone # {} => ~u.rona
      /\ u.call \notin u.todo
      /\ \A c \in u.todo : Own(u, offer[c])
      /\ u.next # None => \A d \in Calls \ {u.call} : offer[d].current # u.next
      /\ OneRingPerAgent
  BY <1>1 DEF AloneInv
<1>7. OneRingPerAgent'
  <2> HIDE DEF u, row
  <2> QED
    BY <1>1, <1>4, <1>5, <1>6 DEF OneRingPerAgent
<1>8. \A c \in u.todo : offer'[c] = offer[c]
  BY <1>1, <1>4, <1>6 DEF Task
<1>9. /\ done \in Task /\ done.todo = u.todo /\ done.gone = u.gone /\ done.rona = u.rona
      /\ done.agent = u.agent
  BY <1>1, <1>2 DEF Task, Offer
<1>10. ASSUME NEW t \in Task, Goto(h, t), t.pc # "commit", t.todo = u.todo,
              t.gone # {} => ~t.rona,
              t.todo # {} => t.rona = u.rona /\ t.agent = u.agent
       PROVE  AloneInv(h)'
  <2>1. task'[h] = t
    BY <1>10, GotoType DEF TypeInv, TypeOK
  <2> HIDE DEF u
  <2>2. \A c \in t.todo : Own(t, offer'[c])
    BY <1>6, <1>8, <1>10 DEF Own
  <2> QED
    BY <1>7, <1>10, <2>1, <2>2 DEF AloneInv
<1>11. Goto(h, IF o.current # None /\ u.rona THEN [done EXCEPT !.pc = "missed"]
               ELSE IF row = NoRow THEN [done EXCEPT !.pc = "nobody"]
               ELSE Continue(done))
  BY DEF AdvanceCommit
<1> HIDE DEF done
<1>12. CASE Goto(h, [done EXCEPT !.pc = "missed"])
  <2> DEFINE t == [done EXCEPT !.pc = "missed"]
  <2>1. /\ t \in Task /\ t.pc # "commit" /\ t.todo = done.todo /\ t.gone = done.gone
        /\ t.rona = done.rona /\ t.agent = done.agent
    BY <1>9 DEF Task
  <2> HIDE DEF t
  <2> QED
    BY <1>6, <1>9, <1>10, <1>12, <2>1 DEF t
<1>13. CASE Goto(h, [done EXCEPT !.pc = "nobody"])
  <2> DEFINE t == [done EXCEPT !.pc = "nobody"]
  <2>1. /\ t \in Task /\ t.pc # "commit" /\ t.todo = done.todo /\ t.gone = done.gone
        /\ t.rona = done.rona /\ t.agent = done.agent
    BY <1>9 DEF Task
  <2> HIDE DEF t
  <2> QED
    BY <1>6, <1>9, <1>10, <1>13, <2>1 DEF t
<1>14. CASE Goto(h, Continue(done))
  BY <1>6, <1>9, <1>10, <1>14, ContinueKeeps
<1> QED
  <2> HIDE DEF u, o, row
  <2> QED
    BY <1>11, <1>12, <1>13, <1>14

\* and what follows it.
LEMMA AfterAlone ==
  ASSUME TypeInv, NEW h, Workers = {h}, AloneInv(h),
         AdvanceSkip(h) \/ Missed(h) \/ Park(h) \/ Nobody(h)
  PROVE  AloneInv(h)'
<1> DEFINE u == task[h]
<1>1. OneRingPerAgent /\ u \in Task /\ offer' = offer
  BY DEF AloneInv, TypeInv, TypeOK, AdvanceSkip, Missed, Park, Nobody
<1>2. (u.gone # {} => ~u.rona) /\ \A c \in u.todo : Own(u, offer[c])
  BY DEF AloneInv
<1>3. ASSUME NEW p \in {"park", "nobody"}, Goto(h, [u EXCEPT !.pc = p]) PROVE AloneInv(h)'
  <2> DEFINE t == [u EXCEPT !.pc = p]
  <2>1. /\ t \in Task /\ t.pc # "commit" /\ t.todo = u.todo /\ t.gone = u.gone
        /\ t.rona = u.rona /\ t.agent = u.agent
    BY <1>1 DEF Task
  <2>2. Goto(h, t)
    BY <1>3
  <2> HIDE DEF t, u
  <2> QED
    BY <1>1, <1>2, <2>1, <2>2, MoveAlone DEF Own
<1>4. CASE Goto(h, Continue(u))
  BY <1>1, <1>2, <1>4, ContinueAlone
<1>5. ASSUME NEW c \in u.todo, Goto(h, Continue([u EXCEPT !.todo = @ \ {c}])) PROVE AloneInv(h)'
  <2> DEFINE t == [u EXCEPT !.todo = @ \ {c}]
  <2>1. /\ t \in Task /\ t.todo = u.todo \ {c} /\ t.gone = u.gone
        /\ t.rona = u.rona /\ t.agent = u.agent
    BY <1>1 DEF Task
  <2>2. Goto(h, Continue(t))
    BY <1>5
  <2> HIDE DEF t, u
  <2> QED
    BY <1>1, <1>2, <2>1, <2>2, ContinueAlone DEF Own
<1>6. CASE AdvanceSkip(h)
  BY <1>5, <1>6 DEF AdvanceSkip
<1>7. CASE Missed(h) \/ Park(h) \/ Nobody(h)
  <2>1. \/ Goto(h, [u EXCEPT !.pc = "park"]) \/ Goto(h, [u EXCEPT !.pc = "nobody"])
        \/ Goto(h, Continue(u))
    BY <1>7 DEF Missed, Park, Nobody, AfterRona
  <2> QED
    BY <1>3, <1>4, <2>1
<1> QED
  BY <1>6, <1>7

\* The clock leaves what ran out as it is.
LEMMA ClockAlone ==
  ASSUME TypeInv, NEW h, Workers = {h}, AloneInv(h), Clock PROVE AloneInv(h)'
<1>1. \A c \in Calls : /\ offer'[c].current = offer[c].current
                       /\ offer[c].ringUntil = 0 => offer'[c].ringUntil = 0
  <2> SUFFICES ASSUME NEW c \in Calls
               PROVE  /\ offer'[c].current = offer[c].current
                      /\ offer[c].ringUntil = 0 => offer'[c].ringUntil = 0
    OBVIOUS
  <2>1. offer[c] \in Offer
    BY DEF TypeInv, TypeOK
  <2>2. offer'[c] = [offer[c] EXCEPT !.ringUntil = Down(@), !.giveUpAt = Down(@),
                                     !.relaxAt = Down(@)]
    BY ClockEffect
  <2>3. Down(0) = 0
    BY DEF Down
  <2> QED
    BY <2>1, <2>2, <2>3 DEF Offer
<1>2. task[h] \in Task /\ TaskOK(task[h])
  BY DEF TypeInv, TypeOK
<1>3. /\ task'[h].pc = task[h].pc /\ task'[h].call = task[h].call /\ task'[h].todo = task[h].todo
      /\ task'[h].gone = task[h].gone /\ task'[h].rona = task[h].rona
      /\ task'[h].agent = task[h].agent /\ task'[h].next = task[h].next
  <2>1. task'[h] = [task[h] EXCEPT !.until = Down(@)]
    BY ClockEffect
  <2> QED
    BY <1>2, <2>1 DEF Task
<1>4. \A c \in Calls : Own(task[h], offer[c]) => Own(task'[h], offer'[c])
  BY <1>1, <1>3 DEF Own
<1>5. task[h].todo \subseteq Calls /\ (task[h].pc = "commit" => task[h].call \in Calls)
  BY <1>2 DEF Task, TaskOK
<1>6. OneRingPerAgent'
  BY <1>1 DEF AloneInv, OneRingPerAgent
<1> QED
  BY <1>1, <1>3, <1>4, <1>5, <1>6 DEF AloneInv

LEMMA NextAlone ==
  ASSUME TypeInv, NEW h, Workers = {h}, AloneInv(h), [Next]_vars PROVE AloneInv(h)'
<1>1. Handlers \subseteq {h} /\ Tickers \subseteq {h}
  BY DEF Workers
<1>2. CASE Arrival(h)
  BY <1>2, ArrivalAlone
<1>3. CASE TickStart(h)
  BY <1>3, CollectAlone
<1>4. CASE Step(h)
  BY <1>4, WritesAlone, CollectAlone, LockAlone, CommitAlone, AfterAlone DEF Step
<1>5. ASSUME NEW a \in Agents, NEW i \in Instances, Connect(a, i) PROVE AloneInv(h)'
  BY <1>5 DEF Connect, AloneInv, OneRingPerAgent
<1>6. ASSUME NEW i \in Instances, Crash(i) PROVE AloneInv(h)'
  <2>1. task'[h] \in {Idle, task[h]} /\ offer' = offer
    BY <1>6 DEF Crash
  <2>2. Idle.todo = {} /\ Idle.gone = {} /\ Idle.pc # "commit"
    BY DEF Idle
  <2> QED
    BY <2>1, <2>2 DEF AloneInv, OneRingPerAgent
<1>7. CASE Clock
  BY <1>7, ClockAlone
<1>8. CASE UNCHANGED vars
  BY <1>8 DEF vars, AloneInv, OneRingPerAgent
<1> QED
  BY <1>1, <1>2, <1>3, <1>4, <1>5, <1>6, <1>7, <1>8 DEF Next

LEMMA InitAlone ==
  ASSUME Init, NEW h, Workers = {h} PROVE AloneInv(h)
  BY DEF Init, AloneInv, OneRingPerAgent, Idle, NoRow

\* Between two statements of the only handler in flight, nothing it read grows stale.
THEOREM AloneInvariant ==
  ASSUME NEW h, Workers = {h} PROVE Spec => []AloneInv(h)
<1>1. Init => AloneInv(h)
  BY InitAlone
<1>2. TypeInv /\ AloneInv(h) /\ [Next]_vars => AloneInv(h)'
  BY NextAlone
<1> QED
  BY <1>1, <1>2, TypeInvariant, PTL DEF Spec

\* No agent is rung for two calls, by an engine that runs one handler at a time.
THEOREM OneRingPerAgentHolds ==
  ASSUME NEW h, Workers = {h} PROVE Spec => []OneRingPerAgent
<1>1. AloneInv(h) => OneRingPerAgent
  BY DEF AloneInv
<1> QED
  BY <1>1, AloneInvariant, PTL

\* Nor does such an engine cancel a ring that it was not started for.
THEOREM CancelsOwnRingHolds ==
  ASSUME NEW h, Workers = {h} PROVE Spec => CancelsOwnRing
<1> DEFINE Cancels(w) ==
      /\ task[w].pc = "commit" /\ task'[w] # task[w] /\ up' = up
      /\ offer[task[w].call].current # None
      => IF task[w].rona THEN offer[task[w].call].ringUntil = 0
         ELSE offer[task[w].call].current = task[w].agent
<1>1. AloneInv(h) => [\A w \in Workers : Cancels(w)]_vars
  BY DEF AloneInv, Own
<1> QED
  BY <1>1, AloneInvariant, PTL DEF CancelsOwnRing

-----------------------------------------------------------------------------
(***************************************************************************)
(* Rings without a timer.  A row has none between the INSERT of offer()    *)
(* and the first commit, and then the handler that inserted it, or one     *)
(* that took the row lock first, is on its way to give it one.  A handler  *)
(* with a longer list of calls would not do: it may go on to park an agent *)
(* before it returns to the list.                                          *)
(***************************************************************************)

WatchedBy(w, c) ==
  \/ task[w].pc = "advance" /\ task[w].todo = {c}
  \/ task[w].pc = "commit" /\ task[w].call = c

WatchInv ==
  \A c \in Calls : Present(c) /\ offer[c].ringUntil = NoTimer => \E w \in Workers : WatchedBy(w, c)

LEMMA WatchInvImplies == WatchInv => Watched
  BY DEF WatchInv, WatchedBy, Watched

\* A row with or without a timer still has it when the clock ticks; a committed row
\* has one.
LEMMA AdvancedTimed ==
  ASSUME NEW o \in Offer, o.req # None, NEW t \in Task
  PROVE  Advanced(o, t) = NoRow \/ Advanced(o, t).ringUntil # NoTimer
<1> DEFINE r == [o EXCEPT !.tried = Tried(o),
                          !.relaxAt = IF t.relax THEN NoTimer ELSE @,
                          !.relaxed = @ \/ t.relax]
<1>1. r \in Offer /\ r.req = o.req /\ r.giveUpAt \in Timer /\ r.relaxAt \in Timer
  BY DEF Offer, Task, Tried, Timer
<1>2. r.req.ring \in Timer /\ r.req.ring # NoTimer
  BY <1>1, RoutingAssumption DEF Offer, Request, Timer, NoTimer
<1>3. Advanced(o, t) = IF t.next # None
        THEN [r EXCEPT !.current = t.next, !.ringUntil = Earliest(r.req.ring, r.giveUpAt)]
        ELSE IF ~t.gaveUp /\ r.relaxAt # NoTimer THEN Rested(r) ELSE NoRow
  BY DEF Advanced
<1> HIDE DEF r
<1>4. Earliest(r.req.ring, r.giveUpAt) # NoTimer
  BY <1>1, <1>2, EarliestType
<1>5. [r EXCEPT !.current = t.next, !.ringUntil = Earliest(r.req.ring, r.giveUpAt)].ringUntil
        # NoTimer
  BY <1>1, <1>4 DEF Offer
<1>6. r.relaxAt # NoTimer => Rested(r).ringUntil # NoTimer
  BY <1>1, EarliestType DEF Rested, Offer
<1> QED BY <1>3, <1>5, <1>6

\* A step that leaves the rows without a timer, and whoever watches them, alone.
LEMMA WatchersStay ==
  ASSUME WatchInv,
         \A c \in Calls : offer'[c].req # None /\ offer'[c].ringUntil = NoTimer =>
           /\ Present(c) /\ offer[c].ringUntil = NoTimer
           /\ \A v \in Workers : WatchedBy(v, c) => \E x \in Workers : WatchedBy(x, c)'
  PROVE  WatchInv'
<1> SUFFICES ASSUME NEW c \in Calls, offer'[c].req # None, offer'[c].ringUntil = NoTimer
             PROVE  \E x \in Workers : WatchedBy(x, c)'
  BY DEF WatchInv, Present
<1> QED BY DEF WatchInv

\* A handler that is not about to advance, or only skips, is not the last watcher.
LEMMA OthersWatch ==
  ASSUME TypeInv, WatchInv, NEW w \in Workers, NEW t, Goto(w, t),
         offer' = offer,
         \A c \in Calls : Present(c) /\ WatchedBy(w, c) => \E x \in Workers \ {w} : WatchedBy(x, c)
  PROVE  WatchInv'
<1>1. \A v \in Workers \ {w} : task'[v] = task[v]
  BY DEF TypeInv, TypeOK, Goto
<1>2. \A c \in Calls, v \in Workers \ {w} : WatchedBy(v, c) => WatchedBy(v, c)'
  BY <1>1 DEF WatchedBy
<1>3. \A c \in Calls : Present(c) => \A v \in Workers :
        WatchedBy(v, c) => \E x \in Workers : WatchedBy(x, c)'
  BY <1>2
<1> QED BY <1>3, WatchersStay DEF Present

LEMMA ArrivalWatched ==
  ASSUME TypeInv, WatchInv, NEW w \in Workers, Arrival(w)
  PROVE  WatchInv'
<1>0. task[w] = Idle /\ task \in [Workers -> Task] /\ offer \in [Calls -> Offer]
  BY DEF Arrival, Disconnect, SetState, ExtendAcw, FreeUser, Busy, Accept, Decline,
         MakeOffer, Release, Available, TypeInv, TypeOK
<1>1. \A c \in Calls : ~WatchedBy(w, c)
  BY <1>0 DEF WatchedBy, Idle
<1>2. ASSUME offer' = offer, NEW t, Goto(w, t) PROVE WatchInv'
  BY <1>1, <1>2, OthersWatch
<1>3. ASSUME NEW t, Goto(w, t)
      PROVE  \A c \in Calls, v \in Workers : WatchedBy(v, c) => WatchedBy(v, c)'
  BY <1>0, <1>1, <1>3 DEF Goto, WatchedBy
<1>4. ASSUME NEW c \in Calls, NEW r \in Requests, MakeOffer(w, c, r) PROVE WatchInv'
  <2> DEFINE t == [Idle EXCEPT !.pc = "advance", !.todo = {c}]
  <2>1. t.pc = "advance" /\ t.todo = {c}
    BY DEF Idle
  <2>2. Goto(w, t) /\ task'[w] = t
    BY <1>0, <1>4 DEF MakeOffer, Goto
  <2>3. WatchedBy(w, c)'
    BY <2>1, <2>2 DEF WatchedBy
  <2>4. \A d \in Calls \ {c} : offer'[d] = offer[d]
    BY <1>0, <1>4 DEF MakeOffer
  <2> HIDE DEF t
  <2>5. \A d \in Calls, v \in Workers : WatchedBy(v, d) => WatchedBy(v, d)'
    BY <1>3, <2>2
  <2>6. SUFFICES ASSUME NEW d \in Calls, offer'[d].req # None, offer'[d].ringUntil = NoTimer
                 PROVE  \E x \in Workers : WatchedBy(x, d)'
    BY DEF WatchInv, Present
  <2>7. CASE d = c
    BY <2>3, <2>7
  <2>8. CASE d # c
    BY <2>4, <2>5, <2>6, <2>8 DEF WatchInv, Present
  <2> QED BY <2>7, <2>8
<1>5. ASSUME NEW c \in Calls, offer' = [offer EXCEPT ![c] = NoRow], NEW t, Goto(w, t)
      PROVE  WatchInv'
  <2>1. \A d \in Calls : offer'[d].req # None => offer'[d] = offer[d]
    BY <1>0, <1>5 DEF NoRow
  <2> QED BY <1>3, <1>5, <2>1, WatchersStay DEF Present
<1>6. ASSUME NEW c \in Calls, NEW a \in Agents, Accept(w, c, a) PROVE WatchInv'
  BY <1>5, <1>6 DEF Accept
<1>7. ASSUME NEW c \in Calls, NEW acw \in {0, AcwTime}, Release(w, c, acw) PROVE WatchInv'
  BY <1>5, <1>7 DEF Release
<1>8. ASSUME NEW a \in Agents, NEW s, NEW acw,
             Disconnect(w, a) \/ ExtendAcw(w, a) \/ SetState(w, a, s) \/ FreeUser(w, a, acw)
      PROVE  WatchInv'
  BY <1>2, <1>8 DEF Disconnect, ExtendAcw, SetState, FreeUser
<1>9. ASSUME NEW a \in Agents, NEW c \in Calls, Busy(w, c, a) \/ Decline(w, c, a)
      PROVE  WatchInv'
  BY <1>2, <1>9 DEF Busy, Decline
<1> QED BY <1>4, <1>6, <1>7, <1>8, <1>9 DEF Arrival

LEMMA StepWatched ==
  ASSUME TypeInv, WatchInv, NEW w \in Workers, Step(w)
  PROVE  WatchInv'
<1> DEFINE u == task[w]
<1>0. u \in Task /\ task \in [Workers -> Task] /\ offer \in [Calls -> Offer]
  BY DEF TypeInv, TypeOK
<1>1. CASE AdvanceCommit(w)
  <2>1. u.pc = "commit" /\ u.call \in Calls /\ offer[u.call] \in Offer /\ offer[u.call].req # None
    BY <1>1, CommitEffect DEF AdvanceCommit, Present, TypeInv, TypeOK
  <2>2. Advanced(offer[u.call], u) = NoRow \/ Advanced(offer[u.call], u).ringUntil # NoTimer
    BY <1>0, <2>1, AdvancedTimed
  <2>3. offer'[u.call].req = None \/ offer'[u.call].ringUntil # NoTimer
    BY <1>1, <2>2, CommitEffect DEF NoRow
  <2>4. \A v \in Workers \ {w} : task'[v] = task[v]
    BY <1>0, <1>1 DEF AdvanceCommit, Goto
  <2>5. \A c \in Calls \ {u.call} : offer'[c] = offer[c] /\ ~WatchedBy(w, c)
    BY <1>1, <2>1, CommitEffect DEF WatchedBy
  <2>6. \A c \in Calls \ {u.call}, v \in Workers : WatchedBy(v, c) => WatchedBy(v, c)'
    BY <2>4, <2>5 DEF WatchedBy
  <2> QED BY <2>3, <2>5, <2>6, WatchersStay DEF Present
<1>2. CASE AdvanceLock(w)
  <2>1. PICK c, t : c \in u.todo /\ t.pc = "commit" /\ t.call = c /\ Goto(w, t)
    BY <1>0, <1>2 DEF AdvanceLock, Task
  <2>2. task'[w] = t /\ offer' = offer /\ \A v \in Workers \ {w} : task'[v] = task[v]
    BY <1>0, <1>2, <2>1 DEF AdvanceLock, Goto
  <2>3. WatchedBy(w, c)'
    BY <2>1, <2>2 DEF WatchedBy
  <2>4. \A d \in Calls : WatchedBy(w, d) => d = c
    BY <1>2, <2>1 DEF WatchedBy, AdvanceLock
  <2>5. \A d \in Calls, v \in Workers : WatchedBy(v, d) => \E x \in Workers : WatchedBy(x, d)'
    <3> SUFFICES ASSUME NEW d \in Calls, NEW v \in Workers, WatchedBy(v, d)
                 PROVE  \E x \in Workers : WatchedBy(x, d)'
      OBVIOUS
    <3>1. CASE v = w
      BY <2>3, <2>4, <3>1
    <3>2. CASE v # w
      BY <2>2, <3>2 DEF WatchedBy
    <3> QED BY <3>1, <3>2
  <2> QED BY <2>2, <2>5, WatchersStay DEF Present
<1>3. CASE AdvanceSkip(w)
  <2>1. PICK c, t : c \in u.todo /\ (~Present(c) \/ Locked(c)) /\ Goto(w, t)
    BY <1>3 DEF AdvanceSkip
  <2>2. u.pc = "advance" /\ offer' = offer
    BY <1>3 DEF AdvanceSkip
  <2>3. \A d \in Calls : WatchedBy(w, d) => d = c
    BY <2>1, <2>2 DEF WatchedBy
  <2>4. Locked(c) => \E x \in Workers \ {w} : WatchedBy(x, c)
    BY <2>2 DEF Locked, WatchedBy
  <2> QED BY <2>1, <2>2, <2>3, <2>4, OthersWatch
<1>4. CASE ~AdvanceCommit(w) /\ ~AdvanceLock(w) /\ ~AdvanceSkip(w)
  <2>1. offer' = offer /\ \E t : Goto(w, t)
    BY <1>4 DEF Step, SetWrite, ExtendWrite, FreeWrite, BusyRead, BusyWrite, FreeCall,
                Mine, Missed, Park, Nobody, Wrap, Expire
  <2>2. u.pc \notin {"advance", "commit"}
    BY <1>4 DEF Step, SetWrite, ExtendWrite, FreeWrite, BusyRead, BusyWrite, FreeCall,
                Mine, Missed, Park, Nobody, Wrap, Expire
  <2>3. \A c \in Calls : ~WatchedBy(w, c)
    BY <2>2 DEF WatchedBy
  <2> QED BY <2>1, <2>3, OthersWatch
<1> QED BY <1>1, <1>2, <1>3, <1>4

LEMMA ClockWatched ==
  ASSUME TypeInv, WatchInv, Clock
  PROVE  WatchInv'
<1>1. \A c \in Calls :
        /\ offer'[c].req = offer[c].req
        /\ offer'[c].ringUntil = NoTimer => offer[c].ringUntil = NoTimer
  BY ClockEffect, DownType DEF TypeInv, TypeOK, Offer
<1>2. \A v \in Workers, c \in Calls : WatchedBy(v, c) => WatchedBy(v, c)'
  <2>1. \A v \in Workers : task'[v].pc = task[v].pc /\ task'[v].call = task[v].call
                           /\ task'[v].todo = task[v].todo
    BY ClockEffect DEF TypeInv, TypeOK, Task
  <2> QED BY <2>1 DEF WatchedBy
<1> QED BY <1>1, <1>2, WatchersStay DEF Present

\* No ring is forgotten while no process dies: a row without a timer has a handler
\* that is going to advance it.  (With crashes it is false: run crash.)
THEOREM WatchedHolds ==
  ASSUME "crash" \notin Ops
  PROVE  Spec => []Watched
<1>1. Init => WatchInv
  BY DEF Init, WatchInv, Present, NoRow
<1>2. TypeInv /\ WatchInv /\ [Next]_vars => WatchInv'
  <2> SUFFICES ASSUME TypeInv, WatchInv, [Next]_vars
               PROVE  WatchInv'
    OBVIOUS
  <2>1. ASSUME offer' = offer, task' = task PROVE WatchInv'
    BY <2>1, WatchersStay DEF Present, WatchedBy
  <2>2. ASSUME NEW a \in Agents, NEW i \in Instances, Connect(a, i) PROVE WatchInv'
    BY <2>1, <2>2 DEF Connect
  <2>3. ASSUME NEW w \in Handlers, Arrival(w) PROVE WatchInv'
    BY <2>3, ArrivalWatched DEF Workers
  <2>4. ASSUME NEW w \in Tickers, TickStart(w) PROVE WatchInv'
    <3>1. w \in Workers /\ offer' = offer /\ task[w] = Idle /\ \E t : Goto(w, t)
      BY <2>4 DEF Workers, TickStart, Available
    <3>2. \A c \in Calls : ~WatchedBy(w, c)
      BY <3>1 DEF WatchedBy, Idle
    <3> QED BY <3>1, <3>2, OthersWatch
  <2>5. ASSUME NEW w \in Workers, Step(w) PROVE WatchInv'
    BY <2>5, StepWatched
  <2>6. CASE Clock
    BY <2>6, ClockWatched
  <2>7. CASE UNCHANGED vars
    BY <2>1, <2>7 DEF vars
  <2>8. \A i \in Instances : ~Crash(i)
    BY DEF Crash
  <2> QED BY <2>2, <2>3, <2>4, <2>5, <2>6, <2>7, <2>8 DEF Next
<1> QED BY <1>1, <1>2, WatchInvImplies, TypeInvariant, PTL DEF Spec

-----------------------------------------------------------------------------
(***************************************************************************)
(* Reports.  Only the commit of advance() raises the flag that makes a     *)
(* handler call onNobody, and it does so when it deletes the row.          *)
(***************************************************************************)

Reports(w) ==
  task'[w].closed /\ ~task[w].closed =>
    Present(task[w].call) /\ offer'[task[w].call] = NoRow

LEMMA QuietStep ==
  ASSUME TypeInv, NEW w \in Workers, NEW t, Goto(w, t), t.closed => task[w].closed
  PROVE  \A v \in Workers : Reports(v)
  BY DEF Reports, Goto, TypeInv, TypeOK

LEMMA ArrivalReports ==
  ASSUME TypeInv, NEW w \in Workers, Arrival(w)
  PROVE  \A v \in Workers : Reports(v)
<1>1. ASSUME NEW t, Goto(w, t), t.closed = FALSE PROVE \A v \in Workers : Reports(v)
  BY <1>1, QuietStep
<1>2. ASSUME NEW a \in Agents, Disconnect(w, a) \/ ExtendAcw(w, a)
      PROVE  \A v \in Workers : Reports(v)
  BY <1>1, <1>2 DEF Disconnect, ExtendAcw, Idle
<1>3. ASSUME NEW a \in Agents, NEW s, NEW acw, SetState(w, a, s) \/ FreeUser(w, a, acw)
      PROVE  \A v \in Workers : Reports(v)
  BY <1>1, <1>3 DEF SetState, FreeUser, Idle
<1>4. ASSUME NEW a \in Agents, NEW c \in Calls, Busy(w, c, a) \/ Accept(w, c, a) \/ Decline(w, c, a)
      PROVE  \A v \in Workers : Reports(v)
  BY <1>1, <1>4 DEF Busy, Accept, Decline, Idle
<1>5. ASSUME NEW c \in Calls, NEW r, NEW acw, MakeOffer(w, c, r) \/ Release(w, c, acw)
      PROVE  \A v \in Workers : Reports(v)
  BY <1>1, <1>5 DEF MakeOffer, Release, Idle
<1> QED BY <1>2, <1>3, <1>4, <1>5 DEF Arrival

LEMMA StepReports ==
  ASSUME TypeInv, NEW w \in Workers, Step(w)
  PROVE  \A v \in Workers : Reports(v)
<1> DEFINE u == task[w]
<1>0. u \in Task
  BY DEF TypeInv, TypeOK
<1>1. ASSUME NEW t \in Task, Goto(w, Continue(t)) PROVE \A v \in Workers : Reports(v)
  BY <1>1, ContinueType, QuietStep
<1>2. ASSUME Goto(w, Idle) PROVE \A v \in Workers : Reports(v)
  BY <1>2, IdleOK, QuietStep
<1>3. AfterRona(u).closed => u.closed
  BY <1>0, ContinueType DEF AfterRona, Task
<1>4. CASE SetWrite(w) \/ ExtendWrite(w) \/ FreeWrite(w) \/ BusyWrite(w) \/ FreeCall(w)
  BY <1>2, <1>4 DEF SetWrite, ExtendWrite, FreeWrite, BusyWrite, FreeCall
<1>5. CASE BusyRead(w)
  <2>1. [u EXCEPT !.pc = "busyWrite"].closed = u.closed
    BY <1>0 DEF Task
  <2>2. Goto(w, Idle) \/ Goto(w, [u EXCEPT !.pc = "busyWrite"])
    BY <1>5 DEF BusyRead
  <2> QED BY <1>2, <2>1, <2>2, QuietStep
<1>6. CASE Mine(w)
  <2>1. PICK a \in u.gone :
          Goto(w, Continue([u EXCEPT !.agent = a, !.gone = @ \ {a},
                                     !.todo = {c \in Calls : offer[c].current = a}]))
    BY <1>6 DEF Mine
  <2>2. [u EXCEPT !.agent = a, !.gone = @ \ {a},
                  !.todo = {c \in Calls : offer[c].current = a}] \in Task
    BY <1>0 DEF Task
  <2> QED BY <1>1, <2>1, <2>2
<1>7. CASE AdvanceSkip(w)
  <2>1. PICK c \in u.todo : Goto(w, Continue([u EXCEPT !.todo = @ \ {c}]))
    BY <1>7 DEF AdvanceSkip
  <2>2. [u EXCEPT !.todo = @ \ {c}] \in Task
    BY <1>0 DEF Task
  <2> QED BY <1>1, <2>1, <2>2
<1>8. CASE AdvanceLock(w)
  <2>1. PICK c, gaveUp, relax, n :
          c \in u.todo /\
          Goto(w, [u EXCEPT !.pc = "commit", !.call = c, !.todo = @ \ {c},
                            !.gaveUp = gaveUp, !.relax = relax, !.next = n])
    BY <1>8 DEF AdvanceLock
  <2> DEFINE t == [u EXCEPT !.pc = "commit", !.call = c, !.todo = @ \ {c},
                            !.gaveUp = gaveUp, !.relax = relax, !.next = n]
  <2>2. t.closed = u.closed
    BY <1>0 DEF Task
  <2>3. Goto(w, t)
    BY <2>1
  <2> HIDE DEF t
  <2> QED BY <2>2, <2>3, QuietStep
<1>9. CASE AdvanceCommit(w)
  <2>1. \A v \in Workers \ {w} : task'[v] = task[v]
    BY <1>9 DEF AdvanceCommit, Goto, TypeInv, TypeOK
  <2>2. PICK t \in Task : Goto(w, t) /\ (t.closed => offer'[u.call] = NoRow)
    BY <1>9, CommitEffect
  <2>3. task'[w] = t
    BY <2>2 DEF Goto, TypeInv, TypeOK
  <2> QED BY <1>9, <2>1, <2>2, <2>3, CommitEffect DEF Reports
<1>10. CASE Missed(w)
  <2>1. [u EXCEPT !.pc = "park"].closed = u.closed
    BY <1>0 DEF Task
  <2>2. Goto(w, AfterRona(u)) \/ Goto(w, [u EXCEPT !.pc = "park"])
    BY <1>10 DEF Missed
  <2> QED BY <1>3, <2>1, <2>2, QuietStep
<1>11. CASE Park(w)
  BY <1>3, <1>11, QuietStep DEF Park
<1>12. CASE Nobody(w)
  BY <1>0, <1>1, <1>12 DEF Nobody
<1>13. CASE Wrap(w)
  <2>1. Goto(w, [Idle EXCEPT !.pc = "expire"]) /\ ~[Idle EXCEPT !.pc = "expire"].closed
    BY <1>13 DEF Wrap, Idle
  <2> QED BY <2>1, QuietStep
<1>14. CASE Expire(w)
  <2> DEFINE t == [Idle EXCEPT !.todo = {c \in Calls : offer[c].ringUntil = 0}, !.rona = TRUE]
  <2>1. t \in Task
    BY IdleType DEF Idle, Task
  <2>2. Goto(w, Continue(t))
    BY <1>14 DEF Expire
  <2> HIDE DEF t
  <2> QED BY <1>1, <2>1, <2>2
<1> QED BY <1>4, <1>5, <1>6, <1>7, <1>8, <1>9, <1>10, <1>11, <1>12, <1>13, <1>14 DEF Step

\* The end of a ring cycle is reported by the handler whose own transaction ended it:
\* never twice for one cycle, and never for a call that was accepted meanwhile.
THEOREM ReportsOwnClosingHolds == Spec => ReportsOwnClosing
<1>1. TypeInv /\ [Next]_vars => [\A w \in Workers : Reports(w)]_vars
  <2> SUFFICES ASSUME TypeInv, Next
               PROVE  \A w \in Workers : Reports(w)
    OBVIOUS
  <2>1. ASSUME task' = task PROVE \A w \in Workers : Reports(w)
    BY <2>1 DEF Reports
  <2>2. ASSUME NEW a \in Agents, NEW i \in Instances, Connect(a, i)
        PROVE  \A w \in Workers : Reports(w)
    BY <2>1, <2>2 DEF Connect
  <2>3. ASSUME NEW w \in Handlers, Arrival(w) PROVE \A v \in Workers : Reports(v)
    BY <2>3, ArrivalReports DEF Workers
  <2>4. ASSUME NEW w \in Tickers, TickStart(w) PROVE \A v \in Workers : Reports(v)
    <3>1. PICK gone \in SUBSET Agents :
            Goto(w, Continue([Idle EXCEPT !.gone = gone, !.sweeping = TRUE]))
      BY <2>4 DEF TickStart
    <3>2. [Idle EXCEPT !.gone = gone, !.sweeping = TRUE] \in Task
      BY IdleType DEF Idle, Task
    <3> QED BY <3>1, <3>2, ContinueType, QuietStep DEF Workers
  <2>5. ASSUME NEW w \in Workers, Step(w) PROVE \A v \in Workers : Reports(v)
    BY <2>5, StepReports
  <2>6. ASSUME NEW i \in Instances, Crash(i) PROVE \A v \in Workers : Reports(v)
    <3>1. \A v \in Workers : task'[v] \in {Idle, task[v]}
      BY <2>6 DEF Crash
    <3> QED BY <3>1, IdleOK DEF Reports
  <2>7. CASE Clock
    <3>1. \A v \in Workers : task'[v].closed = task[v].closed
      BY <2>7, ClockEffect DEF TypeInv, TypeOK, Task
    <3> QED BY <3>1 DEF Reports
  <2> QED BY <2>2, <2>3, <2>4, <2>5, <2>6, <2>7 DEF Next
<1> QED BY <1>1, TypeInvariant, PTL DEF Spec, ReportsOwnClosing, Reports

-----------------------------------------------------------------------------
(***************************************************************************)
(* The engine implements the ring cycle.                                   *)
(***************************************************************************)

ringBar == [c \in Calls |-> [open |-> Present(c), agent |-> offer[c].current,
                             tried |-> offer[c].tried]]

\* A row that is gone carries nothing: its successor starts afresh.
GoneInv == \A c \in Calls : ~Present(c) => offer[c] = NoRow

CycleInv == TypeInv /\ RingInv /\ GoneInv

Bar(o) == [open |-> o.req # None, agent |-> o.current, tried |-> o.tried]

LEMMA BarIs == ringBar = [c \in Calls |-> Bar(offer[c])] /\ ringBar' = [c \in Calls |-> Bar(offer'[c])]
  BY DEF ringBar, Bar, Present

\* A step that changes no row, or one row into another, is a step or a stutter.
LEMMA SameBar ==
  ASSUME \A c \in Calls : Bar(offer'[c]) = Bar(offer[c])
  PROVE  UNCHANGED ringBar
  BY BarIs

LEMMA OneBar ==
  ASSUME TypeInv, NEW c \in Calls, NEW o, offer' = [offer EXCEPT ![c] = o]
  PROVE  ringBar' = [ringBar EXCEPT ![c] = Bar(o)]
<1>1. \A d \in Calls : offer'[d] = IF d = c THEN o ELSE offer[d]
  BY DEF TypeInv, TypeOK
<1>2. \A d \in Calls : Bar(offer'[d]) = IF d = c THEN Bar(o) ELSE Bar(offer[d])
  BY <1>1
<1> HIDE DEF Bar
<1> QED BY <1>2, BarIs

LEMMA CloseStep ==
  ASSUME TypeInv, GoneInv, NEW c \in Calls, offer' = [offer EXCEPT ![c] = NoRow]
  PROVE  Cycle!Close(c) \/ UNCHANGED ringBar
<1>1. Bar(NoRow) = Cycle!Quiet
  BY DEF Bar, NoRow, Cycle!Quiet
<1>2. ringBar' = [ringBar EXCEPT ![c] = Cycle!Quiet]
  BY <1>1, OneBar
<1>3. CASE Present(c)
  BY <1>2, <1>3 DEF Cycle!Close, ringBar
<1>4. CASE ~Present(c)
  <2>1. offer' = offer
    BY <1>4 DEF GoneInv, TypeInv, TypeOK
  <2> QED BY <2>1, SameBar
<1> QED BY <1>3, <1>4

\* The commit of advance is the next ring, a rest, or the end of the cycle.
LEMMA CommitStep ==
  ASSUME CycleInv, NEW w \in Workers, AdvanceCommit(w)
  PROVE  (\E c \in Calls : Cycle!Progress(c)) \/ UNCHANGED ringBar
<1>0. PICK c \in Calls, n \in Agents \cup {None} : c = task[w].call /\ n = task[w].next
  BY CommitEffect DEF CycleInv, TypeInv, TypeOK, Task
<1> DEFINE u == task[w]
           o == offer[c]
           row == Advanced(o, u)
           r == [o EXCEPT !.tried = Tried(o),
                          !.relaxAt = IF u.relax THEN NoTimer ELSE @,
                          !.relaxed = @ \/ u.relax]
<1>1. /\ u \in Task /\ u.pc = "commit" /\ c \in Calls /\ o \in Offer /\ o.req # None
      /\ u.call = c /\ u.next = n /\ ChoiceOK(u, o)
  BY <1>0, CommitEffect DEF CycleInv, RingInv, AdvanceCommit, TypeInv, TypeOK, Present
<1>2. offer' = [offer EXCEPT ![c] = row]
  BY <1>0 DEF AdvanceCommit
<1>3. ringBar' = [ringBar EXCEPT ![c] = Bar(row)]
  BY <1>1, <1>2, OneBar DEF CycleInv
<1>4. ringBar[c] = Bar(o) /\ Present(c) /\ ringBar = [d \in Calls |-> ringBar[d]]
  BY <1>1 DEF ringBar, Bar, Present
<1>5. Cycle!RungSoFar(c) = Tried(o)
  BY <1>1 DEF Cycle!RungSoFar, Tried
<1>6. row = IF u.next # None
        THEN [r EXCEPT !.current = u.next, !.ringUntil = Earliest(r.req.ring, r.giveUpAt)]
        ELSE IF ~u.gaveUp /\ r.relaxAt # NoTimer THEN Rested(r) ELSE NoRow
  BY DEF Advanced
<1>7. r \in Offer /\ r.req = o.req /\ r.tried = Tried(o)
  <2> HIDE DEF u, o
  <2> QED BY <1>1 DEF Offer, Task, Tried, Timer
<1> HIDE DEF r, row
<1>8. CASE n # None
  <2>1. n \in Agents /\ n \notin Tried(o)
    BY <1>1, <1>8 DEF Task, ChoiceOK
  <2>2. Bar(row) = [open |-> TRUE, agent |-> n, tried |-> Tried(o)]
    BY <1>1, <1>6, <1>7, <1>8 DEF Bar, Offer
  <2>3. Cycle!Ring(c, n)
    BY <1>1, <1>3, <1>4, <1>5, <2>1, <2>2 DEF Cycle!Ring, ringBar
  <2>4. Cycle!Progress(c)
    BY <2>1, <2>3 DEF Cycle!Progress
  <2> QED BY <1>1, <2>4
<1>9. CASE row = NoRow
  BY <1>1, <1>2, <1>9, CloseStep DEF CycleInv, Cycle!Progress
<1>10. CASE n = None /\ row = Rested(r)
  <2>1. Bar(row) = [open |-> TRUE, agent |-> None, tried |-> Tried(o)]
    BY <1>1, <1>7, <1>10 DEF Bar, Rested, Offer
  <2>2. CASE o.current # None
    <3>1. Cycle!Rest(c)
      BY <1>1, <1>3, <1>4, <1>5, <2>1, <2>2 DEF Cycle!Rest, ringBar
    <3>2. Cycle!Progress(c)
      BY <3>1 DEF Cycle!Progress
    <3> QED BY <1>1, <3>2
  <2>3. CASE o.current = None
    <3>1. Tried(o) = o.tried
      BY <2>3 DEF Tried
    <3>2. Bar(row) = Bar(o)
      BY <1>1, <2>1, <2>3, <3>1 DEF Bar
    <3>3. UNCHANGED ringBar
      BY <1>3, <1>4, <3>2 DEF ringBar
    <3> QED BY <3>3
  <2> QED BY <2>2, <2>3
<1> QED BY <1>1, <1>6, <1>8, <1>9, <1>10

LEMMA NextCycle == CycleInv /\ [Next]_vars => [Cycle!Next]_ringBar
<1> SUFFICES ASSUME CycleInv, [Next]_vars
             PROVE  [Cycle!Next]_ringBar
  OBVIOUS
<1>0. TypeInv /\ GoneInv
  BY DEF CycleInv
<1>1. ASSUME offer' = offer PROVE [Cycle!Next]_ringBar
  BY <1>1, SameBar
<1>2. ASSUME NEW w \in Workers, NEW c \in Calls, NEW r \in Requests, MakeOffer(w, c, r)
      PROVE  [Cycle!Next]_ringBar
  <2>1. Bar(NewRow(r)) = [open |-> TRUE, agent |-> None, tried |-> {}]
    <3>1. r # None
      BY RoutingAssumption
    <3>2. NewRow(r).req = r /\ NewRow(r).current = None /\ NewRow(r).tried = {}
      BY DEF NewRow, NoRow
    <3> QED BY <3>1, <3>2 DEF Bar
  <2>2. ringBar' = [ringBar EXCEPT ![c] = Bar(NewRow(r))]
    BY <1>0, <1>2, OneBar DEF MakeOffer
  <2>3. ~ringBar[c].open
    BY <1>2 DEF MakeOffer, ringBar
  <2>4. Cycle!Open(c)
    BY <2>1, <2>2, <2>3 DEF Cycle!Open, ringBar
  <2> QED BY <2>4 DEF Cycle!Next
<1>3. ASSUME NEW c \in Calls, offer' = [offer EXCEPT ![c] = NoRow]
      PROVE  [Cycle!Next]_ringBar
  BY <1>0, <1>3, CloseStep DEF Cycle!Next, Cycle!Progress
<1>4. ASSUME NEW w \in Workers, Arrival(w) PROVE [Cycle!Next]_ringBar
  <2>1. ASSUME NEW a \in Agents, NEW c \in Calls, Busy(w, c, a) \/ Decline(w, c, a)
        PROVE  [Cycle!Next]_ringBar
    BY <1>1, <2>1 DEF Busy, Decline
  <2>2. ASSUME NEW a \in Agents, Disconnect(w, a) \/ ExtendAcw(w, a)
        PROVE  [Cycle!Next]_ringBar
    BY <1>1, <2>2 DEF Disconnect, ExtendAcw
  <2>3. ASSUME NEW a \in Agents, NEW s, SetState(w, a, s)
        PROVE  [Cycle!Next]_ringBar
    BY <1>1, <2>3 DEF SetState
  <2>4. ASSUME NEW a \in Agents, NEW acw, FreeUser(w, a, acw)
        PROVE  [Cycle!Next]_ringBar
    BY <1>1, <2>4 DEF FreeUser
  <2>5. ASSUME NEW c \in Calls, NEW a \in Agents, Accept(w, c, a)
        PROVE  [Cycle!Next]_ringBar
    BY <1>3, <2>5 DEF Accept
  <2>6. ASSUME NEW c \in Calls, NEW acw, Release(w, c, acw)
        PROVE  [Cycle!Next]_ringBar
    BY <1>3, <2>6 DEF Release
  <2> QED BY <1>2, <1>4, <2>1, <2>2, <2>3, <2>4, <2>5, <2>6 DEF Arrival
<1>5. ASSUME NEW w \in Workers, Step(w) PROVE [Cycle!Next]_ringBar
  <2>1. CASE AdvanceCommit(w)
    BY <2>1, CommitStep DEF Cycle!Next
  <2>2. CASE ~AdvanceCommit(w)
    BY <1>1, <1>5, <2>2 DEF Step, SetWrite, ExtendWrite, FreeWrite, BusyRead, BusyWrite,
                            FreeCall, Mine, AdvanceSkip, AdvanceLock, Missed, Park, Nobody,
                            Wrap, Expire
  <2> QED BY <2>1, <2>2
<1>6. CASE Clock
  <2>1. \A c \in Calls : Bar(offer'[c]) = Bar(offer[c])
    BY <1>0, <1>6, ClockEffect DEF Bar, TypeInv, TypeOK, Offer
  <2> QED BY <2>1, SameBar
<1>7. CASE \E a \in Agents, i \in Instances : Connect(a, i)
  BY <1>1, <1>7 DEF Connect
<1>8. CASE \E w \in Tickers : TickStart(w)
  BY <1>1, <1>8 DEF TickStart
<1>9. CASE \E i \in Instances : Crash(i)
  BY <1>1, <1>9 DEF Crash
<1>10. CASE UNCHANGED vars
  BY <1>1, <1>10 DEF vars
<1> QED BY <1>4, <1>5, <1>6, <1>7, <1>8, <1>9, <1>10 DEF Next, Workers

LEMMA NextGone == TypeInv /\ GoneInv /\ [Next]_vars => GoneInv'
<1> SUFFICES ASSUME TypeInv, GoneInv, [Next]_vars
             PROVE  GoneInv'
  OBVIOUS
<1>1. ASSUME offer' = offer PROVE GoneInv'
  BY <1>1 DEF GoneInv, Present
<1>2. ASSUME NEW c \in Calls, NEW o, offer' = [offer EXCEPT ![c] = o], o = NoRow \/ o.req # None
      PROVE  GoneInv'
  <2>1. \A d \in Calls : offer'[d] = IF d = c THEN o ELSE offer[d]
    BY <1>2 DEF TypeInv, TypeOK
  <2> QED BY <1>2, <2>1 DEF GoneInv, Present
<1>3. ASSUME NEW w \in Workers, NEW c \in Calls, NEW r \in Requests, MakeOffer(w, c, r)
      PROVE  GoneInv'
  BY <1>2, <1>3, RowType, RoutingAssumption DEF MakeOffer
<1>4. ASSUME NEW w \in Workers, Arrival(w) PROVE GoneInv'
  <2>1. ASSUME NEW a \in Agents, NEW c \in Calls, Busy(w, c, a) \/ Decline(w, c, a)
        PROVE  GoneInv'
    BY <1>1, <2>1 DEF Busy, Decline
  <2>2. ASSUME NEW a \in Agents, Disconnect(w, a) \/ ExtendAcw(w, a)
        PROVE  GoneInv'
    BY <1>1, <2>2 DEF Disconnect, ExtendAcw
  <2>3. ASSUME NEW a \in Agents, NEW s, SetState(w, a, s)
        PROVE  GoneInv'
    BY <1>1, <2>3 DEF SetState
  <2>4. ASSUME NEW a \in Agents, NEW acw, FreeUser(w, a, acw)
        PROVE  GoneInv'
    BY <1>1, <2>4 DEF FreeUser
  <2>5. ASSUME NEW c \in Calls, NEW a \in Agents, Accept(w, c, a)
        PROVE  GoneInv'
    BY <1>2, <2>5 DEF Accept
  <2>6. ASSUME NEW c \in Calls, NEW acw, Release(w, c, acw)
        PROVE  GoneInv'
    BY <1>2, <2>6 DEF Release
  <2> QED BY <1>3, <1>4, <2>1, <2>2, <2>3, <2>4, <2>5, <2>6 DEF Arrival
<1>5. ASSUME NEW w \in Workers, Step(w) PROVE GoneInv'
  <2>1. CASE AdvanceCommit(w)
    <3> DEFINE c == task[w].call
               row == Advanced(offer[c], task[w])
    <3>1. task[w] \in Task /\ c \in Calls /\ offer[c] \in Offer /\ offer[c].req # None
      BY <2>1, CommitEffect DEF TypeInv, TypeOK, Present
    <3>2. row = NoRow \/ row.req # None
      BY <3>1, AdvancedType
    <3>3. offer' = [offer EXCEPT ![c] = row]
      BY <2>1 DEF AdvanceCommit
    <3> HIDE DEF row
    <3> QED BY <1>2, <3>1, <3>2, <3>3
  <2>2. CASE ~AdvanceCommit(w)
    BY <1>1, <1>5, <2>2 DEF Step, SetWrite, ExtendWrite, FreeWrite, BusyRead, BusyWrite,
                            FreeCall, Mine, AdvanceSkip, AdvanceLock, Missed, Park, Nobody,
                            Wrap, Expire
  <2> QED BY <2>1, <2>2
<1>6. CASE Clock
  <2>1. Down(NoTimer) = NoTimer
    BY DEF Down, NoTimer
  <2>2. [NoRow EXCEPT !.ringUntil = Down(@), !.giveUpAt = Down(@), !.relaxAt = Down(@)] = NoRow
    <3>1. NoRow.ringUntil = NoTimer /\ NoRow.giveUpAt = NoTimer /\ NoRow.relaxAt = NoTimer
      BY DEF NoRow
    <3>2. \A o \in Offer : [o EXCEPT !.ringUntil = o.ringUntil, !.giveUpAt = o.giveUpAt,
                                     !.relaxAt = o.relaxAt] = o
      BY DEF Offer
    <3> QED BY <2>1, <3>1, <3>2, NoRowType
  <2> QED BY <1>6, <2>2, ClockEffect DEF GoneInv, Present
<1>7. CASE \E a \in Agents, i \in Instances : Connect(a, i)
  BY <1>1, <1>7 DEF Connect
<1>8. CASE \E w \in Tickers : TickStart(w)
  BY <1>1, <1>8 DEF TickStart
<1>9. CASE \E i \in Instances : Crash(i)
  BY <1>1, <1>9 DEF Crash
<1>10. CASE UNCHANGED vars
  BY <1>1, <1>10 DEF vars
<1> QED BY <1>4, <1>5, <1>6, <1>7, <1>8, <1>9, <1>10 DEF Next, Workers

\* The engine implements the ring cycle: whatever handlers, ticks, processes and
\* crashes interleave, a call rings one agent at a time and nobody twice in a cycle.
THEOREM RoutingImplementsCycle == Spec => CycleSpec
<1>1. Init => Cycle!Init
  <2>1. Bar(NoRow) = Cycle!Quiet
    BY DEF Bar, NoRow, Cycle!Quiet
  <2> QED BY <2>1, BarIs DEF Init, Cycle!Init, ringBar
<1>2. Init => GoneInv
  BY DEF Init, GoneInv
<1>3. TypeInv /\ RingInv /\ GoneInv /\ [Next]_vars => [Cycle!Next]_ringBar
  BY NextCycle DEF CycleInv
<1> QED BY <1>1, <1>2, <1>3, InitRingInv, NextRingInv, NextGone, TypeInvariant, PTL
        DEF Spec, CycleSpec, Cycle!Spec, ringBar
==============================================================================
