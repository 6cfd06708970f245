--------------------------- MODULE CallFlowProofs ---------------------------
(***************************************************************************)
(* Proofs about CallFlow.                                                  *)
(*                                                                         *)
(* A handler is the list of the statements it still has to run, so an      *)
(* invariant has to say which lists there are.  `Flows` says it locally:   *)
(* which statement may stand after which, and which cannot be the last.    *)
(* Every method of Flow is such a list and every step leaves one, for any  *)
(* number of handlers at once: that is FlowTypeInvariant.                  *)
(*                                                                         *)
(* With one handler at a time, the state of the call follows from what the *)
(* first statements of the list are: MusicFits, EndFits, BusyFits and      *)
(* HumanFits.  Their conjunction, SerialInv, is inductive, and at rest it  *)
(* is what the runs check.                                                 *)
(*                                                                         *)
(* The last part holds for any number of handlers again: what is still to  *)
(* be done for the AI of a call, and for its request, is in one place.     *)
(***************************************************************************)
EXTENDS CallFlow, SequenceTheorems, TLAPS

-----------------------------------------------------------------------------
\* Handlers, as control flow.

Personal == {"mark", "count", "freeRead", "freeWrite", "busy", "enter", "intercept", "dropOther"}

\* Statements with the operand their code uses.
Code == {x \in Stmt :
           /\ x.op = "status" => x.what \in {"ai", "waiting_human", "human", "ended"}
           /\ x.op = "publish" => x.what \in {"accepted", "nobody"}
           /\ x.op \in Personal => x.who \in Agents}

Is(x, op, a) == x.op = op /\ x.who = a
Says(x, op, s) == x.op = op /\ x.what = s

\* y may stand right after x in some method.
MayFollow(x, y) ==
  /\ y.op \in {"count", "freeRead"} => Is(x, "mark", y.who)
  /\ y.op \notin {"freeWrite", "setHeld", "ask", "dispatch"}
  /\ y.op = "music" => Says(x, "setHeld", y.what)
  /\ y.op = "drop" => Says(x, "status", "ended")
  /\ y.op = "freeAll" => x.op = "drop"
  /\ y.op = "over" => x.op = "freeAll"
  /\ Says(y, "status", "ended") => x.op = "over"
  /\ Says(y, "status", "ai") => x.op = "dispatch"
  /\ Says(y, "status", "waiting_human") => x.op \in {"hold", "music"}
  /\ Says(y, "status", "human") => x.op \in {"enter", "busy"}
  /\ Says(y, "publish", "accepted") => x.op = "busy"
  /\ Says(y, "publish", "nobody") => x.op = "freeAll" \/ Says(x, "status", "ai")
  /\ y.op = "live" => Says(x, "publish", "accepted")
  /\ y.op = "enter" => x.op \in {"live", "intercept", "freeRead", "freeWrite"}
  /\ y.op = "busy" => Is(x, "enter", y.who)
  /\ y.op = "mark" => x.op \in {"live", "unhold", "music"}
  /\ y.op = "hold" => x.op \in {"live", "freeRead", "freeWrite"}
  /\ y.op = "unhold" => x.op = "live" \/ Says(x, "status", "human")
  /\ y.op = "wait" => Says(x, "status", "waiting_human")
  /\ y.op = "offer" => x.op \in {"wait", "hold", "music"} \/ Says(x, "status", "waiting_human")
  /\ y.op \in {"intercept", "dropOther"} => x.op = "live"

\* If anything stands right after x, it may be y.
MustFollow(x, y) ==
  /\ x.op = "mark" => y.op \in {"count", "freeRead"}
  /\ x.op = "setHeld" => Says(y, "music", x.what)
  /\ Says(x, "status", "ended") => y.op = "drop"
  /\ x.op = "drop" => y.op = "freeAll"
  /\ x.op = "intercept" => Is(y, "enter", x.who)
  /\ x.op = "enter" => Is(y, "busy", x.who) \/ Says(y, "status", "human")
  /\ Says(x, "publish", "accepted") => y.op = "live"
  /\ x.op = "over" => Says(y, "status", "ended")
  /\ x.op = "busy" => y.op \in {"publish", "status"}

NotLast(x) ==
  \/ x.op \in {"mark", "setHeld", "drop", "intercept", "enter", "over", "busy"}
  \/ Says(x, "status", "ended") \/ Says(x, "publish", "accepted")

Fits(x, y) == MayFollow(x, y) /\ MustFollow(x, y)

Flows(s) ==
  /\ \A i \in 1..Len(s) - 1 : Fits(s[i], s[i + 1])
  /\ s # <<>> => ~NotLast(s[Len(s)])

FlowTypeInv ==
  /\ TypeOK
  /\ todo \in [Handlers -> Seq(Code)]
  /\ \A w \in Handlers : Flows(todo[w])

-----------------------------------------------------------------------------
\* Statements and lists.

LEMMA Statements ==
  /\ \A op \in {"live", "ask", "drop", "freeAll", "over", "hold", "unhold", "wait", "dispatch"} :
       Do(op) \in Code /\ Do(op).op = op
  /\ \A op \in Personal : \A a \in Agents : For(op, a) \in Code /\ Is(For(op, a), op, a)
  /\ \A s \in {"ai", "waiting_human", "ended"} :
       As("status", s) \in Code /\ Says(As("status", s), "status", s)
  /\ \A s \in {"accepted", "nobody"} :
       As("publish", s) \in Code /\ Says(As("publish", s), "publish", s)
  /\ \A op \in {"setHeld", "music"} : \A s \in {"on", "off"} :
       As(op, s) \in Code /\ Says(As(op, s), op, s)
  /\ \A a \in Agents : Human(a) \in Code /\ Says(Human(a), "status", "human")
<1> USE DEF Code, Stmt, Words, Personal, Do, Is, Says
<1>1. \A op \in {"live", "ask", "drop", "freeAll", "over", "hold", "unhold", "wait", "dispatch"} :
        Do(op) \in Code /\ Do(op).op = op
  OBVIOUS
<1>2. \A op \in Personal : \A a \in Agents : For(op, a) \in Code /\ Is(For(op, a), op, a)
  BY DEF For
<1>3. \A s \in {"ai", "waiting_human", "ended"} :
        As("status", s) \in Code /\ Says(As("status", s), "status", s)
  BY DEF As
<1>4. \A s \in {"accepted", "nobody"} :
        As("publish", s) \in Code /\ Says(As("publish", s), "publish", s)
  BY DEF As
<1>5. \A op \in {"setHeld", "music"} : \A s \in {"on", "off"} :
        As(op, s) \in Code /\ Says(As(op, s), op, s)
  BY DEF As
<1>6. \A a \in Agents : Human(a) \in Code /\ Says(Human(a), "status", "human")
  BY DEF As, Human
<1> QED
  BY <1>1, <1>2, <1>3, <1>4, <1>5, <1>6

LEMMA Offers ==
  ASSUME NEW m \in SUBSET Agents, NEW k \in {"plain", "retrieve", "fallback"}
  PROVE  /\ Offer(m, k) \in Seq(Code) /\ Len(Offer(m, k)) = 1
         /\ Says(Offer(m, k)[1], "offer", k) /\ Offer(m, k)[1].op = "offer"
         /\ Offer(m, k)[1].members = m
<1> DEFINE x == [As("offer", k) EXCEPT !.members = m]
<1>1. x \in Code /\ x.op = "offer" /\ x.members = m /\ x.what = k
  BY DEF As, Do, Code, Stmt, Words, Personal
<1>2. Offer(m, k) = <<x>>
  BY DEF Offer
<1> HIDE DEF x
<1> QED
  BY <1>1, <1>2 DEF Says

LEMMA TailFlows ==
  ASSUME NEW s \in Seq(Code), s # <<>>, Flows(s)
  PROVE  Tail(s) \in Seq(Code) /\ Flows(Tail(s))
BY DEF Flows

\* One statement in front.
LEMMA FrontFlows ==
  ASSUME NEW s \in Seq(Code), Flows(s), NEW x \in Code,
         s # <<>> => Fits(x, s[1]),
         NotLast(x) => s # <<>>
  PROVE  <<x>> \o s \in Seq(Code) /\ Flows(<<x>> \o s)
<1>1. /\ <<x>> \o s \in Seq(Code)
      /\ Len(<<x>> \o s) = Len(s) + 1
      /\ (<<x>> \o s)[1] = x
      /\ \A i \in 2..Len(s) + 1 : (<<x>> \o s)[i] = s[i - 1]
  OBVIOUS
<1> QED
  BY <1>1 DEF Flows

\* Two of them.
LEMMA FrontsFlow ==
  ASSUME NEW s \in Seq(Code), Flows(s), NEW x \in Code, NEW y \in Code,
         s # <<>> => Fits(y, s[1]),
         Fits(x, y),
         NotLast(y) => s # <<>>
  PROVE  <<x, y>> \o s \in Seq(Code) /\ Flows(<<x, y>> \o s)
<1>1. /\ <<x, y>> \o s \in Seq(Code)
      /\ Len(<<x, y>> \o s) = Len(s) + 2
      /\ (<<x, y>> \o s)[1] = x
      /\ (<<x, y>> \o s)[2] = y
      /\ \A i \in 3..Len(s) + 2 : (<<x, y>> \o s)[i] = s[i - 2]
  OBVIOUS
<1> QED
  BY <1>1 DEF Flows

-----------------------------------------------------------------------------
\* The methods of Flow, statement by statement.

LEMMA Concat ==
  ASSUME NEW s \in Seq(Code), NEW t \in Seq(Code), NEW p, p = s \o t
  PROVE  /\ p \in Seq(Code)
         /\ Len(p) = Len(s) + Len(t)
         /\ \A i \in 1..Len(s) : p[i] = s[i]
         /\ \A i \in 1..Len(t) : p[Len(s) + i] = t[i]
OBVIOUS

LEMMA EndIs ==
  /\ End \in Seq(Code) /\ Len(End) = 5
  /\ End[1].op = "over" /\ Says(End[2], "status", "ended") /\ End[3].op = "drop"
  /\ End[4].op = "freeAll" /\ Says(End[5], "publish", "nobody")
<1> DEFINE s == <<Do("over"), As("status", "ended")>>
           t == <<Do("drop"), Do("freeAll")>>
           u == <<As("publish", "nobody")>>
           p == s \o t
<1>1. s \in Seq(Code) /\ t \in Seq(Code) /\ u \in Seq(Code)
  BY Statements
<1>2. Len(s) = 2 /\ Len(t) = 2 /\ Len(u) = 1
  OBVIOUS
<1>3. /\ s[1].op = "over" /\ Says(s[2], "status", "ended") /\ t[1].op = "drop"
      /\ t[2].op = "freeAll" /\ Says(u[1], "publish", "nobody")
  BY Statements
<1>4. End = p \o u
  BY DEF End, Release
<1> HIDE DEF s, t, u
<1>5. /\ p \in Seq(Code) /\ Len(p) = Len(s) + Len(t)
      /\ \A i \in 1..Len(s) : p[i] = s[i]
      /\ \A i \in 1..Len(t) : p[Len(s) + i] = t[i]
  BY <1>1, Concat
<1>9. p \in Seq(Code)
  BY <1>5
<1> HIDE DEF p
<1>6. /\ End \in Seq(Code) /\ Len(End) = Len(p) + Len(u)
      /\ \A i \in 1..Len(p) : End[i] = p[i]
      /\ \A i \in 1..Len(u) : End[Len(p) + i] = u[i]
  BY <1>1, <1>4, <1>9, Concat
<1>7. p[1] = s[1] /\ p[2] = s[2] /\ p[2 + 1] = t[1] /\ p[2 + 2] = t[2]
  BY <1>2, <1>5
<1>8. /\ End[1] = s[1] /\ End[2] = s[2] /\ End[3] = t[1] /\ End[4] = t[2]
      /\ End[4 + 1] = u[1]
  BY <1>2, <1>5, <1>6, <1>7
<1> QED
  BY <1>2, <1>3, <1>5, <1>6, <1>8

\* The last human's leave runs the release of leave() and then end().
LEMMA LastLeaveIs ==
  LET p == Release \o End \o <<>>
  IN  /\ p \in Seq(Code) /\ Len(p) = 7
      /\ p[1].op = "drop" /\ p[2].op = "freeAll" /\ p[3].op = "over"
      /\ Says(p[4], "status", "ended") /\ p[5].op = "drop" /\ p[6].op = "freeAll"
      /\ Says(p[7], "publish", "nobody")
<1>1. Release \in Seq(Code) /\ End \in Seq(Code)
  BY Statements, EndIs DEF Release
<1>2. Len(Release) = 2 /\ Release[1].op = "drop" /\ Release[2].op = "freeAll"
  BY Statements DEF Release
<1>3. Release \o End \o <<>> = Release \o End
  BY <1>1, ConcatProperties, ConcatEmptySeq
<1> DEFINE p == Release \o End
<1>4. /\ p \in Seq(Code) /\ Len(p) = Len(Release) + Len(End)
      /\ \A i \in 1..Len(Release) : p[i] = Release[i]
      /\ \A i \in 1..Len(End) : p[Len(Release) + i] = End[i]
  BY <1>1, Concat
<1> HIDE DEF p
<1>5. Len(p) = 7 /\ p[1] = Release[1] /\ p[2] = Release[2]
  BY <1>2, <1>4, EndIs
<1>6. /\ p[2 + 1] = End[1] /\ p[2 + 2] = End[2] /\ p[2 + 3] = End[3] /\ p[2 + 4] = End[4]
      /\ p[2 + 5] = End[5]
  BY <1>2, <1>4, EndIs
<1> QED
  BY <1>2, <1>3, <1>4, <1>5, <1>6, EndIs DEF p

LEMMA AcceptedIs ==
  ASSUME NEW a \in Agents, NEW r \in BOOLEAN
  PROVE  LET p == Accepted(a, r)
         IN  /\ p \in Seq(Code) /\ Len(p) = IF r THEN 6 ELSE 5
             /\ Is(p[1], "busy", a) /\ Says(p[2], "publish", "accepted") /\ p[3].op = "live"
             /\ Is(p[4], "enter", a) /\ Says(p[5], "status", "human")
             /\ r => p[6].op = "unhold"
<1> DEFINE s == <<For("busy", a), As("publish", "accepted")>>
           t == <<Do("live"), For("enter", a), Human(a)>>
           u == IF r THEN <<Do("unhold")>> ELSE <<>>
<1>1. /\ s \in Seq(Code) /\ Len(s) = 2 /\ Is(s[1], "busy", a) /\ Says(s[2], "publish", "accepted")
      /\ t \in Seq(Code) /\ Len(t) = 3 /\ t[1].op = "live" /\ Is(t[2], "enter", a)
      /\ Says(t[3], "status", "human")
      /\ u \in Seq(Code) /\ (r => Len(u) = 1 /\ u[1].op = "unhold") /\ (~r => Len(u) = 0)
  BY Statements DEF Personal
<1>2. Accepted(a, r) = s \o t \o u
  BY DEF Accepted, Join
<1> HIDE DEF s, t, u
<1>3. /\ s \o t \in Seq(Code) /\ Len(s \o t) = 5
      /\ Is((s \o t)[1], "busy", a) /\ Says((s \o t)[2], "publish", "accepted")
      /\ (s \o t)[3].op = "live" /\ Is((s \o t)[4], "enter", a)
      /\ Says((s \o t)[5], "status", "human")
  BY <1>1, ConcatProperties
<1>4. LET p == s \o t \o u
      IN  /\ p \in Seq(Code) /\ Len(p) = 5 + Len(u)
          /\ \A i \in 1..5 : p[i] = (s \o t)[i]
          /\ Len(u) = 1 => p[6] = u[1]
  BY <1>1, <1>3, ConcatProperties
<1> QED
  BY <1>1, <1>2, <1>3, <1>4

LEMMA TransferIs ==
  ASSUME NEW a \in Agents, NEW m \in SUBSET Agents
  PROVE  LET p == Transfer(a, m)
         IN  /\ p \in Seq(Code) /\ Len(p) = 6
             /\ p[1].op = "live" /\ Is(p[2], "mark", a) /\ Is(p[3], "freeRead", a)
             /\ p[4].op = "hold" /\ Says(p[5], "status", "waiting_human") /\ p[6].op = "offer"
             /\ p[6].what = "retrieve"
<1> DEFINE s == <<Do("live"), For("mark", a)>>
           t == <<For("freeRead", a)>>
           u == <<Do("hold"), As("status", "waiting_human")>>
           o == Offer(m, "retrieve")
<1>1. /\ s \in Seq(Code) /\ Len(s) = 2 /\ s[1].op = "live" /\ Is(s[2], "mark", a)
      /\ t \in Seq(Code) /\ Len(t) = 1 /\ Is(t[1], "freeRead", a)
      /\ u \in Seq(Code) /\ Len(u) = 2 /\ u[1].op = "hold" /\ Says(u[2], "status", "waiting_human")
  BY Statements DEF Personal
<1>2. o \in Seq(Code) /\ Len(o) = 1 /\ o[1].op = "offer" /\ o[1].what = "retrieve"
  BY Offers DEF Says
<1>3. Transfer(a, m) = s \o t \o u \o o
  BY DEF Transfer, FreeUser
<1> HIDE DEF s, t, u, o
<1>4. /\ s \o t \in Seq(Code) /\ Len(s \o t) = 3
      /\ (s \o t)[1] = s[1] /\ (s \o t)[2] = s[2] /\ (s \o t)[3] = t[1]
  <2>1. s \in Seq(Code) /\ t \in Seq(Code)
    BY <1>1
  <2>2. Len(s) = 2 /\ Len(t) = 1
    BY <1>1
  <2> DEFINE q == s \o t
  <2>3. /\ q \in Seq(Code) /\ Len(q) = Len(s) + Len(t)
        /\ \A i \in 1..Len(s) : q[i] = s[i]
        /\ \A i \in 1..Len(t) : q[Len(s) + i] = t[i]
    BY <2>1, Concat
  <2> HIDE DEF q
  <2>4. /\ q \in Seq(Code) /\ Len(q) = 3 /\ q[1] = s[1] /\ q[2] = s[2] /\ q[2 + 1] = t[1]
    BY <2>2, <2>3
  <2> QED
    BY <2>4 DEF q
<1>5. /\ s \o t \o u \in Seq(Code) /\ Len(s \o t \o u) = 5
      /\ \A i \in 1..3 : (s \o t \o u)[i] = (s \o t)[i]
      /\ (s \o t \o u)[4] = u[1] /\ (s \o t \o u)[5] = u[2]
  BY <1>1, <1>4, ConcatProperties
<1> QED
  BY <1>1, <1>2, <1>3, <1>4, <1>5, ConcatProperties

LEMMA ConsultIs ==
  ASSUME NEW a \in Agents, NEW b \in Agents
  PROVE  LET p == Consult(a, b)
         IN  /\ p \in Seq(Code) /\ Len(p) = 3
             /\ p[1].op = "live" /\ p[2].op = "hold" /\ p[3].op = "offer" /\ p[3].what = "plain"
<1> DEFINE s == <<Do("live"), Do("hold")>>
           o == Offer({b}, "plain")
<1>1. s \in Seq(Code) /\ Len(s) = 2 /\ s[1].op = "live" /\ s[2].op = "hold"
  BY Statements
<1>2. o \in Seq(Code) /\ Len(o) = 1 /\ o[1].op = "offer" /\ o[1].what = "plain"
  BY Offers DEF Says
<1>3. Consult(a, b) = s \o o
  BY DEF Consult
<1> HIDE DEF s, o
<1> QED
  BY <1>1, <1>2, <1>3, ConcatProperties

LEMMA HandOverIs ==
  ASSUME NEW a \in Agents
  PROVE  LET p == HandOver(a)
         IN  /\ p \in Seq(Code) /\ Len(p) = 4
             /\ p[1].op = "live" /\ p[2].op = "unhold" /\ Is(p[3], "mark", a)
             /\ Is(p[4], "freeRead", a)
<1> DEFINE s == <<Do("live"), Do("unhold"), For("mark", a)>>
           t == <<For("freeRead", a)>>
<1>1. s \in Seq(Code) /\ Len(s) = 3 /\ t \in Seq(Code) /\ Len(t) = 1
  BY Statements DEF Personal
<1>4. s[1].op = "live" /\ s[2].op = "unhold" /\ Is(s[3], "mark", a) /\ Is(t[1], "freeRead", a)
  BY Statements DEF Personal
<1>2. HandOver(a) = s \o t
  BY DEF HandOver, FreeUser
<1> HIDE DEF s, t
<1>3. /\ s \o t \in Seq(Code) /\ Len(s \o t) = 4
      /\ (s \o t)[1] = s[1] /\ (s \o t)[2] = s[2] /\ (s \o t)[3] = s[3] /\ (s \o t)[4] = t[1]
  BY <1>1, ConcatProperties
<1> QED
  BY <1>2, <1>3, <1>4

LEMMA NobodyIs ==
  ASSUME NEW f \in BOOLEAN
  PROVE  LET p == Nobody(f)
         IN  /\ p \in Seq(Code)
             /\ ~f => Len(p) = 2 /\ Says(p[1], "status", "ai") /\ Says(p[2], "publish", "nobody")
             /\ f => /\ Len(p) = 3 /\ p[1].op = "dispatch"
                     /\ Says(p[2], "status", "ai") /\ Says(p[3], "publish", "nobody")
<1> DEFINE s == IF f THEN <<Do("dispatch")>> ELSE <<>>
           t == <<As("status", "ai"), As("publish", "nobody")>>
           p == Nobody(f)
<1>1. s \in Seq(Code) /\ t \in Seq(Code)
  BY Statements
<1>2. /\ f => Len(s) = 1 /\ s[1].op = "dispatch"
      /\ ~f => Len(s) = 0
      /\ Len(t) = 2 /\ Says(t[1], "status", "ai") /\ Says(t[2], "publish", "nobody")
  BY Statements
<1>3. p = s \o t
  BY DEF Nobody
<1> HIDE DEF s, t, p
<1>4. /\ p \in Seq(Code) /\ Len(p) = Len(s) + Len(t)
      /\ \A i \in 1..Len(s) : p[i] = s[i]
      /\ \A i \in 1..Len(t) : p[Len(s) + i] = t[i]
  BY <1>1, <1>3, Concat
<1>5. /\ f => Len(p) = 3 /\ p[1] = s[1] /\ p[1 + 1] = t[1] /\ p[1 + 2] = t[2]
      /\ ~f => Len(p) = 2 /\ p[0 + 1] = t[1] /\ p[0 + 2] = t[2]
  BY <1>2, <1>4
<1> QED
  BY <1>2, <1>4, <1>5 DEF p

\* An escalation, once the call is found not to be over.
Asked == <<As("status", "waiting_human"), Do("wait")>> \o Offer(Agents, "plain")

LEMMA AskedIs ==
  /\ Asked \in Seq(Code) /\ Len(Asked) = 3
  /\ Says(Asked[1], "status", "waiting_human") /\ Asked[2].op = "wait" /\ Asked[3].op = "offer"
  /\ Asked[3].what = "plain"
<1> DEFINE s == <<As("status", "waiting_human"), Do("wait")>>
           o == Offer(Agents, "plain")
<1>1. /\ s \in Seq(Code) /\ Len(s) = 2
      /\ Says(s[1], "status", "waiting_human") /\ s[2].op = "wait"
  BY Statements
<1>2. o \in Seq(Code) /\ Len(o) = 1 /\ o[1].op = "offer" /\ o[1].what = "plain"
  BY Offers DEF Says
<1>3. Asked = s \o o
  BY DEF Asked
<1> HIDE DEF s, o
<1> QED
  BY <1>1, <1>2, <1>3, ConcatProperties

-----------------------------------------------------------------------------
\* Every method flows.

LEMMA MethodsFlow ==
  /\ \A a \in Agents : \A r \in BOOLEAN : Flows(Accepted(a, r))
  /\ \A a \in Agents : \A m \in SUBSET Agents : Flows(Transfer(a, m))
  /\ \A a, b \in Agents : Flows(Consult(a, b))
  /\ \A a \in Agents : Flows(HandOver(a))
  /\ \A f \in BOOLEAN : Flows(Nobody(f))
  /\ Flows(End) /\ Flows(Release \o End \o <<>>) /\ Flows(Asked)
<1> USE DEF Fits, MayFollow, MustFollow, NotLast, Is, Says
<1>1. ASSUME NEW a \in Agents, NEW r \in BOOLEAN PROVE Flows(Accepted(a, r))
  <2> DEFINE p == Accepted(a, r)
  <2>1. p \in Seq(Code) /\ (Len(p) = 6 \/ Len(p) = 5)
    BY AcceptedIs
  <2>2. /\ Fits(p[1], p[2]) /\ Fits(p[2], p[3]) /\ Fits(p[3], p[4]) /\ Fits(p[4], p[5])
        /\ Len(p) = 6 => Fits(p[5], p[6])
        /\ ~NotLast(p[Len(p)])
    BY AcceptedIs
  <2> HIDE DEF p, Fits, NotLast
  <2> QED
    BY <2>1, <2>2 DEF Flows, p
<1>2. ASSUME NEW a \in Agents, NEW m \in SUBSET Agents PROVE Flows(Transfer(a, m))
  <2> DEFINE p == Transfer(a, m)
  <2>1. p \in Seq(Code) /\ Len(p) = 6
    BY TransferIs
  <2>2. /\ Fits(p[1], p[2]) /\ Fits(p[2], p[3]) /\ Fits(p[3], p[4]) /\ Fits(p[4], p[5])
        /\ Fits(p[5], p[6]) /\ ~NotLast(p[6])
    BY TransferIs
  <2> HIDE DEF p, Fits, NotLast
  <2> QED
    BY <2>1, <2>2 DEF Flows, p
<1>3. ASSUME NEW a \in Agents, NEW b \in Agents PROVE Flows(Consult(a, b))
  <2> DEFINE p == Consult(a, b)
  <2>1. /\ p \in Seq(Code) /\ Len(p) = 3
        /\ Fits(p[1], p[2]) /\ Fits(p[2], p[3]) /\ ~NotLast(p[3])
    BY ConsultIs
  <2> HIDE DEF p, Fits, NotLast
  <2> QED
    BY <2>1 DEF Flows, p
<1>4. ASSUME NEW a \in Agents PROVE Flows(HandOver(a))
  <2> DEFINE p == HandOver(a)
  <2>1. /\ p \in Seq(Code) /\ Len(p) = 4
        /\ Fits(p[1], p[2]) /\ Fits(p[2], p[3]) /\ Fits(p[3], p[4]) /\ ~NotLast(p[4])
    BY HandOverIs
  <2> HIDE DEF p, Fits, NotLast
  <2> QED
    BY <2>1 DEF Flows, p
<1>5. ASSUME NEW f \in BOOLEAN PROVE Flows(Nobody(f))
  <2> DEFINE p == Nobody(f)
  <2>1. /\ p \in Seq(Code) /\ (Len(p) = 2 \/ Len(p) = 3)
        /\ Fits(p[1], p[2]) /\ (Len(p) = 3 => Fits(p[2], p[3])) /\ ~NotLast(p[Len(p)])
    BY NobodyIs
  <2> HIDE DEF p, Fits, NotLast
  <2> QED
    BY <2>1 DEF Flows, p
<1>6. Flows(End)
  <2>1. /\ End \in Seq(Code) /\ Len(End) = 5
        /\ Fits(End[1], End[2]) /\ Fits(End[2], End[3]) /\ Fits(End[3], End[4])
        /\ Fits(End[4], End[5]) /\ ~NotLast(End[5])
    BY EndIs
  <2> HIDE DEF Fits, NotLast
  <2> QED
    BY <2>1 DEF Flows
<1>7. Flows(Release \o End \o <<>>)
  <2> DEFINE p == Release \o End \o <<>>
  <2>1. /\ p \in Seq(Code) /\ Len(p) = 7
        /\ Fits(p[1], p[2]) /\ Fits(p[2], p[3]) /\ Fits(p[3], p[4])
        /\ Fits(p[4], p[5]) /\ Fits(p[5], p[6]) /\ Fits(p[6], p[7]) /\ ~NotLast(p[7])
    BY LastLeaveIs
  <2> HIDE DEF p, Fits, NotLast
  <2>2. Flows(p)
    BY <2>1 DEF Flows
  <2> QED
    BY <2>2 DEF p
<1>8. Flows(Asked)
  <2>1. /\ Asked \in Seq(Code) /\ Len(Asked) = 3
        /\ Fits(Asked[1], Asked[2]) /\ Fits(Asked[2], Asked[3]) /\ ~NotLast(Asked[3])
    BY AskedIs
  <2> HIDE DEF Fits, NotLast
  <2> QED
    BY <2>1 DEF Flows
<1> QED
  BY <1>1, <1>2, <1>3, <1>4, <1>5, <1>6, <1>7, <1>8

\* The short ones, which are lists as they stand.
LEMMA LeaveIs ==
  ASSUME NEW a \in Agents
  PROVE  LET p == Leave(a)
         IN  /\ p \in Seq(Code) /\ Flows(p) /\ Len(p) = 2
             /\ Is(p[1], "mark", a) /\ Is(p[2], "count", a)
<1> DEFINE p == Leave(a)
<1>1. p \in Seq(Code) /\ Len(p) = 2 /\ Is(p[1], "mark", a) /\ Is(p[2], "count", a)
  BY Statements DEF Leave, Personal
<1>2. Fits(p[1], p[2]) /\ ~NotLast(p[2])
  BY <1>1 DEF Fits, MayFollow, MustFollow, NotLast, Is, Says
<1> QED
  BY <1>1, <1>2 DEF Flows

LEMMA TakeOverIs ==
  ASSUME NEW a \in Agents
  PROVE  LET p == TakeOver(a)
         IN  /\ p \in Seq(Code) /\ Flows(p) /\ Len(p) = 4
             /\ p[1].op = "live" /\ Is(p[2], "enter", a) /\ Is(p[3], "busy", a)
             /\ Says(p[4], "status", "human")
<1> DEFINE p == TakeOver(a)
<1>1. /\ p \in Seq(Code) /\ Len(p) = 4
      /\ p[1].op = "live" /\ Is(p[2], "enter", a) /\ Is(p[3], "busy", a)
      /\ Says(p[4], "status", "human")
  BY Statements DEF TakeOver, Personal
<1>2. Fits(p[1], p[2]) /\ Fits(p[2], p[3]) /\ Fits(p[3], p[4]) /\ ~NotLast(p[4])
  BY <1>1 DEF Fits, MayFollow, MustFollow, NotLast, Is, Says
<1> QED
  BY <1>1, <1>2 DEF Flows

LEMMA InterceptIs ==
  ASSUME NEW a \in Agents
  PROVE  LET p == Intercept(a)
         IN  /\ p \in Seq(Code) /\ Flows(p) /\ Len(p) = 5
             /\ p[1].op = "live" /\ Is(p[2], "intercept", a) /\ Is(p[3], "enter", a)
             /\ Is(p[4], "busy", a) /\ Says(p[5], "status", "human")
<1> DEFINE p == Intercept(a)
<1>1. /\ p \in Seq(Code) /\ Len(p) = 5
      /\ p[1].op = "live" /\ Is(p[2], "intercept", a) /\ Is(p[3], "enter", a)
      /\ Is(p[4], "busy", a) /\ Says(p[5], "status", "human")
  BY Statements DEF Intercept, Personal
<1>2. /\ Fits(p[1], p[2]) /\ Fits(p[2], p[3]) /\ Fits(p[3], p[4]) /\ Fits(p[4], p[5])
      /\ ~NotLast(p[5])
  BY <1>1 DEF Fits, MayFollow, MustFollow, NotLast, Is, Says
<1> QED
  BY <1>1, <1>2 DEF Flows

LEMMA ConsultationEndsIs ==
  ASSUME NEW a \in Agents
  PROVE  /\ Conference \in Seq(Code) /\ Flows(Conference) /\ Len(Conference) = 2
         /\ Conference[1].op = "live" /\ Conference[2].op = "unhold"
         /\ DropConsultant(a) \in Seq(Code) /\ Flows(DropConsultant(a))
         /\ Len(DropConsultant(a)) = 2
         /\ DropConsultant(a)[1].op = "live" /\ Is(DropConsultant(a)[2], "dropOther", a)
<1> DEFINE p == Conference  q == DropConsultant(a)
<1>1. /\ p \in Seq(Code) /\ Len(p) = 2 /\ p[1].op = "live" /\ p[2].op = "unhold"
      /\ q \in Seq(Code) /\ Len(q) = 2 /\ q[1].op = "live" /\ Is(q[2], "dropOther", a)
  BY Statements DEF Conference, DropConsultant, Personal
<1>2. Fits(p[1], p[2]) /\ ~NotLast(p[2]) /\ Fits(q[1], q[2]) /\ ~NotLast(q[2])
  BY <1>1 DEF Fits, MayFollow, MustFollow, NotLast, Is, Says
<1> QED
  BY <1>1, <1>2 DEF Flows

LEMMA SinglesFlow ==
  /\ <<>> \in Seq(Code) /\ Flows(<<>>)
  /\ \A x \in Code : ~NotLast(x) => <<x>> \in Seq(Code) /\ Flows(<<x>>)
<1>1. <<>> \in Seq(Code) /\ Flows(<<>>)
  BY DEF Flows
<1>2. ASSUME NEW x \in Code, ~NotLast(x) PROVE <<x>> \in Seq(Code) /\ Flows(<<x>>)
  BY <1>2 DEF Flows
<1> QED
  BY <1>1, <1>2
-----------------------------------------------------------------------------
\* The list of a handler stays a list of that kind, whatever it does next.

LEMMA Running ==
  ASSUME FlowTypeInv, NEW w \in Handlers, NEW op, Op(w, op)
  PROVE  /\ todo[w] \in Seq(Code) /\ Flows(todo[w]) /\ todo[w] # <<>>
         /\ Now(w) = todo[w][1] /\ Now(w) \in Code /\ Now(w).op = op
         /\ Rest(w) = Tail(todo[w]) /\ Rest(w) \in Seq(Code) /\ Flows(Rest(w))
         /\ Rest(w) # <<>> => Fits(Now(w), Rest(w)[1])
         /\ Rest(w) = <<>> => ~NotLast(Now(w))
<1> DEFINE s == todo[w]
<1>1. s \in Seq(Code) /\ Flows(s) /\ s # <<>> /\ Head(s).op = op
  BY DEF FlowTypeInv, Op
<1>2. Now(w) = Head(s) /\ Rest(w) = Tail(s)
  BY DEF Now, Rest
<1> HIDE DEF s
<1>3. /\ Head(s) = s[1] /\ s[1] \in Code
      /\ Tail(s) # <<>> => Len(s) > 1 /\ Tail(s)[1] = s[2]
      /\ Tail(s) = <<>> => Len(s) = 1
  <2>1. Head(s) = s[1] /\ s[1] \in Code
    BY <1>1
  <2>2. /\ Tail(s) \in Seq(Code) /\ Len(Tail(s)) = Len(s) - 1
        /\ \A i \in 1..Len(Tail(s)) : Tail(s)[i] = s[i + 1]
    BY <1>1, HeadTailProperties
  <2>3. Tail(s) # <<>> => Len(Tail(s)) > 0
    BY <2>2
  <2>4. Tail(s) = <<>> => Len(Tail(s)) = 0
    BY EmptySeq
  <2>5. Len(Tail(s)) > 0 => Tail(s)[1] = s[1 + 1]
    BY <2>2
  <2>6. Len(s) \in Nat
    BY <1>1
  <2> QED
    BY <2>1, <2>2, <2>3, <2>4, <2>5, <2>6
<1>4. /\ Tail(s) # <<>> => Fits(s[1], Tail(s)[1])
      /\ Tail(s) = <<>> => ~NotLast(s[1])
  BY <1>1, <1>3 DEF Flows
<1>5. Tail(s) \in Seq(Code) /\ Flows(Tail(s))
  BY <1>1, TailFlows
<1> QED
  BY <1>1, <1>2, <1>3, <1>4, <1>5 DEF s

LEMMA ListsKept ==
  ASSUME FlowTypeInv, NEW w \in Handlers, NEW p \in Seq(Code), Flows(p),
         todo' = [todo EXCEPT ![w] = p]
  PROVE  /\ todo' \in [Handlers -> Seq(Code)]
         /\ \A v \in Handlers : Flows(todo'[v])
         /\ \A v \in Handlers : \A i \in DOMAIN todo'[v] : todo'[v][i] \in Stmt
<1>1. todo' \in [Handlers -> Seq(Code)]
  BY DEF FlowTypeInv
<1>2. \A v \in Handlers : Flows(todo'[v])
  BY DEF FlowTypeInv
<1>3. ASSUME NEW v \in Handlers, NEW i \in DOMAIN todo'[v] PROVE todo'[v][i] \in Stmt
  <2>1. todo'[v] \in Seq(Code)
    BY <1>1
  <2>2. todo'[v][i] \in Code
    BY <2>1, <1>3
  <2> QED
    BY <2>2 DEF Code
<1> QED
  BY <1>1, <1>2, <1>3

\* A statement in front of the rest of the list, in the place of the one that ran.
LEMMA Spliced ==
  ASSUME FlowTypeInv, NEW w \in Handlers
  PROVE  /\ Op(w, "count") => Rest(w) = <<>>
         /\ Op(w, "dropOther") => Rest(w) = <<>>
         /\ \A b \in Agents : Op(w, "intercept") =>
              FreeUser(b) \o Rest(w) \in Seq(Code) /\ Flows(FreeUser(b) \o Rest(w))
         /\ \A b \in Agents : Op(w, "freeRead") =>
              /\ <<For("freeWrite", b)>> \o Rest(w) \in Seq(Code)
              /\ Flows(<<For("freeWrite", b)>> \o Rest(w))
         /\ \A b \in Agents : Op(w, "count") =>
              FreeUser(b) \o Rest(w) \in Seq(Code) /\ Flows(FreeUser(b) \o Rest(w))
         /\ Op(w, "hold") => HoldOn \o Rest(w) \in Seq(Code) /\ Flows(HoldOn \o Rest(w))
         /\ Op(w, "unhold") => HoldOff \o Rest(w) \in Seq(Code) /\ Flows(HoldOff \o Rest(w))
<1> USE DEF Fits, MayFollow, MustFollow, NotLast, Is, Says
<1>1. \A op \in {"count", "dropOther"} : Op(w, op) => Rest(w) = <<>>
  <2> SUFFICES ASSUME NEW op \in {"count", "dropOther"}, Op(w, op), Rest(w) # <<>>
               PROVE  FALSE
    OBVIOUS
  <2>1. Fits(Now(w), Rest(w)[1]) /\ Now(w).op = op /\ Rest(w) \in Seq(Code)
    BY Running
  <2>2. Rest(w)[1] \in Code
    BY <2>1
  <2> QED
    BY <2>1, <2>2 DEF Code, Stmt
<1>2. ASSUME NEW b \in Agents, Op(w, "intercept") \/ Op(w, "count")
      PROVE  FreeUser(b) \o Rest(w) \in Seq(Code) /\ Flows(FreeUser(b) \o Rest(w))
  <2> DEFINE x == For("freeRead", b)
  <2>1. /\ Rest(w) \in Seq(Code) /\ Flows(Rest(w))
        /\ Rest(w) # <<>> => Now(w).op = "intercept" /\ Fits(Now(w), Rest(w)[1])
    BY <1>1, <1>2, Running
  <2>2. x \in Code /\ Is(x, "freeRead", b)
    BY Statements DEF Personal
  <2>3. Rest(w) # <<>> => Fits(x, Rest(w)[1])
    BY <2>1, <2>2
  <2>4. ~NotLast(x)
    BY <2>2
  <2> HIDE DEF x, Fits, NotLast
  <2>5. <<x>> \o Rest(w) \in Seq(Code) /\ Flows(<<x>> \o Rest(w))
    BY <2>1, <2>2, <2>3, <2>4, FrontFlows
  <2> QED
    BY <2>5 DEF x, FreeUser
<1>3. ASSUME NEW b \in Agents, Op(w, "freeRead")
      PROVE  /\ <<For("freeWrite", b)>> \o Rest(w) \in Seq(Code)
             /\ Flows(<<For("freeWrite", b)>> \o Rest(w))
  <2> DEFINE x == For("freeWrite", b)
  <2>1. /\ Rest(w) \in Seq(Code) /\ Flows(Rest(w)) /\ Now(w).op = "freeRead"
        /\ Rest(w) # <<>> => Fits(Now(w), Rest(w)[1])
    BY <1>3, Running
  <2>2. x \in Code /\ Is(x, "freeWrite", b)
    BY Statements DEF Personal
  <2>3. Rest(w) # <<>> => Fits(x, Rest(w)[1])
    BY <2>1, <2>2
  <2>4. ~NotLast(x)
    BY <2>2
  <2> HIDE DEF x, Fits, NotLast
  <2>5. <<x>> \o Rest(w) \in Seq(Code) /\ Flows(<<x>> \o Rest(w))
    BY <2>1, <2>2, <2>3, <2>4, FrontFlows
  <2> QED
    BY <2>5 DEF x
<1>4. ASSUME NEW o \in {"on", "off"}, Op(w, IF o = "on" THEN "hold" ELSE "unhold")
      PROVE  LET p == <<As("setHeld", o), As("music", o)>> \o Rest(w)
             IN  p \in Seq(Code) /\ Flows(p)
  <2> DEFINE x == As("setHeld", o)  y == As("music", o)
  <2>1. /\ Rest(w) \in Seq(Code) /\ Flows(Rest(w))
        /\ Now(w).op = IF o = "on" THEN "hold" ELSE "unhold"
        /\ Rest(w) # <<>> => Fits(Now(w), Rest(w)[1])
    BY <1>4, Running
  <2>2. x \in Code /\ Says(x, "setHeld", o) /\ y \in Code /\ Says(y, "music", o)
    BY Statements
  <2>3. Rest(w) # <<>> => Fits(y, Rest(w)[1])
    BY <2>1, <2>2
  <2>4. ~NotLast(y) /\ Fits(x, y)
    BY <2>2
  <2> HIDE DEF x, y, Fits, NotLast
  <2>5. <<x, y>> \o Rest(w) \in Seq(Code) /\ Flows(<<x, y>> \o Rest(w))
    BY <2>1, <2>2, <2>3, <2>4, FrontsFlow
  <2> QED
    BY <2>5 DEF x, y
<1>5. Op(w, "hold") => HoldOn \o Rest(w) \in Seq(Code) /\ Flows(HoldOn \o Rest(w))
  BY <1>4 DEF HoldOn
<1>6. Op(w, "unhold") => HoldOff \o Rest(w) \in Seq(Code) /\ Flows(HoldOff \o Rest(w))
  BY <1>4 DEF HoldOff
<1> QED
  BY <1>1, <1>2, <1>3, <1>5, <1>6

\* The next list of a handler that runs a statement.
LEMMA StepLists ==
  ASSUME FlowTypeInv, NEW w \in Handlers, Step(w)
  PROVE  \E p \in Seq(Code) : Flows(p) /\ todo' = [todo EXCEPT ![w] = p] /\ UNCHANGED requests
<1>1. ASSUME NEW op, Op(w, op), Goon(w)
      PROVE  \E p \in Seq(Code) : Flows(p) /\ todo' = [todo EXCEPT ![w] = p] /\ UNCHANGED requests
  BY <1>1, Running DEF Goon, Run
<1>2. CASE Ask(w)
  <2>1. CASE call.status = "ended"
    BY <1>1, <1>2, <2>1 DEF Ask
  <2>2. CASE call.status # "ended"
    BY <1>2, <2>2, AskedIs, MethodsFlow DEF Ask, Run, Asked
  <2> QED
    BY <2>1, <2>2
<1>3. CASE Decide(w)
  <2>1. CASE Op(w, "live") \/ Op(w, "over")
    <3>1. Run(w, IF call.status = "ended" THEN <<>> ELSE Rest(w))
      BY <1>3, <2>1 DEF Decide, Op
    <3> QED
      BY <2>1, <3>1, Running, SinglesFlow DEF Run
  <2>2. CASE Op(w, "count")
    <3>1. Run(w, IF humans \ {Now(w).who} # {} THEN FreeUser(Now(w).who) \o Rest(w)
                 ELSE Release \o End \o Rest(w))
      BY <1>3, <2>2 DEF Decide, Op
    <3>2. Now(w).who \in Agents /\ Rest(w) = <<>>
      BY <2>2, Running, Spliced DEF Code, Personal
    <3>3. FreeUser(Now(w).who) \o Rest(w) \in Seq(Code) /\ Flows(FreeUser(Now(w).who) \o Rest(w))
      BY <2>2, <3>2, Spliced
    <3>4. Release \o End \o Rest(w) \in Seq(Code) /\ Flows(Release \o End \o Rest(w))
      BY <3>2, LastLeaveIs, MethodsFlow
    <3> QED
      BY <3>1, <3>3, <3>4 DEF Run
  <2>3. CASE Op(w, "freeRead")
    <3>1. Run(w, IF work[Now(w).who] = "busy" THEN <<For("freeWrite", Now(w).who)>> \o Rest(w)
                 ELSE Rest(w))
      BY <1>3, <2>3 DEF Decide, Op
    <3>2. Now(w).who \in Agents /\ Rest(w) \in Seq(Code) /\ Flows(Rest(w))
      BY <2>3, Running DEF Code, Personal
    <3>3. /\ <<For("freeWrite", Now(w).who)>> \o Rest(w) \in Seq(Code)
          /\ Flows(<<For("freeWrite", Now(w).who)>> \o Rest(w))
      BY <2>3, <3>2, Spliced
    <3> QED
      BY <3>1, <3>2, <3>3 DEF Run
  <2>4. CASE Op(w, "hold")
    <3>1. Run(w, (IF call.held \/ call.status = "ended" THEN <<>> ELSE HoldOn) \o Rest(w))
      BY <1>3, <2>4 DEF Decide, Op
    <3>2. Rest(w) \in Seq(Code) /\ Flows(Rest(w)) /\ <<>> \o Rest(w) = Rest(w)
      BY <2>4, Running, ConcatEmptySeq
    <3> QED
      BY <2>4, <3>1, <3>2, Spliced DEF Run
  <2>5. CASE Op(w, "unhold")
    <3>1. Run(w, (IF call.held THEN HoldOff ELSE <<>>) \o Rest(w))
      BY <1>3, <2>5 DEF Decide, Op
    <3>2. Rest(w) \in Seq(Code) /\ Flows(Rest(w)) /\ <<>> \o Rest(w) = Rest(w)
      BY <2>5, Running, ConcatEmptySeq
    <3> QED
      BY <2>5, <3>1, <3>2, Spliced DEF Run
  <2> QED
    BY <1>3, <2>1, <2>2, <2>3, <2>4, <2>5 DEF Decide
<1>4. CASE WriteStatus(w)
  BY <1>1, <1>4 DEF WriteStatus
<1>5. CASE WriteHeld(w)
  BY <1>1, <1>5 DEF WriteHeld
<1>6. CASE TellMedia(w)
  BY <1>1, <1>6 DEF TellMedia
<1>7. CASE Seat(w)
  <2>1. CASE Op(w, "mark") \/ Op(w, "enter")
    BY <1>1, <1>7, <2>1 DEF Seat, Op
  <2>2. CASE Op(w, "intercept") \/ Op(w, "dropOther")
    <3>1. CASE Goon(w)
      BY <1>1, <2>2, <3>1
    <3>2. CASE ~Goon(w) /\ Op(w, "intercept")
      <4>1. PICK b \in humans : Run(w, FreeUser(b) \o Rest(w))
        BY <1>7, <3>2 DEF Seat, Op
      <4>2. b \in Agents
        BY DEF FlowTypeInv, TypeOK
      <4> QED
        BY <3>2, <4>1, <4>2, Spliced DEF Run
    <3>3. CASE ~Goon(w) /\ Op(w, "dropOther")
      <4>1. PICK b \in humans : Run(w, FreeUser(b))
        BY <1>7, <3>3 DEF Seat, Op
      <4>2. b \in Agents
        BY DEF FlowTypeInv, TypeOK
      <4>3. For("freeRead", b) \in Code /\ ~NotLast(For("freeRead", b))
        BY <4>2, Statements DEF Personal, NotLast, Is, Says
      <4> QED
        BY <4>1, <4>3, SinglesFlow DEF FreeUser, Run
    <3> QED
      BY <2>2, <3>1, <3>2, <3>3
  <2> QED
    BY <1>7, <2>1, <2>2 DEF Seat
<1>8. CASE Presence(w)
  BY <1>1, <1>8 DEF Presence
<1>9. CASE Row(w)
  BY <1>1, <1>9 DEF Row
<1>10. CASE Dispatch(w)
  BY <1>1, <1>10 DEF Dispatch
<1>11. CASE Wait(w)
  BY <1>1, <1>11 DEF Wait
<1>12. CASE Publish(w)
  BY <1>1, <1>12 DEF Publish
<1> QED
  BY <1>2, <1>3, <1>4, <1>5, <1>6, <1>7, <1>8, <1>9, <1>10, <1>11, <1>12 DEF Step

\* The first list of a request, and of a handler of the ring.
LEMMA RequestLists ==
  ASSUME FlowTypeInv, NEW w \in Handlers,
         \/ \E aiFirst \in BOOLEAN : Create(w, aiFirst)
         \/ Escalate(w) \/ AIEnds(w) \/ RingCloses(w)
         \/ \E a \in Agents : Accept(w, a) \/ Desk(w, a) \/ Supervise(w, a)
  PROVE  /\ todo[w] = <<>> /\ requests' \in 0..MaxRequests
         /\ \E p \in Seq(Code) : Flows(p) /\ todo' = [todo EXCEPT ![w] = p]
<1> DEFINE Goal == /\ todo[w] = <<>> /\ requests' \in 0..MaxRequests
                   /\ \E p \in Seq(Code) : Flows(p) /\ todo' = [todo EXCEPT ![w] = p]
<1>1. ASSUME NEW p \in Seq(Code), Flows(p), Available(w), Begin(w, p) \/ Run(w, p)
      PROVE  Goal
  <2>1. requests' \in 0..MaxRequests
    BY <1>1, CallFlowAssumption DEF FlowTypeInv, TypeOK, Begin, Run
  <2> QED
    BY <1>1, <2>1 DEF Begin, Run, Available
<1>2. ASSUME NEW x \in Code, ~NotLast(x), Available(w), Begin(w, <<x>>)
      PROVE  Goal
  <2>1. <<x>> \in Seq(Code) /\ Flows(<<x>>)
    BY <1>2, SinglesFlow
  <2> HIDE DEF Goal
  <2> QED
    BY <1>1, <1>2, <2>1
<1> HIDE DEF Goal
<1>3. \A op \in {"ask", "hold", "unhold"} : Do(op) \in Code /\ ~NotLast(Do(op))
  BY Statements DEF NotLast, Says
<1>4. ASSUME NEW aiFirst \in BOOLEAN, Create(w, aiFirst) PROVE Goal
  <2> DEFINE o == Offer(Agents, "fallback")
  <2>1. o \in Seq(Code) /\ Len(o) = 1 /\ o[1].op = "offer"
    BY Offers
  <2> HIDE DEF o
  <2>2. ~NotLast(o[1])
    BY <2>1 DEF NotLast, Says
  <2>3. Flows(o)
    BY <2>1, <2>2 DEF Flows
  <2>4. Begin(w, IF aiFirst THEN <<>> ELSE o) /\ Available(w)
    BY <1>4 DEF Create, o
  <2> QED
    BY <1>1, <2>1, <2>3, <2>4, SinglesFlow
<1>5. CASE Escalate(w)
  <2>1. Available(w) /\ Begin(w, <<Do("ask")>>)
    BY <1>5 DEF Escalate
  <2> QED
    BY <1>2, <1>3, <2>1 DEF Goal
<1>6. CASE AIEnds(w)
  <2>1. Available(w) /\ Begin(w, End)
    BY <1>6 DEF AIEnds
  <2>2. End \in Seq(Code) /\ Flows(End)
    BY EndIs, MethodsFlow
  <2> QED
    BY <1>1, <2>1, <2>2 DEF Goal
<1>7. CASE RingCloses(w)
  <2>1. ring.fallback \in BOOLEAN
    BY DEF FlowTypeInv, TypeOK
  <2>2. Available(w) /\ Run(w, Nobody(ring.fallback))
    BY <1>7 DEF RingCloses
  <2>3. Nobody(ring.fallback) \in Seq(Code) /\ Flows(Nobody(ring.fallback))
    BY <2>1, NobodyIs, MethodsFlow
  <2> QED
    BY <1>1, <2>2, <2>3 DEF Goal
<1>8. ASSUME NEW a \in Agents, Accept(w, a) PROVE Goal
  <2>1. ring.retrieve \in BOOLEAN
    BY DEF FlowTypeInv, TypeOK
  <2> QED
    BY <1>1, <1>8, <2>1, AcceptedIs, MethodsFlow DEF Accept
<1>9. ASSUME NEW a \in Agents, Supervise(w, a) PROVE Goal
  BY <1>1, <1>9, TakeOverIs, InterceptIs DEF Supervise, Request
<1>10. ASSUME NEW a \in Agents, Desk(w, a) PROVE Goal
  <2>1. CASE LeaveRoute(w, a)
    BY <1>1, <2>1, LeaveIs DEF LeaveRoute, Request
  <2>2. CASE HoldRoute(w) \/ RetrieveRoute(w)
    BY <1>2, <1>3, <2>2 DEF HoldRoute, RetrieveRoute, Request
  <2>3. CASE TransferConsult(w, a)
    <3>1. ASSUME NEW m \in {Agents \ {a}} \cup {{b} : b \in Agents \ {a}}, TransferRoute(w, a, m)
          PROVE  Goal
      <4>1. m \in SUBSET Agents
        OBVIOUS
      <4> QED
        BY <1>1, <3>1, <4>1, TransferIs, MethodsFlow DEF TransferRoute, Request
    <3>2. ASSUME NEW b \in Agents, ConsultRoute(w, a, b) PROVE Goal
      BY <1>1, <3>2, ConsultIs, MethodsFlow DEF ConsultRoute, Request
    <3>3. CASE CompleteRoute(w, a)
      BY <1>1, <3>3, HandOverIs, ConsultationEndsIs, MethodsFlow DEF CompleteRoute, Request
    <3> QED
      BY <2>3, <3>1, <3>2, <3>3 DEF TransferConsult
  <2> QED
    BY <1>10, <2>1, <2>2, <2>3 DEF Desk
<1> QED
  BY <1>4, <1>5, <1>6, <1>7, <1>8, <1>9, <1>10 DEF Goal

-----------------------------------------------------------------------------
\* Types.

LEMMA TypeInit == Init => FlowTypeInv
<1> SUFFICES ASSUME Init PROVE FlowTypeInv
  OBVIOUS
<1>1. todo \in [Handlers -> Seq(Code)] /\ \A w \in Handlers : todo[w] = <<>>
  BY SinglesFlow DEF Init
<1>2. \A w \in Handlers : Flows(todo[w])
  BY <1>1, SinglesFlow
<1>3. ring \in [open: BOOLEAN, agent: Agents \cup {None}, members: SUBSET Agents,
                retrieve: BOOLEAN, fallback: BOOLEAN] /\ ring = Quiet
  BY DEF Init, Quiet
<1>4. bus \in Seq({"accepted", "nobody"}) /\ Len(bus) <= MaxBus
  BY CallFlowAssumption DEF Init
<1>5. /\ call \in [status: Statuses, held: BOOLEAN, endedAt: BOOLEAN]
      /\ humans \subseteq Agents
      /\ work \in [Agents -> {"free", "busy", "acw"}]
  BY DEF Init, Statuses
<1>6. /\ ai \in {"none", "talking", "handed"} /\ fallbacks \in 0..2
      /\ poll \in {"idle", "open", "accepted", "nobody"}
  BY DEF Init
<1>9. music \in BOOLEAN /\ waiter \in BOOLEAN
  BY DEF Init
<1>8. requests \in 0..MaxRequests
  BY CallFlowAssumption DEF Init
<1>7. \A w \in Handlers : \A i \in DOMAIN todo[w] : todo[w][i] \in Stmt
  BY <1>1
<1> QED
  BY <1>1, <1>2, <1>3, <1>4, <1>5, <1>6, <1>7, <1>8, <1>9 DEF FlowTypeInv, TypeOK

\* The lists and the count of requests, apart from the state of the call.
ListsOK ==
  /\ todo \in [Handlers -> Seq(Code)]
  /\ \A w \in Handlers : Flows(todo[w])
  /\ \A w \in Handlers : \A i \in DOMAIN todo[w] : todo[w][i] \in Stmt
  /\ requests \in 0..MaxRequests

LEMMA ListsOKStep == FlowTypeInv /\ [Next]_vars => ListsOK'
<1> SUFFICES ASSUME FlowTypeInv, [Next]_vars PROVE ListsOK'
  OBVIOUS
<1>1. CASE UNCHANGED <<todo, requests>>
  BY <1>1 DEF ListsOK, FlowTypeInv, TypeOK
<1>2. ASSUME NEW w \in Handlers, NEW p \in Seq(Code), Flows(p), todo' = [todo EXCEPT ![w] = p],
             requests' \in 0..MaxRequests
      PROVE  ListsOK'
  BY <1>2, ListsKept DEF ListsOK
<1>3. ASSUME NEW w \in Handlers, Step(w) PROVE ListsOK'
  BY <1>2, <1>3, StepLists DEF FlowTypeInv, TypeOK
<1>4. ASSUME NEW w \in Handlers,
             \/ \E aiFirst \in BOOLEAN : Create(w, aiFirst)
             \/ Escalate(w) \/ AIEnds(w) \/ RingCloses(w)
             \/ \E a \in Agents : Accept(w, a) \/ Desk(w, a) \/ Supervise(w, a)
      PROVE  ListsOK'
  BY <1>2, <1>4, RequestLists
<1>5. CASE \/ \E a \in Agents : RingAgent(a) \/ WrapUpEnds(a)
           \/ Deliver \/ Heard \/ HandOff
  BY <1>1, <1>5 DEF RingAgent, WrapUpEnds, Deliver, Heard, HandOff
<1>6. CASE UNCHANGED vars
  BY <1>1, <1>6 DEF vars
<1> QED
  BY <1>3, <1>4, <1>5, <1>6 DEF Next

\* The state of the call.
StateOK ==
  /\ call \in [status: Statuses, held: BOOLEAN, endedAt: BOOLEAN]
  /\ humans \subseteq Agents
  /\ work \in [Agents -> {"free", "busy", "acw"}]
  /\ ring \in [open: BOOLEAN, agent: Agents \cup {None}, members: SUBSET Agents,
               retrieve: BOOLEAN, fallback: BOOLEAN]
  /\ ring.open \/ ring = Quiet
  /\ ai \in {"none", "talking", "handed"} /\ fallbacks \in 0..2
  /\ music \in BOOLEAN /\ waiter \in BOOLEAN
  /\ poll \in {"idle", "open", "accepted", "nobody"}
  /\ bus \in Seq({"accepted", "nobody"}) /\ Len(bus) <= MaxBus

LEMMA TypeParts == FlowTypeInv <=> StateOK /\ ListsOK
BY DEF FlowTypeInv, TypeOK, StateOK, ListsOK

LEMMA StateOKRequest ==
  ASSUME FlowTypeInv, NEW w \in Handlers,
         \/ \E aiFirst \in BOOLEAN : Create(w, aiFirst)
         \/ Escalate(w) \/ AIEnds(w) \/ RingCloses(w)
         \/ \E a \in Agents : Accept(w, a) \/ Desk(w, a) \/ Supervise(w, a)
  PROVE  StateOK'
<1> USE TypeParts DEF StateOK
<1>1. Quiet \in [open: BOOLEAN, agent: Agents \cup {None}, members: SUBSET Agents,
                 retrieve: BOOLEAN, fallback: BOOLEAN]
  BY DEF Quiet
<1>2. CASE \E aiFirst \in BOOLEAN : Create(w, aiFirst)
  BY <1>2 DEF Create, Statuses
<1>3. CASE Escalate(w) \/ AIEnds(w)
  BY <1>3 DEF Escalate, AIEnds
<1>4. CASE RingCloses(w)
  BY <1>1, <1>4 DEF RingCloses
<1>5. CASE \E a \in Agents : Accept(w, a)
  BY <1>1, <1>5 DEF Accept
<1>6. CASE \E a \in Agents : Desk(w, a) \/ Supervise(w, a)
  BY <1>6 DEF Desk, Supervise, LeaveRoute, HoldRoute, RetrieveRoute, TransferConsult, TransferRoute,
              ConsultRoute, CompleteRoute, Request
<1> QED
  BY <1>2, <1>3, <1>4, <1>5, <1>6

LEMMA StateOKStep ==
  ASSUME FlowTypeInv, NEW w \in Handlers, Step(w)
  PROVE  StateOK'
<1> USE TypeParts DEF StateOK
<1>1. CASE Ask(w) \/ Decide(w) \/ TellMedia(w) \/ Wait(w)
  BY <1>1 DEF Ask, Decide, TellMedia, Wait
<1>2. CASE WriteStatus(w)
  <2>1. Now(w).what \in Statuses
    BY <1>2, Running DEF WriteStatus, Code, Statuses
  <2> QED
    BY <1>2, <2>1 DEF WriteStatus
<1>3. CASE WriteHeld(w)
  BY <1>3 DEF WriteHeld
<1>4. CASE Seat(w)
  <2>1. Op(w, "enter") => Now(w).who \in Agents
    BY Running DEF Code, Personal
  <2> QED
    BY <1>4, <2>1 DEF Seat
<1>5. CASE Presence(w)
  BY <1>5 DEF Presence, Freed
<1>6. CASE Row(w)
  <2>1. Op(w, "offer") => Now(w).members \in SUBSET Agents
    BY Running DEF Code, Stmt
  <2> DEFINE Rows == [open: BOOLEAN, agent: Agents \cup {None}, members: SUBSET Agents,
                      retrieve: BOOLEAN, fallback: BOOLEAN]
  <2>2. Quiet \in Rows
    BY DEF Quiet
  <2>3. ASSUME NEW m \in SUBSET Agents, NEW r \in BOOLEAN, NEW f \in BOOLEAN
        PROVE  LET q == [Quiet EXCEPT !.open = TRUE, !.members = m, !.retrieve = r, !.fallback = f]
               IN  q \in Rows /\ q.open
    BY DEF Quiet
  <2>4. ring' \in Rows /\ (ring'.open \/ ring' = Quiet)
    <3>1. CASE Op(w, "drop") /\ ring' = Quiet
      BY <2>2, <3>1
    <3>2. CASE ring' = ring
      BY <3>2
    <3>3. CASE /\ Op(w, "offer")
               /\ ring' = [Quiet EXCEPT !.open = TRUE, !.members = Now(w).members,
                                        !.retrieve = Now(w).what = "retrieve",
                                        !.fallback = Now(w).what = "fallback"]
      <4>1. Now(w).members \in SUBSET Agents
        BY <2>1, <3>3
      <4> DEFINE r == Now(w).what = "retrieve"  f == Now(w).what = "fallback"
      <4>2. r \in BOOLEAN /\ f \in BOOLEAN
        OBVIOUS
      <4>3. ring' = [Quiet EXCEPT !.open = TRUE, !.members = Now(w).members,
                                  !.retrieve = r, !.fallback = f]
        BY <3>3
      <4> HIDE DEF r, f, Rows
      <4> QED
        BY <2>3, <4>1, <4>2, <4>3
    <3> QED
      BY <1>6, <3>1, <3>2, <3>3 DEF Row
  <2> HIDE DEF Rows
  <2>5. UNCHANGED <<call, humans, work, ai, fallbacks, music, poll, waiter, bus>>
    BY <1>6 DEF Row
  <2> QED
    BY <2>4, <2>5 DEF Rows
<1>7. CASE Dispatch(w)
  BY <1>7 DEF Dispatch
<1>8. CASE Publish(w)
  <2>1. Now(w).what \in {"accepted", "nobody"}
    BY <1>8, Running DEF Publish, Code
  <2>2. bus' \in Seq({"accepted", "nobody"}) /\ Len(bus') = Len(bus) + 1
    BY <1>8, <2>1 DEF Publish
  <2>3. Len(bus') <= MaxBus
    BY <1>8, <2>2, CallFlowAssumption DEF Publish
  <2> QED
    BY <1>8, <2>2, <2>3 DEF Publish
<1> QED
  BY <1>1, <1>2, <1>3, <1>4, <1>5, <1>6, <1>7, <1>8 DEF Step

LEMMA TypeStep == FlowTypeInv /\ [Next]_vars => FlowTypeInv'
<1> SUFFICES ASSUME FlowTypeInv, [Next]_vars PROVE FlowTypeInv'
  OBVIOUS
<1>1. ListsOK'
  BY ListsOKStep
<1>2. StateOK'
  <2> USE TypeParts DEF StateOK
  <2>1. ASSUME NEW a \in Agents, RingAgent(a) \/ WrapUpEnds(a) PROVE StateOK'
    BY <2>1 DEF RingAgent, WrapUpEnds
  <2>2. CASE Deliver
    <3>1. Head(bus) \in {"accepted", "nobody"} /\ Tail(bus) \in Seq({"accepted", "nobody"})
      BY <2>2 DEF Deliver
    <3>2. Len(Tail(bus)) <= MaxBus
      BY <2>2, CallFlowAssumption DEF Deliver
    <3> QED
      BY <2>2, <3>1, <3>2 DEF Deliver
  <2>3. CASE Heard \/ HandOff
    BY <2>3 DEF Heard, HandOff
  <2>4. CASE UNCHANGED vars
    BY <2>4 DEF vars
  <2> HIDE DEF StateOK
  <2> QED
    BY <2>1, <2>2, <2>3, <2>4, StateOKRequest, StateOKStep DEF Next
<1>3. FlowTypeInv' <=> StateOK' /\ ListsOK'
  BY TypeParts, PTL
<1> QED
  BY <1>1, <1>2, <1>3

\* Every statement in flight is one of Flow's, with an operand its code understands; the
\* bus holds outcomes; the row of the ring is whole or gone.  For any number of agents,
\* handlers in flight and requests.
THEOREM FlowTypeInvariant == Spec => []FlowTypeInv
BY TypeInit, TypeStep, PTL DEF Spec

\* Every reachable state is well typed.
THEOREM FlowTypeCorrect == Spec => []TypeOK
<1>1. FlowTypeInv => TypeOK
  BY DEF FlowTypeInv
<1> QED
  BY <1>1, FlowTypeInvariant, PTL

-----------------------------------------------------------------------------
(***************************************************************************)
(* What a list says about the call, and the first lists of requests.       *)
(***************************************************************************)

Opens(s, op) == Len(s) > 0 /\ s[1].op = op
OpensFor(s, op, a) == Len(s) > 0 /\ Is(s[1], op, a)

\* What a handler may still do to a call that is over.
Harmless(s) ==
  \A i \in 1..Len(s) :
    \/ s[i].op \in {"mark", "count", "freeRead", "freeWrite", "drop", "freeAll", "publish",
                    "over", "unhold", "setHeld", "music"}
    \/ Says(s[i], "status", "ended")

\* An agent who enters is made busy next, or was made busy by accept() before.
Seats(s, present) ==
  \A i \in 1..Len(s) : s[i].op = "enter" =>
    \/ i < Len(s) /\ Is(s[i + 1], "busy", s[i].who)
    \/ i = 4 /\ Is(s[1], "busy", s[4].who) /\ s[2].op = "publish" /\ s[3].op = "live"
    \/ /\ present[s[i].who] = "busy"
       /\ \/ i = 1
          \/ i = 2 /\ s[1].op = "live"
          \/ i = 3 /\ s[1].op = "publish" /\ s[2].op = "live"

\* Whoever leaves is the last one, is followed by a ring or an end, or leaves others behind.
Leaves(s, seated) ==
  /\ \A i \in 1..Len(s) : s[i].op = "mark" =>
       \/ \E j \in 1..Len(s) : i < j /\ (s[j].op = "count" \/ Says(s[j], "status", "waiting_human"))
       \/ \E b \in seated : b # s[i].who
  /\ \A i \in 1..Len(s) : s[i].op = "dropOther" => s[i].who \in seated
  /\ \A i, j \in 1..Len(s) :
       i < j /\ s[i].op \in {"mark", "intercept"} => s[j].op \notin {"mark", "dropOther"}

\* The first list of a handler, and what it takes for it to start.
Fresh(p) ==
  /\ Len(p) > 0 =>
       /\ p[1].op \notin {"music", "count", "freeRead", "freeWrite", "drop", "freeAll", "enter"}
       /\ p[1].op = "status" => p[1].what = "ai"
  /\ Opens(p, "busy") =>
       /\ ring.open /\ Len(p) > 3
       /\ p[2].op = "publish" /\ p[3].op = "live" /\ Is(p[4], "enter", p[1].who)
  /\ Opens(p, "live") \/ Opens(p, "ask") \/ Harmless(p) \/ call.status # "ended" \/ ring.open
  /\ Opens(p, "over") => Harmless(p)
  /\ Seats(p, work) /\ Leaves(p, humans)

LEMMA FreshOfDesk ==
  ASSUME FlowTypeInv, NEW a \in humans, NEW p \in Seq(Code),
         \/ p = Leave(a)
         \/ \E m \in SUBSET Agents : p = Transfer(a, m)
         \/ \E b \in Agents : p = Consult(a, b)
         \/ p = HandOver(a) /\ humans # {a}
         \/ p = Conference \/ p = DropConsultant(a)
  PROVE  Fresh(p)
<1> USE DEF Fresh, Opens, Harmless, Seats, Leaves, Is, Says
<1> a \in Agents
  BY DEF FlowTypeInv, TypeOK
<1>1. CASE p = Leave(a)
  BY <1>1, LeaveIs
<1>2. ASSUME NEW m \in SUBSET Agents, p = Transfer(a, m) PROVE Fresh(p)
  <2>1. /\ Len(p) = 6
        /\ p[1].op = "live" /\ Is(p[2], "mark", a) /\ Is(p[3], "freeRead", a)
        /\ p[4].op = "hold" /\ Says(p[5], "status", "waiting_human") /\ p[6].op = "offer"
    BY <1>2, TransferIs
  <2> QED
    BY <2>1
<1>3. ASSUME NEW b \in Agents, p = Consult(a, b) PROVE Fresh(p)
  <2>1. Len(p) = 3 /\ p[1].op = "live" /\ p[2].op = "hold" /\ p[3].op = "offer"
    BY <1>3, ConsultIs
  <2> QED
    BY <2>1
<1>4. CASE p = HandOver(a) /\ humans # {a}
  BY <1>4, HandOverIs
<1>5. CASE p = Conference \/ p = DropConsultant(a)
  BY <1>5, ConsultationEndsIs
<1> QED
  BY <1>1, <1>2, <1>3, <1>4, <1>5

LEMMA FreshOfOthers ==
  ASSUME FlowTypeInv, NEW p \in Seq(Code),
         \/ \E a \in Agents : p = TakeOver(a) \/ p = Intercept(a)
         \/ \E a \in Agents : \E r \in BOOLEAN : ring.open /\ p = Accepted(a, r)
         \/ \E f \in BOOLEAN : ring.open /\ p = Nobody(f)
         \/ call.status # "ended" /\ (p = Offer(Agents, "fallback") \/ p = <<Do("hold")>>)
         \/ p = <<Do("unhold")>> \/ p = <<Do("ask")>> \/ p = <<>> \/ p = End
  PROVE  Fresh(p)
<1> USE DEF Fresh, Opens, Harmless, Seats, Leaves, Is, Says
<1>1. ASSUME NEW a \in Agents, p = TakeOver(a) PROVE Fresh(p)
  BY <1>1, TakeOverIs
<1>2. ASSUME NEW a \in Agents, p = Intercept(a) PROVE Fresh(p)
  <2>1. /\ Len(p) = 5 /\ p[1].op = "live" /\ Is(p[2], "intercept", a) /\ Is(p[3], "enter", a)
        /\ Is(p[4], "busy", a) /\ Says(p[5], "status", "human")
    BY <1>2, InterceptIs
  <2>2. Seats(p, work)
    BY <2>1
  <2>3. Leaves(p, humans)
    BY <2>1
  <2> HIDE DEF Seats, Leaves
  <2> QED
    BY <2>1, <2>2, <2>3
<1>3. ASSUME NEW a \in Agents, NEW r \in BOOLEAN, ring.open, p = Accepted(a, r) PROVE Fresh(p)
  <2>1. /\ Len(p) = IF r THEN 6 ELSE 5
        /\ Is(p[1], "busy", a) /\ Says(p[2], "publish", "accepted") /\ p[3].op = "live"
        /\ Is(p[4], "enter", a) /\ Says(p[5], "status", "human")
        /\ r => p[6].op = "unhold"
    BY <1>3, AcceptedIs
  <2>2. Seats(p, work)
    BY <2>1
  <2>4. \A i \in 1..Len(p) : p[i].op \notin {"mark", "dropOther", "intercept"}
    BY <2>1
  <2>3. Leaves(p, humans)
    BY <2>4
  <2> HIDE DEF Seats, Leaves
  <2> QED
    BY <1>3, <2>1, <2>2, <2>3
<1>4. ASSUME NEW f \in BOOLEAN, ring.open, p = Nobody(f) PROVE Fresh(p)
  BY <1>4, NobodyIs
<1>5. CASE call.status # "ended" /\ p = Offer(Agents, "fallback")
  BY <1>5, Offers
<1>6. CASE call.status # "ended" /\ p = <<Do("hold")>>
  BY <1>6, Statements
<1>7. CASE p = <<Do("unhold")>> \/ p = <<Do("ask")>> \/ p = <<>>
  BY <1>7, Statements
<1>8. CASE p = End
  BY <1>8, EndIs
<1> QED
  BY <1>1, <1>2, <1>3, <1>4, <1>5, <1>6, <1>7, <1>8
\* A request, the start of a handler of the ring, and what they leave alone.
Requested(w) ==
  \/ \E aiFirst \in BOOLEAN : Create(w, aiFirst)
  \/ Escalate(w) \/ AIEnds(w) \/ RingCloses(w)
  \/ \E a \in Agents : Accept(w, a) \/ Desk(w, a) \/ Supervise(w, a)

LEMMA FreshRequests ==
  ASSUME FlowTypeInv, NEW w \in Handlers, Requested(w)
  PROVE  Fresh(todo'[w])
<1> DEFINE p == todo'[w]
<1>1. p \in Seq(Code) /\ (\A q : Run(w, q) \/ Begin(w, q) => p = q)
  BY RequestLists DEF FlowTypeInv, Run, Begin, Requested
<1> HIDE DEF p
<1>2. CASE \E aiFirst \in BOOLEAN : Create(w, aiFirst)
  <2>1. call.status # "ended" /\ (p = Offer(Agents, "fallback") \/ p = <<>>)
    BY <1>1, <1>2 DEF Create
  <2> QED
    BY <1>1, <2>1, FreshOfOthers DEF p
<1>3. CASE Escalate(w) \/ AIEnds(w)
  <2>1. p = <<Do("ask")>> \/ p = End
    BY <1>1, <1>3 DEF Escalate, AIEnds
  <2> QED
    BY <1>1, <2>1, FreshOfOthers DEF p
<1>4. CASE RingCloses(w)
  <2>1. ring.open /\ p = Nobody(ring.fallback) /\ ring.fallback \in BOOLEAN
    BY <1>1, <1>4 DEF RingCloses, FlowTypeInv, TypeOK
  <2> QED
    BY <1>1, <2>1, FreshOfOthers DEF p
<1>5. ASSUME NEW a \in Agents, Accept(w, a) PROVE Fresh(p)
  <2>1. ring.open /\ p = Accepted(a, ring.retrieve) /\ ring.retrieve \in BOOLEAN
    BY <1>1, <1>5 DEF Accept, FlowTypeInv, TypeOK
  <2> QED
    BY <1>1, <2>1, FreshOfOthers
<1>6. ASSUME NEW a \in Agents, Supervise(w, a) PROVE Fresh(p)
  <2>1. p = TakeOver(a) \/ p = Intercept(a)
    BY <1>1, <1>6 DEF Supervise, Request
  <2> QED
    BY <1>1, <2>1, FreshOfOthers
<1>7. ASSUME NEW a \in Agents, Desk(w, a) PROVE Fresh(p)
  <2>1. a \in humans
    BY <1>7 DEF Desk
  <2>2. CASE LeaveRoute(w, a)
    BY <1>1, <2>1, <2>2, FreshOfDesk DEF LeaveRoute, Request
  <2>3. CASE HoldRoute(w)
    <3>1. call.status # "ended" /\ p = <<Do("hold")>>
      BY <1>1, <2>3 DEF HoldRoute, Request
    <3> QED
      BY <1>1, <3>1, FreshOfOthers
  <2>4. CASE RetrieveRoute(w)
    <3>1. p = <<Do("unhold")>>
      BY <1>1, <2>4 DEF RetrieveRoute, Request
    <3> QED
      BY <1>1, <3>1, FreshOfOthers
  <2>5. CASE TransferConsult(w, a)
    <3>1. ASSUME NEW m \in {Agents \ {a}} \cup {{b} : b \in Agents \ {a}}, TransferRoute(w, a, m)
          PROVE  Fresh(p)
      <4>1. m \in SUBSET Agents /\ p = Transfer(a, m)
        BY <1>1, <3>1 DEF TransferRoute, Request
      <4> QED
        BY <1>1, <2>1, <4>1, FreshOfDesk
    <3>2. ASSUME NEW b \in Agents, ConsultRoute(w, a, b) PROVE Fresh(p)
      <4>1. p = Consult(a, b)
        BY <1>1, <3>2 DEF ConsultRoute, Request
      <4> QED
        BY <1>1, <2>1, <4>1, FreshOfDesk
    <3>3. CASE humans # {a} /\ CompleteRoute(w, a)
      <4>1. p = HandOver(a) \/ p = Conference \/ p = DropConsultant(a)
        BY <1>1, <3>3 DEF CompleteRoute, Request
      <4> QED
        BY <1>1, <2>1, <3>3, <4>1, FreshOfDesk
    <3> QED
      BY <2>5, <3>1, <3>2, <3>3 DEF TransferConsult
  <2> QED
    BY <1>7, <2>2, <2>3, <2>4, <2>5 DEF Desk
<1> QED
  BY <1>2, <1>3, <1>4, <1>5, <1>6, <1>7 DEF Requested, p

\* What a request leaves alone: the state of the call, but for its creation and for the
\* row of the ring, which goes.
LEMMA RequestsState ==
  ASSUME FlowTypeInv, NEW w, Requested(w)
  PROVE  /\ UNCHANGED <<humans, work, music>>
         /\ call'.held = call.held /\ call'.endedAt = call.endedAt
         /\ \/ call'.status = call.status
            \/ call.status = "ringing" /\ call'.status \in {"ai", "waiting_human"}
         /\ ring'.open => ring.open
         /\ todo[w] = <<>>
<1>1. CASE \E aiFirst \in BOOLEAN : Create(w, aiFirst)
  BY <1>1 DEF Create, Available, FlowTypeInv, TypeOK
<1>2. CASE Escalate(w) \/ AIEnds(w)
  BY <1>2 DEF Escalate, AIEnds, Available
<1>3. CASE RingCloses(w) \/ \E a \in Agents : Accept(w, a)
  BY <1>3 DEF RingCloses, Accept, Available, Quiet
<1>4. CASE \E a \in Agents : Desk(w, a) \/ Supervise(w, a)
  <2>1. \E rest : Request(w, rest)
    BY <1>4 DEF Desk, Supervise, LeaveRoute, HoldRoute, RetrieveRoute, TransferConsult,
                TransferRoute, ConsultRoute, CompleteRoute
  <2> QED
    BY <2>1 DEF Request, Available
<1> QED
  BY <1>1, <1>2, <1>3, <1>4 DEF Requested

-----------------------------------------------------------------------------
\* The rest of the list, and the list with a statement or two in the place of the first.

Moves(s, p) == Len(p) = Len(s) - 1 /\ \A i \in 1..Len(p) : p[i] = s[i + 1]

Swaps(s, p, x) ==
  /\ Len(p) = Len(s) /\ p[1] = x
  /\ \A i \in 1..Len(s) : i > 1 => p[i] = s[i]

Grows(s, p, x, y) ==
  /\ Len(p) = Len(s) + 1 /\ p[1] = x /\ p[2] = y
  /\ \A i \in 1..Len(s) : i > 1 => p[i + 1] = s[i]

LEMMA TailMoves ==
  ASSUME NEW s \in Seq(Code), s # <<>>
  PROVE  /\ Moves(s, Tail(s))
         /\ \A x \in Code : Swaps(s, <<x>> \o Tail(s), x)
         /\ \A x, y \in Code : Grows(s, <<x, y>> \o Tail(s), x, y)
<1>1. /\ Tail(s) \in Seq(Code) /\ Len(Tail(s)) = Len(s) - 1 /\ Len(s) \in Nat
      /\ \A i \in 1..Len(Tail(s)) : Tail(s)[i] = s[i + 1]
  BY HeadTailProperties
<1> DEFINE t == Tail(s)
<1> HIDE DEF t
<1>2. /\ t \in Seq(Code) /\ Len(t) = Len(s) - 1 /\ Len(s) \in Nat
      /\ \A i \in 1..Len(t) : t[i] = s[i + 1]
  BY <1>1 DEF t
<1>3. ASSUME NEW x \in Code PROVE Swaps(s, <<x>> \o t, x)
  <2>1. /\ Len(<<x>> \o t) = Len(t) + 1
        /\ (<<x>> \o t)[1] = x
        /\ \A i \in 2..Len(t) + 1 : (<<x>> \o t)[i] = t[i - 1]
    BY <1>2
  <2> DEFINE p == <<x>> \o t
  <2>2. Len(p) = Len(t) + 1 /\ p[1] = x /\ \A i \in 2..Len(t) + 1 : p[i] = t[i - 1]
    BY <2>1
  <2> HIDE DEF p
  <2>3. Swaps(s, p, x)
    BY <1>2, <2>2 DEF Swaps
  <2> QED
    BY <2>3 DEF p
<1>4. ASSUME NEW x \in Code, NEW y \in Code PROVE Grows(s, <<x, y>> \o t, x, y)
  <2> DEFINE p == <<x, y>> \o t
  <2>2. /\ Len(p) = Len(t) + 2 /\ p[1] = x /\ p[2] = y
        /\ \A i \in 3..Len(t) + 2 : p[i] = t[i - 2]
    BY <1>2
  <2> HIDE DEF p
  <2>3. Grows(s, p, x, y)
    BY <1>2, <2>2 DEF Grows
  <2> QED
    BY <2>3 DEF p
<1> QED
  BY <1>1, <1>3, <1>4 DEF Moves, t

\* What a handler is about to run, and what it runs next.
LEMMA Ahead ==
  ASSUME FlowTypeInv, NEW w \in Handlers, Step(w), NEW s, s = todo[w], NEW p, p = todo'[w]
  PROVE  /\ s \in Seq(Code) /\ Len(s) > 0 /\ s[1] \in Code /\ s[1] = Now(w)
         /\ p \in Seq(Code) /\ (Len(p) > 0 => p[1] \in Code)
         /\ \A op : Op(w, op) <=> s[1].op = op
         /\ Goon(w) => /\ Moves(s, p)
                       /\ Len(p) > 0 => Fits(s[1], p[1])
                       /\ Len(p) = 0 => ~NotLast(s[1])
<1>1. PICK q \in Seq(Code) : todo' = [todo EXCEPT ![w] = q]
  BY StepLists
<1>2. p = q /\ todo \in [Handlers -> Seq(Code)] /\ (\A r : Run(w, r) => q = r)
  BY <1>1 DEF FlowTypeInv, Run
<1>3. PICK op : Op(w, op)
  BY DEF Step, Ask, Decide, WriteStatus, WriteHeld, TellMedia, Seat, Presence, Row, Dispatch, Wait,
         Publish
<1>4. /\ s \in Seq(Code) /\ s # <<>> /\ Now(w) = s[1] /\ s[1] \in Code /\ Rest(w) = Tail(s)
      /\ Rest(w) # <<>> => Fits(s[1], Rest(w)[1])
      /\ Rest(w) = <<>> => ~NotLast(s[1])
  BY <1>3, Running
<1>5. Len(s) > 0
  BY <1>4, EmptySeq
<1>6. \A o : Op(w, o) <=> s[1].op = o
  BY <1>4 DEF Op, Now
<1>7. p \in Seq(Code) /\ (Len(p) > 0 => p[1] \in Code) /\ (p = <<>> <=> Len(p) = 0)
  BY <1>2, EmptySeq
<1>8. Goon(w) => p = Rest(w)
  BY <1>2 DEF Goon
<1>9. Goon(w) => Moves(s, p)
  BY <1>4, <1>8, TailMoves
<1>10. Goon(w) => (Len(p) > 0 => Fits(s[1], p[1])) /\ (Len(p) = 0 => ~NotLast(s[1]))
  <2> SUFFICES ASSUME Goon(w)
               PROVE  (Len(p) > 0 => Fits(s[1], p[1])) /\ (Len(p) = 0 => ~NotLast(s[1]))
    OBVIOUS
  <2>1. p = Rest(w)
    BY <1>8
  <2>2. CASE p = <<>>
    BY <1>4, <1>7, <2>1, <2>2
  <2>3. CASE p # <<>>
    BY <1>4, <1>7, <2>1, <2>3
  <2> QED
    BY <2>2, <2>3
<1>11. \A o : Op(w, o) <=> s[1].op = o
  BY <1>6
<1> QED
  BY <1>4, <1>5, <1>7, <1>9, <1>10, <1>11

\* What a statement does to the call.
LEMMA Effects ==
  ASSUME FlowTypeInv, NEW w \in Handlers, Step(w), NEW x, x = Now(w)
  PROVE  /\ x.op \notin {"status", "setHeld"} => call' = call
         /\ x.op = "status" =>
              /\ call'.status = x.what /\ call'.held = call.held
              /\ call'.endedAt <=> call.endedAt \/ x.what = "ended"
         /\ x.op = "setHeld" =>
              /\ call'.status = call.status /\ call'.endedAt = call.endedAt
              /\ call'.held <=> x.what = "on"
         /\ x.op # "music" => music' = music
         /\ x.op = "music" => (music' <=> x.what = "on")
         /\ x.op \notin {"mark", "enter", "intercept", "dropOther"} => humans' = humans
         /\ x.op = "mark" => humans' = humans \ {x.who}
         /\ x.op = "enter" => humans' = humans \cup {x.who}
         /\ x.op \notin {"busy", "freeWrite", "freeAll"} => work' = work
         /\ x.op \in {"busy", "freeWrite"} => \A a \in Agents : a # x.who => work'[a] = work[a]
         /\ x.op = "busy" => work'[x.who] = "busy"
         /\ x.op = "freeWrite" => work'[x.who] # "busy"
         /\ x.op = "freeAll" => \A a \in Agents : work'[a] # "busy"
         /\ x.op \notin {"drop", "offer"} => ring' = ring
         /\ x.op = "drop" => ~ring'.open
<1> USE DEF Op, Now
<1> call \in [status: Statuses, held: BOOLEAN, endedAt: BOOLEAN]
  BY DEF FlowTypeInv, TypeOK
<1> work \in [Agents -> {"free", "busy", "acw"}]
  BY DEF FlowTypeInv, TypeOK
<1>0. x.op \in Personal => x.who \in Agents
  <2>1. PICK op : Op(w, op)
    BY DEF Step, Ask, Decide, WriteStatus, WriteHeld, TellMedia, Seat, Presence, Row, Dispatch,
           Wait, Publish
  <2> QED
    BY <2>1, Running DEF Code
<1>1. CASE Ask(w)
  BY <1>1 DEF Ask
<1>2. CASE Decide(w)
  BY <1>2 DEF Decide
<1>3. CASE WriteStatus(w)
  BY <1>3 DEF WriteStatus
<1>4. CASE WriteHeld(w)
  BY <1>4 DEF WriteHeld
<1>5. CASE TellMedia(w)
  BY <1>5 DEF TellMedia
<1>6. CASE Seat(w)
  BY <1>6 DEF Seat
<1>7. CASE Presence(w)
  BY <1>0, <1>7 DEF Presence, Freed, Personal
<1>8. CASE Row(w)
  BY <1>8 DEF Row, Quiet
<1>9. CASE Dispatch(w) \/ Wait(w) \/ Publish(w)
  BY <1>9 DEF Dispatch, Wait, Publish
<1> QED
  BY <1>1, <1>2, <1>3, <1>4, <1>5, <1>6, <1>7, <1>8, <1>9 DEF Step

\* Statements that put something else in the place of themselves.
LEMMA Jumps ==
  ASSUME FlowTypeInv, NEW w \in Handlers, Step(w), NEW s, s = todo[w], NEW p, p = todo'[w],
         NEW a, a = s[1].who
  PROVE  /\ s[1].op \in {"live", "over"} => IF call.status = "ended" THEN Len(p) = 0 ELSE Goon(w)
         /\ s[1].op = "ask" =>
              Len(s) = 1 /\ IF call.status = "ended" THEN Goon(w) ELSE p = Asked
         /\ s[1].op = "count" =>
              /\ Len(s) = 1 /\ a \in Agents
              /\ IF humans \ {a} # {} THEN Len(p) = 1 /\ Is(p[1], "freeRead", a)
                                      ELSE p = Release \o End \o <<>>
         /\ s[1].op = "freeRead" =>
              /\ a \in Agents
              /\ IF work[a] = "busy" THEN \E x \in Code : Is(x, "freeWrite", a) /\ Swaps(s, p, x)
                                     ELSE Goon(w)
         /\ s[1].op = "hold" =>
              IF call.held \/ call.status = "ended"
                THEN Goon(w)
                ELSE \E x, y \in Code : /\ Says(x, "setHeld", "on") /\ Says(y, "music", "on")
                                        /\ Grows(s, p, x, y)
         /\ s[1].op = "unhold" =>
              IF call.held
                THEN \E x, y \in Code : /\ Says(x, "setHeld", "off") /\ Says(y, "music", "off")
                                        /\ Grows(s, p, x, y)
                ELSE Goon(w)
         /\ s[1].op = "intercept" =>
              \/ Goon(w) /\ humans' = humans
              \/ \E b \in humans \ {a} : \E x \in Code :
                   humans' = humans \ {b} /\ Is(x, "freeRead", b) /\ Swaps(s, p, x)
         /\ s[1].op = "dropOther" =>
              /\ Len(s) = 1
              /\ \/ Goon(w) /\ humans' = humans
                 \/ \E b \in humans \ {a} :
                      humans' = humans \ {b} /\ Len(p) = 1 /\ Is(p[1], "freeRead", b)
         /\ s[1].op \notin {"live", "over", "ask", "count", "freeRead", "hold", "unhold",
                            "intercept", "dropOther"} => Goon(w)
<1>1. /\ s \in Seq(Code) /\ s # <<>> /\ s[1] \in Code /\ s[1] = Now(w) /\ p \in Seq(Code)
      /\ \A op : Op(w, op) <=> s[1].op = op
  BY Ahead, EmptySeq
<1>2. \A q \in Seq(Code) : Run(w, q) => p = q
  BY DEF FlowTypeInv, Run
<1>3. /\ Rest(w) = Tail(s) /\ Rest(w) \in Seq(Code)
      /\ Rest(w) # <<>> => Fits(s[1], Rest(w)[1]) /\ Rest(w)[1] \in Code
  <2>1. Op(w, s[1].op)
    BY <1>1
  <2>2. /\ Rest(w) = Tail(s) /\ Rest(w) \in Seq(Code)
        /\ Rest(w) # <<>> => Fits(s[1], Rest(w)[1])
    BY <1>1, <2>1, Running
  <2> QED
    BY <2>2
<1>4. s[1].op \in Personal => a \in Agents
  BY <1>1 DEF Code
<1>5. Rest(w) = <<>> => Len(s) = 1
  <2>1. Len(Tail(s)) = Len(s) - 1 /\ Len(s) \in Nat
    BY <1>1, HeadTailProperties
  <2>2. Tail(s) = <<>> => Len(Tail(s)) = 0
    BY EmptySeq
  <2> QED
    BY <1>3, <2>1, <2>2
<1>6. /\ Moves(s, Rest(w))
      /\ \A x \in Code : Swaps(s, <<x>> \o Rest(w), x)
      /\ \A x, y \in Code : Grows(s, <<x, y>> \o Rest(w), x, y)
  BY <1>1, <1>3, TailMoves
<1>7. \A op \in {"live", "over", "count", "freeRead", "hold", "unhold"} :
        s[1].op = op => Op(w, op) /\ Decide(w)
  BY <1>1 DEF Step, Ask, Decide, WriteStatus, WriteHeld, TellMedia, Seat, Presence, Row, Dispatch,
              Wait, Publish, Op
<1>8. s[1].op \in {"live", "over"} => IF call.status = "ended" THEN Len(p) = 0 ELSE Goon(w)
  <2> SUFFICES ASSUME s[1].op \in {"live", "over"}
               PROVE  IF call.status = "ended" THEN Len(p) = 0 ELSE Goon(w)
    OBVIOUS
  <2>1. Run(w, IF call.status = "ended" THEN <<>> ELSE Rest(w))
    BY <1>7 DEF Decide, Op
  <2>2. <<>> \in Seq(Code) /\ Len(<<>>) = 0
    BY EmptySeq
  <2> QED
    BY <1>2, <2>1, <2>2 DEF Goon
<1>9. s[1].op = "ask" => Len(s) = 1 /\ IF call.status = "ended" THEN Goon(w) ELSE p = Asked
  <2> SUFFICES ASSUME s[1].op = "ask"
               PROVE  Len(s) = 1 /\ IF call.status = "ended" THEN Goon(w) ELSE p = Asked
    OBVIOUS
  <2>1. Rest(w) = <<>>
    BY <1>3 DEF Fits, MayFollow, Is, Says, Code, Stmt
  <2>2. Ask(w)
    BY <1>1 DEF Step, Ask, Decide, WriteStatus, WriteHeld, TellMedia, Seat, Presence, Row, Dispatch,
                Wait, Publish, Op
  <2> QED
    BY <1>2, <1>5, <2>1, <2>2, AskedIs DEF Ask, Asked
<1>10. s[1].op = "count" =>
         /\ Len(s) = 1 /\ a \in Agents
         /\ IF humans \ {a} # {} THEN Len(p) = 1 /\ Is(p[1], "freeRead", a)
                                 ELSE p = Release \o End \o <<>>
  <2> SUFFICES ASSUME s[1].op = "count"
               PROVE  /\ Len(s) = 1 /\ a \in Agents
                      /\ IF humans \ {a} # {} THEN Len(p) = 1 /\ Is(p[1], "freeRead", a)
                                              ELSE p = Release \o End \o <<>>
    OBVIOUS
  <2>1. Rest(w) = <<>> /\ a \in Agents
    BY <1>4, <1>7, Spliced DEF Personal
  <2>2. Run(w, IF humans \ {a} # {} THEN FreeUser(a) \o <<>> ELSE Release \o End \o <<>>)
    BY <1>1, <1>7, <2>1 DEF Decide, Op
  <2> DEFINE x == For("freeRead", a)
  <2>3. x \in Code /\ Is(x, "freeRead", a)
    BY <2>1, Statements DEF Personal
  <2> HIDE DEF x
  <2>4. <<x>> \o <<>> \in Seq(Code) /\ <<x>> \o <<>> = <<x>> /\ Len(<<x>>) = 1 /\ <<x>>[1] = x
    BY <2>3
  <2>5. humans \ {a} # {} => p = <<x>>
    BY <1>2, <2>2, <2>4 DEF FreeUser, x
  <2>6. humans \ {a} = {} => p = Release \o End \o <<>>
    BY <1>2, <2>2, LastLeaveIs
  <2> QED
    BY <1>5, <2>1, <2>3, <2>4, <2>5, <2>6
<1>11. s[1].op = "freeRead" =>
         /\ a \in Agents
         /\ IF work[a] = "busy" THEN \E x \in Code : Is(x, "freeWrite", a) /\ Swaps(s, p, x)
                                ELSE Goon(w)
  <2> SUFFICES ASSUME s[1].op = "freeRead"
               PROVE  /\ a \in Agents
                      /\ IF work[a] = "busy"
                           THEN \E x \in Code : Is(x, "freeWrite", a) /\ Swaps(s, p, x)
                           ELSE Goon(w)
    OBVIOUS
  <2> DEFINE x == For("freeWrite", a)
  <2>1. a \in Agents /\ x \in Code /\ Is(x, "freeWrite", a)
    BY <1>4, Statements DEF Personal
  <2>2. Run(w, IF work[a] = "busy" THEN <<x>> \o Rest(w) ELSE Rest(w))
    BY <1>1, <1>7 DEF Decide, Op
  <2>3. <<x>> \o Rest(w) \in Seq(Code)
    BY <1>1, <2>1, Spliced
  <2> HIDE DEF x
  <2> QED
    BY <1>2, <1>6, <2>1, <2>2, <2>3 DEF Goon
<1>12. ASSUME NEW o \in {"on", "off"},
              Run(w, <<As("setHeld", o), As("music", o)>> \o Rest(w)),
              <<As("setHeld", o), As("music", o)>> \o Rest(w) \in Seq(Code)
       PROVE  \E x, y \in Code : Says(x, "setHeld", o) /\ Says(y, "music", o) /\ Grows(s, p, x, y)
  <2> DEFINE x == As("setHeld", o)  y == As("music", o)
  <2>1. x \in Code /\ y \in Code /\ Says(x, "setHeld", o) /\ Says(y, "music", o)
    BY Statements
  <2>2. p = <<x, y>> \o Rest(w)
    BY <1>2, <1>12
  <2> HIDE DEF x, y
  <2> QED
    BY <1>6, <2>1, <2>2
<1>13. s[1].op = "hold" =>
         IF call.held \/ call.status = "ended"
           THEN Goon(w)
           ELSE \E x, y \in Code : /\ Says(x, "setHeld", "on") /\ Says(y, "music", "on")
                                   /\ Grows(s, p, x, y)
  <2> SUFFICES ASSUME s[1].op = "hold"
               PROVE  IF call.held \/ call.status = "ended"
                        THEN Goon(w)
                        ELSE \E x, y \in Code : /\ Says(x, "setHeld", "on")
                                                /\ Says(y, "music", "on") /\ Grows(s, p, x, y)
    OBVIOUS
  <2>1. Run(w, (IF call.held \/ call.status = "ended" THEN <<>> ELSE HoldOn) \o Rest(w))
    BY <1>7 DEF Decide, Op
  <2>2. <<>> \o Rest(w) = Rest(w) /\ HoldOn \o Rest(w) \in Seq(Code)
    BY <1>1, <1>3, Spliced, ConcatEmptySeq
  <2> QED
    BY <1>12, <2>1, <2>2 DEF HoldOn, Goon
<1>14. s[1].op = "unhold" =>
         IF call.held
           THEN \E x, y \in Code : /\ Says(x, "setHeld", "off") /\ Says(y, "music", "off")
                                   /\ Grows(s, p, x, y)
           ELSE Goon(w)
  <2> SUFFICES ASSUME s[1].op = "unhold"
               PROVE  IF call.held
                        THEN \E x, y \in Code : /\ Says(x, "setHeld", "off")
                                                /\ Says(y, "music", "off") /\ Grows(s, p, x, y)
                        ELSE Goon(w)
    OBVIOUS
  <2>1. Run(w, (IF call.held THEN HoldOff ELSE <<>>) \o Rest(w))
    BY <1>7 DEF Decide, Op
  <2>2. <<>> \o Rest(w) = Rest(w) /\ HoldOff \o Rest(w) \in Seq(Code)
    BY <1>1, <1>3, Spliced, ConcatEmptySeq
  <2> QED
    BY <1>12, <2>1, <2>2 DEF HoldOff, Goon
<1>15. s[1].op \in {"intercept", "dropOther"} => Seat(w)
  BY <1>1 DEF Step, Ask, Decide, WriteStatus, WriteHeld, TellMedia, Seat, Presence, Row, Dispatch,
              Wait, Publish, Op
<1>16. ASSUME NEW b \in humans
       PROVE  /\ b \in Agents /\ For("freeRead", b) \in Code
              /\ Is(For("freeRead", b), "freeRead", b)
  BY Statements DEF FlowTypeInv, TypeOK, Personal
<1>17. s[1].op = "intercept" =>
         \/ Goon(w) /\ humans' = humans
         \/ \E b \in humans \ {a} : \E x \in Code :
              humans' = humans \ {b} /\ Is(x, "freeRead", b) /\ Swaps(s, p, x)
  <2> SUFFICES ASSUME s[1].op = "intercept", ~(Goon(w) /\ humans' = humans)
               PROVE  \E b \in humans \ {a} : \E x \in Code :
                        humans' = humans \ {b} /\ Is(x, "freeRead", b) /\ Swaps(s, p, x)
    OBVIOUS
  <2>1. PICK b \in humans \ {a} : humans' = humans \ {b} /\ Run(w, FreeUser(b) \o Rest(w))
    BY <1>1, <1>15 DEF Seat, Op
  <2> DEFINE x == For("freeRead", b)
  <2>2. b \in Agents /\ x \in Code /\ Is(x, "freeRead", b)
    BY <1>16
  <2>3. p = <<x>> \o Rest(w)
    BY <1>1, <1>2, <2>1, <2>2, Spliced DEF FreeUser
  <2> HIDE DEF x
  <2> QED
    BY <1>6, <2>1, <2>2, <2>3
<1>18. s[1].op = "dropOther" =>
         /\ Len(s) = 1
         /\ \/ Goon(w) /\ humans' = humans
            \/ \E b \in humans \ {a} :
                 humans' = humans \ {b} /\ Len(p) = 1 /\ Is(p[1], "freeRead", b)
  <2> SUFFICES ASSUME s[1].op = "dropOther"
               PROVE  /\ Len(s) = 1
                      /\ \/ Goon(w) /\ humans' = humans
                         \/ \E b \in humans \ {a} :
                              humans' = humans \ {b} /\ Len(p) = 1 /\ Is(p[1], "freeRead", b)
    OBVIOUS
  <2>1. Len(s) = 1
    BY <1>1, <1>5, Spliced
  <2>2. CASE Goon(w) /\ humans' = humans
    BY <2>1, <2>2
  <2>3. CASE ~(Goon(w) /\ humans' = humans)
    <3>1. PICK b \in humans \ {a} : humans' = humans \ {b} /\ Run(w, FreeUser(b))
      BY <1>1, <1>15, <2>3 DEF Seat, Op
    <3> DEFINE x == For("freeRead", b)
    <3>2. x \in Code /\ Is(x, "freeRead", b)
      BY <1>16
    <3>3. Run(w, <<x>>)
      BY <3>1 DEF FreeUser
    <3> HIDE DEF x
    <3>5. <<x>> \in Seq(Code)
      BY <3>2
    <3>4. p = <<x>>
      BY <1>2, <3>3, <3>5
    <3> QED
      BY <2>1, <3>1, <3>2, <3>4
  <2> QED
    BY <2>2, <2>3
<1>19. s[1].op \notin {"live", "over", "ask", "count", "freeRead", "hold", "unhold", "intercept",
                       "dropOther"} => Goon(w)
  BY <1>1 DEF Step, Ask, Decide, WriteStatus, WriteHeld, TellMedia, Seat, Presence, Row, Dispatch,
              Wait, Publish, Op
<1> QED
  BY <1>8, <1>9, <1>10, <1>11, <1>13, <1>14, <1>17, <1>18, <1>19

-----------------------------------------------------------------------------
\* The music, and the state around the handler.

MusicFits(s) ==
  /\ Opens(s, "music") => (call.held <=> s[1].what = "on")
  /\ ~Opens(s, "music") => (call.held <=> music)

Ending(s) ==
  Len(s) > 0 /\ (s[1].op \in {"drop", "freeAll", "over"} \/ Says(s[1], "status", "ended"))

EndFits(s) ==
  /\ call.status = "ended" <=> call.endedAt
  /\ call.endedAt => Opens(s, "live") \/ Opens(s, "ask") \/ Harmless(s)
  /\ Ending(s) => Harmless(s)
  /\ call.endedAt /\ ring.open => Opens(s, "drop")

\* The steps that no handler takes leave all of this alone, but for a ring that moves on.
Around ==
  \/ \E a \in Agents : RingAgent(a) \/ WrapUpEnds(a)
  \/ Deliver \/ Heard \/ HandOff
  \/ UNCHANGED vars

LEMMA AroundState ==
  ASSUME FlowTypeInv, Around
  PROVE  /\ UNCHANGED <<call, humans, music, todo>>
         /\ ring'.open = ring.open
         /\ \A a \in Agents : work'[a] = "busy" <=> work[a] = "busy"
<1> USE DEF FlowTypeInv, TypeOK
<1>1. ASSUME NEW a \in Agents, RingAgent(a)
      PROVE  UNCHANGED <<call, humans, music, todo, work>> /\ ring'.open = ring.open
  BY <1>1 DEF RingAgent
<1>2. ASSUME NEW a \in Agents, WrapUpEnds(a)
      PROVE  /\ UNCHANGED <<call, humans, music, todo, ring>>
             /\ \A b \in Agents : work'[b] = "busy" <=> work[b] = "busy"
  BY <1>2 DEF WrapUpEnds
<1>3. CASE Deliver \/ Heard \/ HandOff \/ UNCHANGED vars
  BY <1>3 DEF Deliver, Heard, HandOff, vars
<1> QED
  BY <1>1, <1>2, <1>3 DEF Around

LEMMA Nexts ==
  ASSUME NEW h, Handlers = {h}, [Next]_vars
  PROVE  Requested(h) \/ Step(h) \/ Around
BY DEF Next, Requested, Around

LEMMA JumpHeads ==
  ASSUME FlowTypeInv, NEW w \in Handlers, Step(w), NEW s, s = todo[w], NEW p, p = todo'[w],
         ~Goon(w)
  PROVE  /\ s[1].op \in {"live", "over", "ask", "count", "freeRead", "hold", "unhold", "intercept",
                         "dropOther"}
         /\ Len(p) > 0 =>
              \/ p[1].op \in {"freeRead", "freeWrite", "setHeld"}
              \/ Says(p[1], "status", "waiting_human")
              \/ p[1].op = "drop" /\ p = Release \o End \o <<>>
<1> DEFINE x == s[1].op
<1>1. CASE x \in {"live", "over"}
  BY <1>1, Jumps
<1>2. CASE x = "ask"
  BY <1>2, Jumps, AskedIs
<1>3. CASE x = "count"
  <2> DEFINE q == Release \o End \o <<>>
  <2>1. q[1].op = "drop"
    BY LastLeaveIs
  <2> HIDE DEF q
  <2>2. (Len(p) = 1 /\ Is(p[1], "freeRead", s[1].who)) \/ p = q
    BY <1>3, Jumps DEF q
  <2>3. CASE p = q
    BY <1>3, <2>1, <2>3 DEF q
  <2>4. CASE Len(p) = 1 /\ Is(p[1], "freeRead", s[1].who)
    BY <1>3, <2>4 DEF Is
  <2> QED
    BY <2>2, <2>3, <2>4
<1>4. CASE x = "freeRead"
  BY <1>4, Jumps DEF Is, Swaps
<1>5. CASE x \in {"hold", "unhold"}
  BY <1>5, Jumps DEF Says, Grows
<1>6. CASE x \in {"intercept", "dropOther"}
  BY <1>6, Jumps DEF Is, Swaps
<1>7. CASE x \notin {"live", "over", "ask", "count", "freeRead", "hold", "unhold", "intercept",
                     "dropOther"}
  BY <1>7, Jumps
<1> QED
  BY <1>1, <1>2, <1>3, <1>4, <1>5, <1>6, <1>7

LEMMA MusicStep ==
  ASSUME NEW h, Handlers = {h}, FlowTypeInv, [Next]_vars, MusicFits(todo[h])
  PROVE  MusicFits(todo[h])'
<1> DEFINE s == todo[h]  p == todo'[h]
<1>0. h \in Handlers
  OBVIOUS
<1> HIDE DEF s, p
<1>1. MusicFits(todo[h])' <=>
        /\ Opens(p, "music") => (call'.held <=> p[1].what = "on")
        /\ ~Opens(p, "music") => (call'.held <=> music')
  BY DEF MusicFits, p, Opens
<1>2. /\ Opens(s, "music") => (call.held <=> s[1].what = "on")
      /\ ~Opens(s, "music") => (call.held <=> music)
  BY DEF MusicFits, s
<1>3. CASE Requested(h)
  <2>1. Fresh(p)
    BY <1>0, <1>3, FreshRequests DEF p
  <2>2. UNCHANGED music /\ call'.held = call.held /\ s = <<>>
    BY <1>3, RequestsState DEF s
  <2>3. Len(s) = 0
    BY <2>2, EmptySeq
  <2> QED
    BY <1>1, <1>2, <2>1, <2>2, <2>3 DEF Fresh, Opens
<1>4. CASE Around
  BY <1>1, <1>2, <1>4, AroundState DEF s, p
<1>5. CASE Step(h)
  <2>1. /\ Len(s) > 0 /\ s[1] \in Code /\ s[1] = Now(h)
        /\ Len(p) > 0 => p[1] \in Code
        /\ Goon(h) => /\ Moves(s, p)
                      /\ Len(p) > 0 => Fits(s[1], p[1])
                      /\ Len(p) = 0 => ~NotLast(s[1])
    BY <1>0, <1>5, Ahead DEF s, p
  <2>2. /\ s[1].op \notin {"status", "setHeld"} => call'.held = call.held
        /\ s[1].op = "status" => call'.held = call.held
        /\ s[1].op = "setHeld" => (call'.held <=> s[1].what = "on")
        /\ s[1].op # "music" => music' = music
        /\ s[1].op = "music" => (music' <=> s[1].what = "on")
    BY <1>0, <1>5, <2>1, Effects
  <2>3. CASE Goon(h)
    <3>1. Opens(p, "music") => Says(s[1], "setHeld", p[1].what)
      BY <2>1, <2>3 DEF Fits, MayFollow, Opens
    <3>2. s[1].op = "setHeld" => Len(p) > 0 /\ Says(p[1], "music", s[1].what)
      BY <2>1, <2>3 DEF Fits, MustFollow, NotLast
    <3> QED
      BY <1>1, <1>2, <2>1, <2>2, <3>1, <3>2 DEF Opens, Says
  <2>4. CASE ~Goon(h)
    <3>1. ~Opens(p, "music") /\ s[1].op \notin {"music", "setHeld"}
      BY <1>0, <1>5, <2>4, JumpHeads DEF s, p, Opens, Says
    <3> QED
      BY <1>1, <1>2, <2>1, <2>2, <3>1 DEF Opens, Says
  <2> QED
    BY <2>3, <2>4
<1> QED
  BY <1>3, <1>4, <1>5, Nexts
-----------------------------------------------------------------------------
\* The end.

LEMMA HarmlessKept ==
  ASSUME NEW s \in Seq(Code), NEW p \in Seq(Code), Len(s) > 0, Harmless(s)
  PROVE  /\ Moves(s, p) => Harmless(p)
         /\ \A x \in Code : x.op \in {"freeRead", "freeWrite"} /\ Swaps(s, p, x) => Harmless(p)
         /\ \A x, y \in Code :
              x.op = "setHeld" /\ y.op = "music" /\ Grows(s, p, x, y) => Harmless(p)
<1>1. Moves(s, p) => Harmless(p)
  BY DEF Moves, Harmless
<1>2. ASSUME NEW x \in Code, x.op \in {"freeRead", "freeWrite"}, Swaps(s, p, x) PROVE Harmless(p)
  <2>1. \A i \in 1..Len(p) : i = 1 \/ (i \in 1..Len(s) /\ p[i] = s[i])
    BY <1>2 DEF Swaps
  <2> QED
    BY <1>2, <2>1 DEF Swaps, Harmless
<1>3. ASSUME NEW x \in Code, NEW y \in Code, x.op = "setHeld", y.op = "music", Grows(s, p, x, y)
      PROVE  Harmless(p)
  <2>1. \A i \in 1..Len(p) : i = 1 \/ i = 2 \/ (i - 1 \in 1..Len(s) /\ p[i] = s[i - 1])
    BY <1>3 DEF Grows
  <2> QED
    BY <1>3, <2>1 DEF Grows, Harmless
<1> QED
  BY <1>1, <1>2, <1>3

LEMMA HarmlessLists ==
  /\ \A p \in Seq(Code) : Len(p) = 0 => Harmless(p)
  /\ \A p \in Seq(Code) : Len(p) = 1 /\ p[1].op = "freeRead" => Harmless(p)
  /\ Harmless(Release \o End \o <<>>)
<1>1. \A p \in Seq(Code) : Len(p) = 0 => Harmless(p)
  BY DEF Harmless
<1>2. \A p \in Seq(Code) : Len(p) = 1 /\ p[1].op = "freeRead" => Harmless(p)
  BY DEF Harmless
<1> DEFINE q == Release \o End \o <<>>
<1>3. /\ q \in Seq(Code) /\ Len(q) = 7
      /\ q[1].op = "drop" /\ q[2].op = "freeAll" /\ q[3].op = "over"
      /\ Says(q[4], "status", "ended") /\ q[5].op = "drop" /\ q[6].op = "freeAll"
      /\ Says(q[7], "publish", "nobody")
  BY LastLeaveIs
<1> HIDE DEF q
<1>4. Harmless(q)
  BY <1>3 DEF Harmless, Says
<1> QED
  BY <1>1, <1>2, <1>4 DEF q

LEMMA EndStep ==
  ASSUME NEW h, Handlers = {h}, FlowTypeInv, [Next]_vars, EndFits(todo[h])
  PROVE  EndFits(todo[h])'
<1> DEFINE s == todo[h]  p == todo'[h]
<1>0. h \in Handlers
  OBVIOUS
<1> HIDE DEF s, p
<1>1. EndFits(todo[h])' <=>
        /\ call'.status = "ended" <=> call'.endedAt
        /\ call'.endedAt => Opens(p, "live") \/ Opens(p, "ask") \/ Harmless(p)
        /\ Ending(p) => Harmless(p)
        /\ call'.endedAt /\ ring'.open => Opens(p, "drop")
  BY DEF EndFits, p, Opens, Ending, Harmless
<1>2. /\ call.status = "ended" <=> call.endedAt
      /\ call.endedAt => Opens(s, "live") \/ Opens(s, "ask") \/ Harmless(s)
      /\ Ending(s) => Harmless(s)
      /\ call.endedAt /\ ring.open => Opens(s, "drop")
  BY DEF EndFits, s
<1>3. CASE Requested(h)
  <2>1. Fresh(p)
    BY <1>0, <1>3, FreshRequests DEF p
  <2>2. /\ call'.endedAt = call.endedAt /\ s = <<>>
        /\ \/ call'.status = call.status
           \/ call.status = "ringing" /\ call'.status \in {"ai", "waiting_human"}
        /\ ring'.open => ring.open
    BY <1>3, RequestsState DEF s
  <2>3. Len(s) = 0
    BY <2>2, EmptySeq
  <2> QED
    BY <1>1, <1>2, <2>1, <2>2, <2>3 DEF Fresh, Opens, Ending, Says
<1>4. CASE Around
  BY <1>1, <1>2, <1>4, AroundState DEF s, p
<1>5. CASE Step(h)
  <2>1. /\ s \in Seq(Code) /\ Len(s) > 0 /\ s[1] \in Code /\ s[1] = Now(h)
        /\ p \in Seq(Code) /\ (Len(p) > 0 => p[1] \in Code)
        /\ Goon(h) => /\ Moves(s, p)
                      /\ Len(p) > 0 => Fits(s[1], p[1])
                      /\ Len(p) = 0 => ~NotLast(s[1])
    BY <1>0, <1>5, Ahead DEF s, p
  <2>2. /\ s[1].op # "status" => call'.status = call.status /\ call'.endedAt = call.endedAt
        /\ s[1].op = "status" => call'.status = s[1].what
        /\ s[1].op = "status" => (call'.endedAt <=> call.endedAt \/ s[1].what = "ended")
        /\ s[1].op \notin {"drop", "offer"} => ring' = ring
        /\ s[1].op = "drop" => ~ring'.open
    BY <1>0, <1>5, <2>1, Effects
  <2>3. Harmless(s) => \/ s[1].op \in {"mark", "count", "freeRead", "freeWrite", "drop", "freeAll",
                                       "publish", "over", "unhold", "setHeld", "music"}
                       \/ Says(s[1], "status", "ended")
    BY <2>1 DEF Harmless
  <2>4. s[1].op = "status" /\ s[1].what # "ended" => ~call.endedAt
    BY <1>2, <2>3 DEF Opens, Says
  <2>5. call'.status = "ended" <=> call'.endedAt
    BY <1>2, <2>2, <2>4
  <2>6. Ending(p) => Harmless(p)
    <3>1. CASE Goon(h)
      <4>1. Ending(p) => Ending(s)
        BY <2>1, <3>1 DEF Fits, MayFollow, Ending, Says
      <4> QED
        BY <1>2, <2>1, <3>1, <4>1, HarmlessKept
    <3>2. CASE ~Goon(h)
      BY <1>0, <1>5, <3>2, JumpHeads, HarmlessLists DEF s, p, Ending, Says
    <3> QED
      BY <3>1, <3>2
  <2>7. call'.endedAt => Harmless(p)
    <3>1. CASE Harmless(s)
      <4>1. CASE Goon(h)
        BY <2>1, <3>1, <4>1, HarmlessKept
      <4>2. CASE ~Goon(h)
        <5>1. s[1].op \in {"over", "count", "freeRead", "unhold"}
          BY <1>0, <1>5, <2>3, <3>1, <4>2, JumpHeads DEF s, p, Says
        <5>2. CASE s[1].op = "over"
          BY <1>0, <1>5, <2>1, <4>2, <5>2, Jumps, HarmlessLists DEF s, p
        <5>3. CASE s[1].op = "count"
          <6> DEFINE q == Release \o End \o <<>>
          <6> HIDE DEF q
          <6>1. (Len(p) = 1 /\ Is(p[1], "freeRead", s[1].who)) \/ p = q
            BY <1>0, <1>5, <5>3, Jumps DEF s, p, q
          <6>2. Harmless(q)
            BY HarmlessLists DEF q
          <6> QED
            BY <2>1, <6>1, <6>2, HarmlessLists DEF Is
        <5>4. CASE s[1].op = "freeRead"
          <6>1. \E x \in Code : Is(x, "freeWrite", s[1].who) /\ Swaps(s, p, x)
            BY <1>0, <1>5, <2>1, <4>2, <5>4, Jumps DEF s, p
          <6> QED
            BY <2>1, <3>1, <6>1, HarmlessKept DEF Is
        <5>5. CASE s[1].op = "unhold"
          <6>1. \E x, y \in Code :
                  Says(x, "setHeld", "off") /\ Says(y, "music", "off") /\ Grows(s, p, x, y)
            BY <1>0, <1>5, <2>1, <4>2, <5>5, Jumps DEF s, p
          <6> QED
            BY <2>1, <3>1, <6>1, HarmlessKept DEF Says
        <5> QED
          BY <5>1, <5>2, <5>3, <5>4, <5>5
      <4> QED
        BY <4>1, <4>2
    <3>2. CASE call.endedAt /\ (Opens(s, "live") \/ Opens(s, "ask"))
      <4>1. call.status = "ended"
        BY <1>2, <3>2
      <4>2. CASE s[1].op = "live"
        BY <1>0, <1>5, <2>1, <4>1, <4>2, Jumps, HarmlessLists DEF s, p
      <4>3. CASE s[1].op = "ask"
        <5>1. Len(s) = 1 /\ Goon(h)
          BY <1>0, <1>5, <4>1, <4>3, Jumps DEF s, p
        <5>2. Len(p) = 0
          BY <2>1, <5>1 DEF Moves
        <5> QED
          BY <2>1, <5>2, HarmlessLists
      <4> QED
        BY <3>2, <4>2, <4>3 DEF Opens
    <3> QED
      BY <1>2, <2>1, <2>2, <2>4, <3>1, <3>2 DEF Ending, Says
  <2>8. call'.endedAt /\ ring'.open => Opens(p, "drop")
    <3>1. CASE Says(s[1], "status", "ended")
      <4>1. Goon(h)
        BY <1>0, <1>5, <2>1, <3>1, JumpHeads DEF s, p, Says
      <4> QED
        BY <2>1, <3>1, <4>1 DEF Fits, MustFollow, NotLast, Opens, Says
    <3>2. CASE ~Says(s[1], "status", "ended") /\ call.endedAt
      <4>1. s[1].op # "offer"
        BY <1>2, <2>3, <3>2 DEF Opens, Says
      <4> QED
        BY <1>2, <2>1, <2>2, <3>2, <4>1 DEF Opens
    <3> QED
      BY <2>2, <2>4, <3>1, <3>2 DEF Says
  <2> QED
    BY <1>1, <2>5, <2>6, <2>7, <2>8
<1> QED
  BY <1>3, <1>4, <1>5, Nexts

-----------------------------------------------------------------------------
\* Presence.

Enters(s, a) == \E i \in 1..Len(s) : Is(s[i], "enter", a)

\* Busy, and not on the call: the handler is about to free the agent, or to seat the agent.
Owed(s, a, over) ==
  \/ Len(s) > 0 /\ s[1].op \in {"freeRead", "freeWrite", "count"} /\ s[1].who = a
  \/ Opens(s, "drop") \/ Opens(s, "freeAll")
  \/ ~over /\ Enters(s, a)

\* An agent made busy is on the call, or enters it three statements later.
Seated(s, seated) ==
  \A a \in Agents : OpensFor(s, "busy", a) =>
    \/ a \in seated
    \/ Len(s) > 3 /\ s[2].op = "publish" /\ s[3].op = "live" /\ Is(s[4], "enter", a)

BusyFits(s) ==
  /\ Seats(s, work) /\ Seated(s, humans)
  /\ \A a \in Agents : work[a] = "busy" => (a \in humans /\ ~call.endedAt) \/ Owed(s, a, call.endedAt)
  /\ \A a \in Agents : a \in humans /\ ~call.endedAt => work[a] = "busy" \/ OpensFor(s, "busy", a)
  /\ Opens(s, "busy") => ~call.endedAt
  /\ Len(s) > 0 /\ s[1].op \in {"freeRead", "freeWrite", "count"} => s[1].who \notin humans
  /\ Opens(s, "drop") \/ Opens(s, "freeAll") => call.endedAt \/ humans = {}

LEMMA SeatsKept ==
  ASSUME NEW s \in Seq(Code), NEW p \in Seq(Code), NEW u, NEW v, Len(s) > 0, Seats(s, u)
  PROVE  /\ /\ Moves(s, p)
            /\ s[1].op = "busy" => v[s[1].who] = "busy"
            /\ s[1].op \in {"publish", "live"} => \A a \in Agents : u[a] = "busy" => v[a] = "busy"
            => Seats(p, v)
         /\ \A x \in Code :
              /\ s[1].op \in {"freeRead", "intercept"} /\ x.op \in {"freeRead", "freeWrite"}
              /\ Swaps(s, p, x)
              => Seats(p, v)
         /\ \A x, y \in Code :
              /\ s[1].op \in {"hold", "unhold"} /\ x.op = "setHeld" /\ y.op = "music"
              /\ Grows(s, p, x, y)
              => Seats(p, v)
<1>0. \A i \in 1..Len(s) : s[i].op = "enter" => s[i].who \in Agents
  BY DEF Code, Personal
<1>1. ASSUME Moves(s, p), s[1].op = "busy" => v[s[1].who] = "busy",
             s[1].op \in {"publish", "live"} => \A a \in Agents : u[a] = "busy" => v[a] = "busy"
      PROVE  Seats(p, v)
  <2> SUFFICES ASSUME NEW i \in 1..Len(p), p[i].op = "enter"
               PROVE  \/ i < Len(p) /\ Is(p[i + 1], "busy", p[i].who)
                      \/ i = 4 /\ Is(p[1], "busy", p[4].who) /\ p[2].op = "publish" /\ p[3].op = "live"
                      \/ /\ v[p[i].who] = "busy"
                         /\ \/ i = 1
                            \/ i = 2 /\ p[1].op = "live"
                            \/ i = 3 /\ p[1].op = "publish" /\ p[2].op = "live"
    BY DEF Seats
  <2>1. /\ i + 1 \in 1..Len(s) /\ p[i] = s[i + 1] /\ Len(p) = Len(s) - 1
        /\ i < Len(p) => p[i + 1] = s[i + 2]
    BY <1>1 DEF Moves
  <2>2. /\ i > 1 => p[1] = s[2]
        /\ i > 2 => p[2] = s[3]
    BY <1>1, <2>1 DEF Moves
  <2>3. \/ i + 1 < Len(s) /\ Is(s[i + 2], "busy", s[i + 1].who)
        \/ i + 1 = 4 /\ Is(s[1], "busy", s[4].who) /\ s[2].op = "publish" /\ s[3].op = "live"
        \/ /\ u[s[i + 1].who] = "busy"
           /\ \/ i + 1 = 2 /\ s[1].op = "live"
              \/ i + 1 = 3 /\ s[1].op = "publish" /\ s[2].op = "live"
    BY <2>1 DEF Seats
  <2>4. s[i + 1].who \in Agents
    BY <1>0, <2>1
  <2> QED
    BY <1>1, <2>1, <2>2, <2>3, <2>4 DEF Is
<1>2. ASSUME NEW x \in Code, s[1].op \in {"freeRead", "intercept"},
             x.op \in {"freeRead", "freeWrite"}, Swaps(s, p, x)
      PROVE  Seats(p, v)
  <2> SUFFICES ASSUME NEW i \in 1..Len(p), p[i].op = "enter"
               PROVE  i < Len(p) /\ Is(p[i + 1], "busy", p[i].who)
    BY DEF Seats
  <2>1. i \in 1..Len(s) /\ i > 1 /\ Len(p) = Len(s) /\ p[i] = s[i]
    BY <1>2 DEF Swaps
  <2>2. i < Len(s) /\ Is(s[i + 1], "busy", s[i].who)
    BY <1>2, <2>1 DEF Seats, Is
  <2>3. p[i + 1] = s[i + 1]
    BY <1>2, <2>1, <2>2 DEF Swaps
  <2> QED
    BY <2>1, <2>2, <2>3
<1>3. ASSUME NEW x \in Code, NEW y \in Code, s[1].op \in {"hold", "unhold"},
             x.op = "setHeld", y.op = "music", Grows(s, p, x, y)
      PROVE  Seats(p, v)
  <2> SUFFICES ASSUME NEW i \in 1..Len(p), p[i].op = "enter"
               PROVE  i < Len(p) /\ Is(p[i + 1], "busy", p[i].who)
    BY DEF Seats
  <2>1. i > 2 /\ i - 1 \in 1..Len(s) /\ Len(p) = Len(s) + 1 /\ p[i] = s[i - 1]
    <3>1. Len(p) = Len(s) + 1 /\ i # 1 /\ i # 2
      BY <1>3 DEF Grows
    <3>2. i - 1 \in 1..Len(s) /\ i - 1 > 1 /\ (i - 1) + 1 = i
      BY <3>1
    <3>3. p[(i - 1) + 1] = s[i - 1]
      BY <1>3, <3>2 DEF Grows
    <3> QED
      BY <3>1, <3>2, <3>3
  <2>2. i - 1 < Len(s) /\ Is(s[i], "busy", s[i - 1].who)
    BY <1>3, <2>1 DEF Seats, Is
  <2>3. p[i + 1] = s[i]
    BY <1>3, <2>1, <2>2 DEF Grows
  <2> QED
    BY <2>1, <2>2, <2>3
<1> QED
  BY <1>1, <1>2, <1>3

LEMMA EntersKept ==
  ASSUME NEW s \in Seq(Code), NEW p \in Seq(Code), NEW a, Len(s) > 0, Enters(s, a)
  PROVE  /\ Moves(s, p) /\ ~Is(s[1], "enter", a) => Enters(p, a)
         /\ \A x \in Code : Swaps(s, p, x) /\ s[1].op # "enter" => Enters(p, a)
         /\ \A x, y \in Code : Grows(s, p, x, y) /\ s[1].op # "enter" => Enters(p, a)
<1>1. PICK i \in 1..Len(s) : Is(s[i], "enter", a)
  BY DEF Enters
<1>2. ASSUME Moves(s, p), ~Is(s[1], "enter", a) PROVE Enters(p, a)
  <2>1. i - 1 \in 1..Len(p) /\ (i - 1) + 1 = i
    BY <1>1, <1>2 DEF Moves
  <2>2. p[i - 1] = s[(i - 1) + 1]
    BY <1>2, <2>1 DEF Moves
  <2> QED
    BY <1>1, <2>1, <2>2 DEF Enters
<1>3. ASSUME NEW x \in Code, Swaps(s, p, x), s[1].op # "enter" PROVE Enters(p, a)
  BY <1>1, <1>3 DEF Swaps, Enters, Is
<1>4. ASSUME NEW x \in Code, NEW y \in Code, Grows(s, p, x, y), s[1].op # "enter"
      PROVE  Enters(p, a)
  <2>1. i > 1
    BY <1>1, <1>4 DEF Is
  <2>2. p[i + 1] = s[i] /\ i + 1 \in 1..Len(p)
    BY <1>4, <2>1 DEF Grows
  <2> QED
    BY <1>1, <2>2 DEF Enters
<1> QED
  BY <1>2, <1>3, <1>4

LEMMA NoSeats ==
  /\ \A v : \A p \in Seq(Code) : Len(p) = 0 => Seats(p, v)
  /\ \A v : \A p \in Seq(Code) : Len(p) = 1 /\ p[1].op = "freeRead" => Seats(p, v)
  /\ \A v : Seats(Asked, v) /\ Seats(Release \o End \o <<>>, v)
<1>1. \A v : \A p \in Seq(Code) : Len(p) = 0 => Seats(p, v)
  BY DEF Seats
<1>2. \A v : \A p \in Seq(Code) : Len(p) = 1 /\ p[1].op = "freeRead" => Seats(p, v)
  BY DEF Seats
<1> DEFINE q == Release \o End \o <<>>
<1>3. /\ q \in Seq(Code) /\ Len(q) = 7
      /\ q[1].op = "drop" /\ q[2].op = "freeAll" /\ q[3].op = "over"
      /\ Says(q[4], "status", "ended") /\ q[5].op = "drop" /\ q[6].op = "freeAll"
      /\ Says(q[7], "publish", "nobody")
  BY LastLeaveIs
<1> HIDE DEF q
<1>4. \A v : Seats(q, v)
  BY <1>3 DEF Seats, Says
<1>5. \A v : Seats(Asked, v)
  BY AskedIs DEF Seats, Says
<1> QED
  BY <1>1, <1>2, <1>4, <1>5 DEF q
\* A count never just goes on; nor does freeing an agent who is busy.
LEMMA GoesOn ==
  ASSUME FlowTypeInv, NEW w \in Handlers, Step(w), NEW s, s = todo[w], NEW p, p = todo'[w], Goon(w)
  PROVE  /\ s[1].op # "count"
         /\ s[1].op = "freeRead" => work[s[1].who] # "busy"
         /\ s[1].op \in {"intercept", "dropOther"} => humans' = humans
<1>1. Len(p) = Len(s) - 1 /\ Len(s) \in Nat
  BY Ahead DEF Moves
<1>2. s[1].op # "count"
  <2> DEFINE z == Release \o End \o <<>>
  <2>1. Len(z) = 7
    BY LastLeaveIs
  <2> HIDE DEF z
  <2>2. s[1].op = "count" => Len(s) = 1 /\ (Len(p) = 1 \/ p = z)
    BY Jumps DEF z
  <2>3. ASSUME s[1].op = "count", p = z PROVE FALSE
    <3>1. Len(p) = 7
      BY <2>1, <2>3
    <3>2. Len(s) = 1
      BY <2>2, <2>3
    <3> QED
      BY <1>1, <3>1, <3>2
  <2>4. s[1].op = "count" /\ Len(p) = 1 => FALSE
    BY <1>1, <2>2
  <2> QED
    BY <2>2, <2>3, <2>4
<1>3. s[1].op = "freeRead" => work[s[1].who] # "busy"
  BY <1>1, Jumps DEF Swaps
<1>4. s[1].op = "intercept" => humans' = humans
  BY <1>1, Jumps DEF Swaps
<1>5. s[1].op = "dropOther" => humans' = humans
  BY <1>1, Jumps
<1> QED
  BY <1>2, <1>3, <1>4, <1>5

LEMMA BusyStep ==
  ASSUME NEW h, Handlers = {h}, FlowTypeInv, [Next]_vars, EndFits(todo[h]), BusyFits(todo[h])
  PROVE  BusyFits(todo[h])'
<1> DEFINE s == todo[h]  p == todo'[h]  o == call.endedAt  q == call'.endedAt
<1>0. h \in Handlers
  OBVIOUS
<1> HIDE DEF s, p
<1>1. BusyFits(todo[h])' <=>
        /\ Seats(p, work') /\ Seated(p, humans')
        /\ \A a \in Agents : work'[a] = "busy" => (a \in humans' /\ ~q) \/ Owed(p, a, q)
        /\ \A a \in Agents : a \in humans' /\ ~q => work'[a] = "busy" \/ OpensFor(p, "busy", a)
        /\ Opens(p, "busy") => ~q
        /\ Len(p) > 0 /\ p[1].op \in {"freeRead", "freeWrite", "count"} => p[1].who \notin humans'
        /\ Opens(p, "drop") \/ Opens(p, "freeAll") => q \/ humans' = {}
  BY DEF BusyFits, p, Opens, OpensFor
<1>2. /\ Seats(s, work) /\ Seated(s, humans)
      /\ \A a \in Agents : work[a] = "busy" => (a \in humans /\ ~o) \/ Owed(s, a, o)
      /\ \A a \in Agents : a \in humans /\ ~o => work[a] = "busy" \/ OpensFor(s, "busy", a)
      /\ Opens(s, "busy") => ~o
      /\ Len(s) > 0 /\ s[1].op \in {"freeRead", "freeWrite", "count"} => s[1].who \notin humans
      /\ Opens(s, "drop") \/ Opens(s, "freeAll") => o \/ humans = {}
  BY DEF BusyFits, s
<1>3. /\ call.status = "ended" <=> o
      /\ o => Opens(s, "live") \/ Opens(s, "ask") \/ Harmless(s)
      /\ o /\ ring.open => Opens(s, "drop")
  BY DEF EndFits, s
<1> HIDE DEF o, q
<1>4. CASE Requested(h)
  <2>1. Fresh(p)
    BY <1>0, <1>4, FreshRequests DEF p
  <2>2. UNCHANGED <<humans, work>> /\ q = o /\ s = <<>>
    BY <1>4, RequestsState DEF s, o, q
  <2>3. Len(s) = 0
    BY <2>2, EmptySeq
  <2>4. \A a : ~Enters(s, a)
    BY <2>3 DEF Enters
  <2>5. Seats(p, work') /\ (Opens(p, "busy") => ~q)
    BY <1>3, <2>1, <2>2, <2>3 DEF Fresh, Opens
  <2>6. Seated(p, humans')
    BY <2>1 DEF Fresh, Seated, Opens, OpensFor, Is
  <2>8. \A a : ~Owed(s, a, o) /\ ~OpensFor(s, "busy", a)
    BY <2>3, <2>4 DEF Owed, Opens, OpensFor
  <2>7. \A a \in Agents : work[a] = "busy" <=> a \in humans /\ ~o
    BY <1>2, <2>8
  <2> QED
    BY <1>1, <2>1, <2>2, <2>5, <2>6, <2>7 DEF Fresh, Opens
<1>5. CASE Around
  <2>1. p = s /\ q = o /\ humans' = humans
    BY <1>5, AroundState DEF s, p, o, q
  <2>2. \A a \in Agents : work'[a] = "busy" <=> work[a] = "busy"
    BY <1>5, AroundState
  <2>3. \A i \in 1..Len(s) : s[i] \in Code
    BY <1>0 DEF FlowTypeInv, s
  <2>4. Seats(s, work')
    BY <1>2, <2>2, <2>3 DEF Seats, Code, Personal
  <2> QED
    BY <1>1, <1>2, <2>1, <2>2, <2>4
<1>6. CASE Step(h)
  <2>1. /\ s \in Seq(Code) /\ Len(s) > 0 /\ s[1] \in Code /\ s[1] = Now(h)
        /\ p \in Seq(Code) /\ (Len(p) > 0 => p[1] \in Code)
        /\ Goon(h) => /\ Moves(s, p)
                      /\ Len(p) > 0 => Fits(s[1], p[1])
                      /\ Len(p) = 0 => ~NotLast(s[1])
    BY <1>0, <1>6, Ahead DEF s, p
  <2>2. /\ s[1].op # "status" => q = o
        /\ s[1].op = "status" => (q <=> o \/ s[1].what = "ended")
    BY <1>0, <1>6, <2>1, Effects DEF o, q
  <2>3. /\ s[1].op \notin {"mark", "enter", "intercept", "dropOther"} => humans' = humans
        /\ s[1].op = "mark" => humans' = humans \ {s[1].who}
        /\ s[1].op = "enter" => humans' = humans \cup {s[1].who}
    BY <1>0, <1>6, <2>1, Effects
  <2>4. /\ s[1].op \notin {"busy", "freeWrite", "freeAll"} => work' = work
        /\ s[1].op \in {"busy", "freeWrite"} => \A a \in Agents : a # s[1].who => work'[a] = work[a]
        /\ s[1].op = "busy" => work'[s[1].who] = "busy"
        /\ s[1].op = "freeWrite" => work'[s[1].who] # "busy"
        /\ s[1].op = "freeAll" => \A a \in Agents : work'[a] # "busy"
    BY <1>0, <1>6, <2>1, Effects
  <2>5. o => \/ s[1].op \in {"live", "ask", "mark", "count", "freeRead", "freeWrite", "drop",
                             "freeAll", "publish", "over", "unhold", "setHeld", "music"}
             \/ Says(s[1], "status", "ended")
    BY <1>3, <2>1 DEF Harmless, Opens
  <2>6. CASE Goon(h)
    <3>1. /\ s[1].op # "count"
          /\ s[1].op = "freeRead" => work[s[1].who] # "busy"
          /\ s[1].op \in {"intercept", "dropOther"} => humans' = humans
      BY <1>0, <1>6, <2>6, GoesOn DEF s, p
    <3>2. /\ Moves(s, p)
          /\ Len(p) > 0 => Fits(s[1], p[1])
          /\ Len(p) = 0 => ~NotLast(s[1])
      BY <2>1, <2>6
    <3>3. Seats(p, work')
      BY <1>2, <2>1, <2>4, <3>2, SeatsKept
    <3>4. Seated(p, humans')
      BY <2>3, <3>2 DEF Fits, MayFollow, Seated, OpensFor, Is
    <3>5. ASSUME NEW a \in Agents, work'[a] = "busy" PROVE (a \in humans' /\ ~q) \/ Owed(p, a, q)
      <4>1. CASE s[1].op = "busy" /\ s[1].who = a
        <5>1. ~q /\ humans' = humans
          BY <1>2, <2>1, <2>2, <2>3, <4>1 DEF Opens
        <5>2. a \in humans \/ Enters(s, a)
          BY <1>2, <2>1, <4>1 DEF Seated, OpensFor, Is, Enters
        <5> QED
          BY <2>1, <3>2, <4>1, <5>1, <5>2, EntersKept DEF Owed, Is
      <4>2. CASE ~(s[1].op = "busy" /\ s[1].who = a)
        <5>1. work[a] = "busy" /\ ~(s[1].op = "freeWrite" /\ s[1].who = a) /\ s[1].op # "freeAll"
          BY <2>4, <3>5, <4>2
        <5>2. CASE s[1].op = "status" /\ s[1].what = "ended"
          BY <3>2, <5>2 DEF Fits, MustFollow, NotLast, Says, Owed, Opens
        <5>3. CASE ~(s[1].op = "status" /\ s[1].what = "ended") /\ a \in humans /\ ~o
          <6>1. ~q
            BY <2>2, <5>3
          <6>2. CASE a \in humans'
            BY <6>1, <6>2
          <6>3. CASE a \notin humans'
            <7>1. s[1].op = "mark" /\ s[1].who = a
              BY <2>3, <3>1, <5>3, <6>3
            <7> QED
              BY <2>1, <3>2, <7>1 DEF Fits, MustFollow, MayFollow, NotLast, Is, Owed
          <6> QED
            BY <6>2, <6>3
        <5>4. CASE ~(s[1].op = "status" /\ s[1].what = "ended") /\ Owed(s, a, o)
          <6>1. CASE s[1].op \in {"freeRead", "freeWrite", "count"} /\ s[1].who = a
            BY <3>1, <5>1, <6>1
          <6>2. CASE Opens(s, "drop") \/ Opens(s, "freeAll")
            BY <3>2, <5>1, <6>2 DEF Fits, MustFollow, NotLast, Opens, Owed
          <6>3. CASE ~o /\ Enters(s, a)
            <7>1. ~q
              BY <2>2, <5>4, <6>3
            <7>2. CASE Is(s[1], "enter", a)
              BY <2>3, <7>1, <7>2 DEF Is
            <7>3. CASE ~Is(s[1], "enter", a)
              BY <2>1, <3>2, <6>3, <7>1, <7>3, EntersKept DEF Owed
            <7> QED
              BY <7>2, <7>3
          <6> QED
            BY <5>4, <6>1, <6>2, <6>3 DEF Owed
        <5> QED
          BY <1>2, <5>1, <5>2, <5>3, <5>4
      <4> QED
        BY <4>1, <4>2
    <3>6. ASSUME NEW a \in Agents, a \in humans', ~q
          PROVE  work'[a] = "busy" \/ OpensFor(p, "busy", a)
      <4>1. ~o
        BY <2>2, <3>6
      <4>2. CASE a \in humans
        <5>1. work[a] = "busy" \/ Is(s[1], "busy", a)
          BY <1>2, <4>1, <4>2 DEF OpensFor
        <5>2. s[1].op # "freeAll"
          BY <1>2, <2>1, <4>1, <4>2 DEF Opens
        <5>3. ~(s[1].op = "freeWrite" /\ s[1].who = a)
          BY <1>2, <2>1, <4>2
        <5> QED
          BY <2>4, <5>1, <5>2, <5>3 DEF Is
      <4>3. CASE a \notin humans
        <5>1. s[1].op = "enter" /\ s[1].who = a
          BY <2>3, <3>1, <3>6, <4>3
        <5>2. work[a] = "busy" \/ (Len(s) > 1 /\ Is(s[2], "busy", a))
          BY <1>2, <2>1, <5>1 DEF Seats
        <5>3. Len(s) > 1 => Len(p) > 0 /\ p[1] = s[2]
          BY <2>1, <3>2 DEF Moves
        <5> QED
          BY <2>4, <5>1, <5>2, <5>3 DEF OpensFor
      <4> QED
        BY <4>2, <4>3
    <3>7. Opens(p, "busy") => ~q
      BY <2>2, <2>5, <3>2 DEF Fits, MayFollow, Opens, Is, Says
    <3>8. Len(p) > 0 /\ p[1].op \in {"freeRead", "freeWrite", "count"} => p[1].who \notin humans'
      BY <2>3, <3>2 DEF Fits, MayFollow, Is
    <3>9. Opens(p, "drop") \/ Opens(p, "freeAll") => q \/ humans' = {}
      BY <1>2, <2>1, <2>2, <2>3, <3>2 DEF Fits, MayFollow, Opens, Says
    <3> QED
      BY <1>1, <3>3, <3>4, <3>5, <3>6, <3>7, <3>8, <3>9
  <2>7. CASE ~Goon(h)
    <3>1. /\ s[1].op \in {"live", "over", "ask", "count", "freeRead", "hold", "unhold", "intercept",
                          "dropOther"}
          /\ q = o /\ work' = work
      BY <1>0, <1>6, <2>2, <2>4, <2>7, JumpHeads DEF s, p
    <3>2. CASE s[1].op \in {"live", "over"}
      <4>1. Len(p) = 0 /\ o
        BY <1>0, <1>3, <1>6, <2>7, <3>2, Jumps DEF s, p
      <4>2. \A a \in Agents : work[a] # "busy"
        BY <1>2, <3>2, <4>1 DEF Owed, Opens
      <4>3. Seats(p, work') /\ Seated(p, humans') /\ ~Opens(p, "busy") /\ ~Opens(p, "drop")
            /\ ~Opens(p, "freeAll")
        <5>1. ~(Len(p) > 0)
          BY <4>1
        <5>2. Seats(p, work')
          BY <2>1, <4>1, NoSeats
        <5> QED
          BY <5>1, <5>2 DEF Seated, Opens, OpensFor
      <4>5. ~(Len(p) > 0)
        BY <4>1
      <4>4. q /\ \A a \in Agents : work'[a] # "busy"
        BY <3>1, <4>1, <4>2
      <4> QED
        BY <1>1, <4>3, <4>4, <4>5
    <3>3. CASE s[1].op = "ask"
      <4>1. p = Asked /\ ~o /\ Len(s) = 1
        BY <1>0, <1>3, <1>6, <2>7, <3>3, Jumps DEF s, p
      <4>2. \A a \in Agents : work[a] = "busy" <=> a \in humans
        BY <1>2, <3>3, <4>1 DEF Owed, Opens, OpensFor, Enters, Is
      <4>3. Len(p) > 0 /\ p[1].op = "status"
        BY <4>1, AskedIs DEF Says
      <4> QED
        BY <1>1, <2>3, <3>1, <3>3, <4>1, <4>2, <4>3, NoSeats DEF Seated, Opens, OpensFor, Is
    <3>4. CASE s[1].op = "count"
      <4> DEFINE z == Release \o End \o <<>>  a == s[1].who
      <4>1. Len(z) > 0 /\ z[1].op = "drop"
        BY LastLeaveIs
      <4>2. Seats(z, work')
        BY NoSeats
      <4> HIDE DEF z
      <4>3. /\ Len(s) = 1
            /\ \/ Len(p) = 1 /\ Is(p[1], "freeRead", a)
               \/ p = z /\ humans \ {a} = {}
        BY <1>0, <1>6, <3>4, Jumps DEF s, p, z
      <4>4. \A b : ~Enters(s, b)
        BY <3>4, <4>3 DEF Enters, Is
      <4>5. a \notin humans /\ humans' = humans
        BY <1>2, <2>1, <2>3, <3>4
      <4>6. CASE Len(p) = 1 /\ Is(p[1], "freeRead", a)
        BY <1>1, <1>2, <2>1, <3>1, <3>4, <4>4, <4>5, <4>6, NoSeats
           DEF Owed, Opens, OpensFor, Seated, Is
      <4>7. CASE p = z /\ humans \ {a} = {}
        BY <1>1, <1>2, <3>1, <3>4, <4>1, <4>2, <4>5, <4>7 DEF Owed, Opens, OpensFor, Seated, Is
      <4> QED
        BY <4>3, <4>6, <4>7
    <3>5. CASE s[1].op = "freeRead"
      <4> DEFINE a == s[1].who
      <4>1. PICK x \in Code : Is(x, "freeWrite", a) /\ Swaps(s, p, x)
        BY <1>0, <1>6, <2>7, <3>5, Jumps DEF s, p
      <4>2. Seats(p, work')
        BY <1>2, <2>1, <3>5, <4>1, SeatsKept DEF Is
      <4>3. \A b : Enters(s, b) => Enters(p, b)
        BY <2>1, <3>5, <4>1, EntersKept
      <4>4. Len(p) > 0 /\ Is(p[1], "freeWrite", a)
        BY <2>1, <4>1 DEF Swaps
      <4> QED
        BY <1>1, <1>2, <2>1, <2>3, <3>1, <3>5, <4>2, <4>3, <4>4
           DEF Owed, Opens, OpensFor, Seated, Is
    <3>6. CASE s[1].op \in {"hold", "unhold"}
      <4>1. PICK x \in Code, y \in Code : x.op = "setHeld" /\ y.op = "music" /\ Grows(s, p, x, y)
        BY <1>0, <1>6, <2>7, <3>6, Jumps DEF s, p, Says
      <4>2. Seats(p, work')
        BY <1>2, <2>1, <3>6, <4>1, SeatsKept
      <4>3. \A b : Enters(s, b) => Enters(p, b)
        BY <2>1, <3>6, <4>1, EntersKept
      <4>4. Len(p) > 0 /\ p[1].op = "setHeld"
        BY <2>1, <4>1 DEF Grows
      <4> QED
        BY <1>1, <1>2, <2>1, <2>3, <3>1, <3>6, <4>2, <4>3, <4>4
           DEF Owed, Opens, OpensFor, Seated, Is
    <3>7. CASE s[1].op = "intercept"
      <4>1. PICK b \in humans, x \in Code :
              humans' = humans \ {b} /\ Is(x, "freeRead", b) /\ Swaps(s, p, x)
        BY <1>0, <1>6, <2>7, <3>7, Jumps DEF s, p
      <4>2. Seats(p, work')
        BY <1>2, <2>1, <3>7, <4>1, SeatsKept DEF Is
      <4>3. \A c : Enters(s, c) => Enters(p, c)
        BY <2>1, <3>7, <4>1, EntersKept
      <4>4. Len(p) > 0 /\ Is(p[1], "freeRead", b)
        BY <2>1, <4>1 DEF Swaps
      <4>5. ~o
        BY <2>5, <3>7 DEF Says
      <4> QED
        BY <1>1, <1>2, <2>1, <3>1, <3>7, <4>1, <4>2, <4>3, <4>4, <4>5
           DEF Owed, Opens, OpensFor, Seated, Is
    <3>8. CASE s[1].op = "dropOther"
      <4>1. Len(s) = 1
        BY <1>0, <1>6, <3>8, Jumps DEF s, p
      <4>2. PICK b \in humans : humans' = humans \ {b} /\ Len(p) = 1 /\ Is(p[1], "freeRead", b)
        BY <1>0, <1>6, <2>7, <3>8, Jumps DEF s, p
      <4>3. ~o /\ \A c : ~Enters(s, c)
        BY <2>5, <3>8, <4>1 DEF Enters, Is, Says
      <4> QED
        BY <1>1, <1>2, <2>1, <3>1, <3>8, <4>2, <4>3, NoSeats
           DEF Owed, Opens, OpensFor, Seated, Is
    <3> QED
      BY <3>1, <3>2, <3>3, <3>4, <3>5, <3>6, <3>7, <3>8
  <2> QED
    BY <2>6, <2>7
<1> QED
  BY <1>4, <1>5, <1>6, Nexts

-----------------------------------------------------------------------------
\* Humans.

Leaving(x) == x.op \in {"count", "enter"} \/ (x.op = "status" /\ x.what # "human")

HumanFits(s) ==
  /\ call.status = "human" /\ humans = {} => \E i \in 1..Len(s) : Leaving(s[i])
  /\ Len(s) > 0 /\ Says(s[1], "status", "human") => humans # {}
  /\ Leaves(s, humans)

LEMMA LeavingKept ==
  ASSUME NEW s \in Seq(Code), NEW p \in Seq(Code), NEW i \in 1..Len(s), Leaving(s[i]), i > 1
  PROVE  /\ Moves(s, p) => \E j \in 1..Len(p) : Leaving(p[j])
         /\ \A x : Swaps(s, p, x) => \E j \in 1..Len(p) : Leaving(p[j])
         /\ \A x, y : Grows(s, p, x, y) => \E j \in 1..Len(p) : Leaving(p[j])
<1>1. ASSUME Moves(s, p) PROVE \E j \in 1..Len(p) : Leaving(p[j])
  <2>1. i - 1 \in 1..Len(p) /\ (i - 1) + 1 = i
    BY <1>1 DEF Moves
  <2>2. p[i - 1] = s[(i - 1) + 1]
    BY <1>1, <2>1 DEF Moves
  <2> QED
    BY <2>1, <2>2
<1>2. ASSUME NEW x, Swaps(s, p, x) PROVE \E j \in 1..Len(p) : Leaving(p[j])
  BY <1>2 DEF Swaps
<1>3. ASSUME NEW x, NEW y, Grows(s, p, x, y) PROVE \E j \in 1..Len(p) : Leaving(p[j])
  <2>1. p[i + 1] = s[i] /\ i + 1 \in 1..Len(p)
    BY <1>3 DEF Grows
  <2> QED
    BY <2>1
<1> QED
  BY <1>1, <1>2, <1>3

\* Statements of p that matter to Leaves come from s, in their order.
LEMMA LeavesKept ==
  ASSUME NEW s \in Seq(Code), NEW p \in Seq(Code), NEW u, NEW v, Len(s) > 0, Leaves(s, u),
         s[1].op \notin {"mark", "intercept"} => u \subseteq v
  PROVE  /\ Moves(s, p) => Leaves(p, v)
         /\ \A x \in Code :
              x.op \in {"freeRead", "freeWrite"} /\ Swaps(s, p, x) => Leaves(p, v)
         /\ \A x, y \in Code :
              x.op = "setHeld" /\ y.op = "music" /\ Grows(s, p, x, y) => Leaves(p, v)
<1> DEFINE Two == {"mark", "dropOther"}
<1>0. s[1].op \in {"mark", "intercept"} => \A i \in 1..Len(s) : i > 1 => s[i].op \notin Two
  BY DEF Leaves
<1>1. ASSUME NEW d \in -1..1,
             \A i \in 1..Len(p) : p[i].op \in {"mark", "dropOther", "intercept"} =>
               i - d \in 1..Len(s) /\ i - d > 1 /\ p[i] = s[i - d],
             \A j \in 1..Len(s) : j > 1 => j + d \in 1..Len(p) /\ p[j + d] = s[j]
      PROVE  Leaves(p, v)
  <2>1. ASSUME NEW i \in 1..Len(p), p[i].op = "mark"
        PROVE  \/ \E j \in 1..Len(p) :
                    i < j /\ (p[j].op = "count" \/ Says(p[j], "status", "waiting_human"))
               \/ \E b \in v : b # p[i].who
    <3>1. i - d \in 1..Len(s) /\ i - d > 1 /\ p[i] = s[i - d]
      BY <1>1, <2>1
    <3>2. u \subseteq v
      BY <1>0, <2>1, <3>1
    <3>3. CASE \E b \in u : b # s[i - d].who
      BY <3>1, <3>2, <3>3
    <3>4. ASSUME NEW j \in 1..Len(s), i - d < j,
                 s[j].op = "count" \/ Says(s[j], "status", "waiting_human")
          PROVE  \E k \in 1..Len(p) :
                   i < k /\ (p[k].op = "count" \/ Says(p[k], "status", "waiting_human"))
      <4>1. j + d \in 1..Len(p) /\ p[j + d] = s[j]
        BY <1>1, <3>1, <3>4
      <4>2. i < j + d
        BY <3>4
      <4> QED
        BY <3>4, <4>1, <4>2
    <3> QED
      BY <2>1, <3>1, <3>3, <3>4 DEF Leaves
  <2>2. ASSUME NEW i \in 1..Len(p), p[i].op = "dropOther" PROVE p[i].who \in v
    <3>1. i - d \in 1..Len(s) /\ i - d > 1 /\ p[i] = s[i - d]
      BY <1>1, <2>2
    <3> QED
      BY <1>0, <2>2, <3>1 DEF Leaves
  <2>3. ASSUME NEW i \in 1..Len(p), NEW j \in 1..Len(p), i < j, p[i].op \in {"mark", "intercept"}
        PROVE  p[j].op \notin Two
    <3>1. i - d \in 1..Len(s) /\ p[i] = s[i - d]
      BY <1>1, <2>3
    <3>2. p[j].op \in Two => j - d \in 1..Len(s) /\ p[j] = s[j - d]
      BY <1>1
    <3>3. i - d < j - d
      BY <2>3
    <3> QED
      BY <2>3, <3>1, <3>2, <3>3 DEF Leaves
  <2> QED
    BY <2>1, <2>2, <2>3 DEF Leaves
<1>2. ASSUME Moves(s, p) PROVE Leaves(p, v)
  <2>1. \A i \in 1..Len(p) : i + 1 \in 1..Len(s) /\ i + 1 > 1 /\ p[i] = s[i + 1]
    BY <1>2 DEF Moves
  <2>2. \A i \in 1..Len(p) : i - (-1) = i + 1
    OBVIOUS
  <2>3. \A j \in 1..Len(s) : j > 1 => j - 1 \in 1..Len(p) /\ (j - 1) + 1 = j /\ j + (-1) = j - 1
    BY <1>2 DEF Moves
  <2>4. \A j \in 1..Len(s) : j > 1 => j + (-1) \in 1..Len(p) /\ p[j + (-1)] = s[j]
    BY <2>1, <2>3
  <2>5. \A i \in 1..Len(p) : i - (-1) \in 1..Len(s) /\ i - (-1) > 1 /\ p[i] = s[i - (-1)]
    BY <2>1, <2>2
  <2>6. -1 \in -1..1
    OBVIOUS
  <2> QED
    BY <1>1, <2>4, <2>5, <2>6
<1>3. ASSUME NEW x \in Code, x.op \in {"freeRead", "freeWrite"}, Swaps(s, p, x) PROVE Leaves(p, v)
  <2>1. \A i \in 1..Len(p) : p[i].op \in {"mark", "dropOther", "intercept"} =>
          i - 0 \in 1..Len(s) /\ i - 0 > 1 /\ p[i] = s[i - 0]
    BY <1>3 DEF Swaps
  <2>2. \A j \in 1..Len(s) : j > 1 => j + 0 \in 1..Len(p) /\ p[j + 0] = s[j]
    BY <1>3 DEF Swaps
  <2>3. 0 \in -1..1
    OBVIOUS
  <2> QED
    BY <1>1, <2>1, <2>2, <2>3
<1>4. ASSUME NEW x \in Code, NEW y \in Code, x.op = "setHeld", y.op = "music", Grows(s, p, x, y)
      PROVE  Leaves(p, v)
  <2>1. \A j \in 1..Len(s) : j > 1 => j + 1 \in 1..Len(p) /\ p[j + 1] = s[j]
    BY <1>4 DEF Grows
  <2>2. \A i \in 1..Len(p) : p[i].op \in {"mark", "dropOther", "intercept"} =>
          i - 1 \in 1..Len(s) /\ i - 1 > 1 /\ (i - 1) + 1 = i
    BY <1>4 DEF Grows
  <2>3. \A i \in 1..Len(p) : p[i].op \in {"mark", "dropOther", "intercept"} =>
          i - 1 \in 1..Len(s) /\ i - 1 > 1 /\ p[i] = s[i - 1]
    BY <2>1, <2>2
  <2>4. 1 \in -1..1
    OBVIOUS
  <2> QED
    BY <1>1, <2>1, <2>3, <2>4
<1> QED
  BY <1>2, <1>3, <1>4
LEMMA NoLeaves ==
  /\ \A v : \A p \in Seq(Code) : Len(p) = 0 => Leaves(p, v)
  /\ \A v : \A p \in Seq(Code) : Len(p) = 1 /\ p[1].op = "freeRead" => Leaves(p, v)
  /\ \A v : Leaves(Asked, v) /\ Leaves(Release \o End \o <<>>, v)
  /\ \E i \in 1..Len(Asked) : Leaving(Asked[i])
  /\ LET q == Release \o End \o <<>> IN \E i \in 1..Len(q) : Leaving(q[i])
<1>1. \A v : \A p \in Seq(Code) : Len(p) = 0 => Leaves(p, v)
  BY DEF Leaves
<1>2. \A v : \A p \in Seq(Code) : Len(p) = 1 /\ p[1].op = "freeRead" => Leaves(p, v)
  BY DEF Leaves
<1> DEFINE q == Release \o End \o <<>>
<1>3. /\ q \in Seq(Code) /\ Len(q) = 7
      /\ q[1].op = "drop" /\ q[2].op = "freeAll" /\ q[3].op = "over"
      /\ Says(q[4], "status", "ended") /\ q[5].op = "drop" /\ q[6].op = "freeAll"
      /\ Says(q[7], "publish", "nobody")
  BY LastLeaveIs
<1> HIDE DEF q
<1>4. \A i \in 1..Len(q) : q[i].op \notin {"mark", "dropOther", "intercept"}
  BY <1>3 DEF Says
<1>5. \A v : Leaves(q, v)
  BY <1>4 DEF Leaves
<1>6. \A i \in 1..Len(Asked) : Asked[i].op \notin {"mark", "dropOther", "intercept"}
  BY AskedIs DEF Says
<1>7. \A v : Leaves(Asked, v)
  BY <1>6 DEF Leaves
<1>8. 4 \in 1..Len(q) /\ Leaving(q[4])
  BY <1>3 DEF Leaving, Says
<1>9. 1 \in 1..Len(Asked) /\ Leaving(Asked[1])
  BY AskedIs DEF Leaving, Says
<1> QED
  BY <1>1, <1>2, <1>5, <1>7, <1>8, <1>9 DEF q

LEMMA HumanStep ==
  ASSUME NEW h, Handlers = {h}, FlowTypeInv, [Next]_vars, EndFits(todo[h]), BusyFits(todo[h]),
         HumanFits(todo[h])
  PROVE  HumanFits(todo[h])'
<1> DEFINE s == todo[h]  p == todo'[h]
<1>0. h \in Handlers
  OBVIOUS
<1> HIDE DEF s, p
<1>1. HumanFits(todo[h])' <=>
        /\ call'.status = "human" /\ humans' = {} => \E i \in 1..Len(p) : Leaving(p[i])
        /\ Len(p) > 0 /\ Says(p[1], "status", "human") => humans' # {}
        /\ Leaves(p, humans')
  BY DEF HumanFits, p
<1>2. /\ call.status = "human" /\ humans = {} => \E i \in 1..Len(s) : Leaving(s[i])
      /\ Len(s) > 0 /\ Says(s[1], "status", "human") => humans # {}
      /\ Leaves(s, humans) /\ Seated(s, humans)
  BY DEF HumanFits, BusyFits, s
<1>3. CASE Requested(h)
  <2>1. Fresh(p)
    BY <1>0, <1>3, FreshRequests DEF p
  <2>2. /\ UNCHANGED humans /\ s = <<>>
        /\ \/ call'.status = call.status
           \/ call.status = "ringing" /\ call'.status \in {"ai", "waiting_human"}
    BY <1>3, RequestsState DEF s
  <2>3. Len(s) = 0
    BY <2>2, EmptySeq
  <2>4. ~(call.status = "human" /\ humans = {})
    BY <1>2, <2>3
  <2> QED
    BY <1>1, <2>1, <2>2, <2>4 DEF Fresh, Says
<1>4. CASE Around
  BY <1>1, <1>2, <1>4, AroundState DEF s, p
<1>5. CASE Step(h)
  <2>1. /\ s \in Seq(Code) /\ Len(s) > 0 /\ s[1] \in Code /\ s[1] = Now(h)
        /\ p \in Seq(Code) /\ (Len(p) > 0 => p[1] \in Code)
        /\ Goon(h) => /\ Moves(s, p)
                      /\ Len(p) > 0 => Fits(s[1], p[1])
                      /\ Len(p) = 0 => ~NotLast(s[1])
    BY <1>0, <1>5, Ahead DEF s, p
  <2>2. /\ s[1].op # "status" => call'.status = call.status
        /\ s[1].op = "status" => call'.status = s[1].what
    BY <1>0, <1>5, <2>1, Effects DEF FlowTypeInv
  <2>3. /\ s[1].op \notin {"mark", "enter", "intercept", "dropOther"} => humans' = humans
        /\ s[1].op = "mark" => humans' = humans \ {s[1].who}
        /\ s[1].op = "enter" => humans' = humans \cup {s[1].who}
    BY <1>0, <1>5, <2>1, Effects
  <2>4. \A i \in 1..Len(s) : i = 1 \/ i > 1
    BY <2>1
  <2>5. CASE Goon(h)
    <3>1. Moves(s, p) /\ (Len(p) > 0 => Fits(s[1], p[1]) /\ p[1] = s[2])
      BY <2>1, <2>5 DEF Moves
    <3>2. /\ s[1].op # "count"
          /\ s[1].op \in {"intercept", "dropOther"} => humans' = humans
      BY <1>0, <1>5, <2>5, GoesOn DEF s, p
    <3>3. Leaves(p, humans')
      <4>1. s[1].op \notin {"mark", "intercept"} => humans \subseteq humans'
        BY <2>3, <3>2
      <4> QED
        BY <1>2, <2>1, <3>1, <4>1, LeavesKept
    <3>4. Len(p) > 0 /\ Says(p[1], "status", "human") => humans' # {}
      <4> SUFFICES ASSUME Len(p) > 0, Says(p[1], "status", "human") PROVE humans' # {}
        OBVIOUS
      <4>1. s[1].op = "enter" \/ s[1].op = "busy"
        BY <3>1 DEF Fits, MayFollow, Says
      <4>2. CASE s[1].op = "enter"
        BY <2>3, <4>2
      <4>3. CASE s[1].op = "busy"
        <5>1. s[1].who \in Agents /\ OpensFor(s, "busy", s[1].who)
          BY <2>1, <4>3 DEF Code, Personal, OpensFor, Is
        <5>2. s[2].op = "status"
          BY <3>1 DEF Says
        <5> QED
          BY <1>2, <2>3, <4>3, <5>1, <5>2 DEF Seated
      <4> QED
        BY <4>1, <4>2, <4>3
    <3>5. ASSUME call'.status = "human", humans' = {} PROVE \E i \in 1..Len(p) : Leaving(p[i])
      <4>1. CASE s[1].op = "mark"
        <5>1. ~\E b \in humans : b # s[1].who
          BY <2>3, <3>5, <4>1
        <5>2. PICK j \in 1..Len(s) : 1 < j /\ (s[j].op = "count" \/ Says(s[j], "status", "waiting_human"))
          BY <1>2, <2>1, <4>1, <5>1 DEF Leaves
        <5>3. Leaving(s[j])
          BY <5>2 DEF Leaving, Says
        <5> QED
          BY <2>1, <3>1, <5>2, <5>3, LeavingKept
      <4>2. CASE s[1].op # "mark"
        <5>1. s[1].op # "enter" /\ humans = {}
          BY <2>3, <3>2, <3>5, <4>2
        <5>2. s[1].op # "status"
          BY <1>2, <2>1, <2>2, <3>5, <5>1 DEF Says
        <5>3. PICK i \in 1..Len(s) : Leaving(s[i])
          BY <1>2, <2>2, <3>5, <5>1, <5>2
        <5>4. i > 1
          BY <2>4, <3>2, <5>1, <5>2, <5>3 DEF Leaving
        <5> QED
          BY <2>1, <3>1, <5>3, <5>4, LeavingKept
      <4> QED
        BY <4>1, <4>2
    <3> QED
      BY <1>1, <3>3, <3>4, <3>5
  <2>6. CASE ~Goon(h)
    <3>1. /\ s[1].op \in {"live", "over", "ask", "count", "freeRead", "hold", "unhold", "intercept",
                          "dropOther"}
          /\ ~(Len(p) > 0 /\ Says(p[1], "status", "human"))
          /\ call'.status = call.status
      BY <1>0, <1>5, <2>2, <2>6, JumpHeads DEF s, p, Says
    <3>2. CASE s[1].op \in {"live", "over"}
      <4>1. Len(p) = 0 /\ call.status = "ended"
        BY <1>0, <1>5, <2>6, <3>2, Jumps DEF s, p
      <4> QED
        BY <1>1, <2>1, <3>1, <4>1, NoLeaves
    <3>3. CASE s[1].op = "ask"
      <4>1. p = Asked
        BY <1>0, <1>5, <2>6, <3>3, Jumps DEF s, p
      <4> QED
        BY <1>1, <3>1, <4>1, NoLeaves
    <3>4. CASE s[1].op = "count"
      <4> DEFINE z == Release \o End \o <<>>  a == s[1].who
      <4>1. (\A v : Leaves(z, v)) /\ \E i \in 1..Len(z) : Leaving(z[i])
        BY NoLeaves
      <4> HIDE DEF z
      <4>2. \/ Len(p) = 1 /\ Is(p[1], "freeRead", a) /\ humans # {}
            \/ p = z
        BY <1>0, <1>5, <3>4, Jumps DEF s, p, z
      <4>3. humans' = humans
        BY <2>3, <3>4
      <4>4. CASE p = z
        BY <1>1, <3>1, <4>1, <4>4
      <4>5. CASE Len(p) = 1 /\ Is(p[1], "freeRead", a) /\ humans # {}
        BY <1>1, <2>1, <3>1, <4>3, <4>5, NoLeaves DEF Is
      <4> QED
        BY <4>2, <4>4, <4>5
    <3>5. CASE s[1].op = "freeRead"
      <4>1. PICK x \in Code : Is(x, "freeWrite", s[1].who) /\ Swaps(s, p, x)
        BY <1>0, <1>5, <2>6, <3>5, Jumps DEF s, p
      <4>2. humans' = humans
        BY <2>3, <3>5
      <4>3. Leaves(p, humans')
        BY <1>2, <2>1, <4>1, <4>2, LeavesKept DEF Is
      <4>4. \A i \in 1..Len(s) : Leaving(s[i]) => i > 1
        BY <2>4, <3>5 DEF Leaving
      <4> QED
        BY <1>1, <1>2, <2>1, <3>1, <4>1, <4>2, <4>3, <4>4, LeavingKept
    <3>6. CASE s[1].op \in {"hold", "unhold"}
      <4>1. PICK x \in Code, y \in Code : x.op = "setHeld" /\ y.op = "music" /\ Grows(s, p, x, y)
        BY <1>0, <1>5, <2>6, <3>6, Jumps DEF s, p, Says
      <4>2. humans' = humans
        BY <2>3, <3>6
      <4>3. Leaves(p, humans')
        BY <1>2, <2>1, <4>1, <4>2, LeavesKept
      <4>4. \A i \in 1..Len(s) : Leaving(s[i]) => i > 1
        BY <2>4, <3>6 DEF Leaving
      <4> QED
        BY <1>1, <1>2, <2>1, <3>1, <4>1, <4>2, <4>3, <4>4, LeavingKept
    <3>7. CASE s[1].op = "intercept"
      <4>1. PICK b \in humans, x \in Code :
              humans' = humans \ {b} /\ Is(x, "freeRead", b) /\ Swaps(s, p, x)
        BY <1>0, <1>5, <2>6, <3>7, Jumps DEF s, p
      <4>2. Leaves(p, humans')
        BY <1>2, <2>1, <3>7, <4>1, LeavesKept DEF Is
      <4>3. Flows(s)
        BY <1>0 DEF FlowTypeInv, s
      <4>4. Len(s) > 1 /\ Fits(s[1], s[2])
        <5>1. Len(s) > 1
          BY <2>1, <3>7, <4>3 DEF Flows, NotLast
        <5> QED
          BY <2>1, <4>3, <5>1 DEF Flows
      <4>5. Leaving(s[2])
        BY <3>7, <4>4 DEF Fits, MustFollow, Is, Leaving
      <4>6. \E i \in 1..Len(p) : Leaving(p[i])
        BY <2>1, <4>1, <4>4, <4>5, LeavingKept
      <4> QED
        BY <1>1, <3>1, <4>2, <4>6
    <3>8. CASE s[1].op = "dropOther"
      <4>1. PICK b \in humans \ {s[1].who} :
              humans' = humans \ {b} /\ Len(p) = 1 /\ Is(p[1], "freeRead", b)
        BY <1>0, <1>5, <2>6, <3>8, Jumps DEF s, p
      <4>2. s[1].who \in humans
        BY <1>2, <2>1, <3>8 DEF Leaves
      <4> QED
        BY <1>1, <2>1, <3>1, <4>1, <4>2, NoLeaves DEF Is
    <3> QED
      BY <3>1, <3>2, <3>3, <3>4, <3>5, <3>6, <3>7, <3>8
  <2> QED
    BY <2>5, <2>6
<1> QED
  BY <1>3, <1>4, <1>5, Nexts

-----------------------------------------------------------------------------
(***************************************************************************)
(* What holds when the requests of a call come one at a time: with one     *)
(* handler, for any number of agents and of requests, and whatever the     *)
(* ring, the bus, the AI job and the wrap-up clock do in between.          *)
(***************************************************************************)

SerialInv ==
  \A w \in Handlers :
    MusicFits(todo[w]) /\ EndFits(todo[w]) /\ BusyFits(todo[w]) /\ HumanFits(todo[w])

LEMMA SerialInit == ASSUME NEW h, Handlers = {h}, Init PROVE SerialInv
<1> DEFINE s == todo[h]
<1>1. s \in Seq(Code) /\ Len(s) = 0
  BY SinglesFlow, EmptySeq DEF Init
<1> HIDE DEF s
<1>2. \A op, a : ~Opens(s, op) /\ ~OpensFor(s, op, a)
  BY <1>1 DEF Opens, OpensFor
<1>3. MusicFits(s)
  BY <1>2 DEF MusicFits, Init
<1>4. EndFits(s)
  BY <1>1, <1>2, HarmlessLists DEF EndFits, Ending, Init
<1>5. BusyFits(s)
  <2>1. Seats(s, work) /\ Seated(s, humans)
    BY <1>1, <1>2, NoSeats DEF Seated
  <2> QED
    BY <1>1, <1>2, <2>1 DEF BusyFits, Init
<1>6. HumanFits(s)
  <2>1. Leaves(s, humans)
    BY <1>1, NoLeaves
  <2>2. call.status = "ringing" /\ ~(Len(s) > 0)
    BY <1>1 DEF Init
  <2> QED
    BY <2>1, <2>2 DEF HumanFits
<1> QED
  BY <1>3, <1>4, <1>5, <1>6 DEF SerialInv, s

LEMMA SerialStep ==
  ASSUME NEW h, Handlers = {h}, FlowTypeInv, SerialInv, [Next]_vars
  PROVE  SerialInv'
<1>1. MusicFits(todo[h]) /\ EndFits(todo[h]) /\ BusyFits(todo[h]) /\ HumanFits(todo[h])
  BY DEF SerialInv
<1>2. MusicFits(todo[h])'
  BY <1>1, MusicStep
<1>3. EndFits(todo[h])'
  BY <1>1, EndStep
<1>4. BusyFits(todo[h])'
  BY <1>1, BusyStep
<1>5. HumanFits(todo[h])'
  BY <1>1, HumanStep
<1> QED
  BY <1>2, <1>3, <1>4, <1>5 DEF SerialInv

\* What the first statements of the only list say of the state, in every reachable state.
THEOREM SerialInvariant == ASSUME NEW h, Handlers = {h} PROVE Spec => []SerialInv
<1>1. Init => SerialInv
  BY SerialInit
<1>2. FlowTypeInv /\ SerialInv /\ [Next]_vars => SerialInv'
  BY SerialStep
<1> QED
  BY <1>1, <1>2, FlowTypeInvariant, PTL DEF Spec

LEMMA AtRestFits ==
  ASSUME NEW h, Handlers = {h}, AtRest, SerialInv
  PROVE  /\ BusyIffOnCall /\ MusicFollowsHold /\ NoRingAfterEnd /\ HumanCallHasHuman
<1> DEFINE s == todo[h]
<1>1. Len(s) = 0 /\ MusicFits(s) /\ EndFits(s) /\ BusyFits(s) /\ HumanFits(s)
  BY EmptySeq DEF AtRest, SerialInv
<1> HIDE DEF s
<1>2. ~(Len(s) > 0)
  BY <1>1
<1>3. \A op, a : ~Opens(s, op) /\ ~OpensFor(s, op, a) /\ ~Enters(s, a)
  BY <1>1, <1>2 DEF Opens, OpensFor, Enters
<1>4. \A a : ~Owed(s, a, call.endedAt)
  BY <1>2, <1>3 DEF Owed
<1>5. BusyIffOnCall
  BY <1>1, <1>3, <1>4 DEF BusyFits, BusyIffOnCall
<1>6. MusicFollowsHold
  BY <1>1, <1>3 DEF MusicFits, MusicFollowsHold
<1>7. NoRingAfterEnd
  BY <1>1, <1>3 DEF EndFits, NoRingAfterEnd
<1>8. HumanCallHasHuman
  <2>1. ~\E i \in 1..Len(s) : Leaving(s[i])
    BY <1>1
  <2> QED
    BY <1>1, <2>1 DEF HumanFits, HumanCallHasHuman
<1> QED
  BY <1>5, <1>6, <1>7, <1>8

LEMMA RestIsSound ==
  ASSUME NEW h, Handlers = {h}
  PROVE  SerialInv => BusyIffOnCall /\ MusicFollowsHold /\ NoRingAfterEnd /\ HumanCallHasHuman
<1>1. CASE AtRest
  BY <1>1, AtRestFits
<1>2. CASE ~AtRest
  BY <1>2 DEF BusyIffOnCall, MusicFollowsHold, NoRingAfterEnd, HumanCallHasHuman
<1> QED
  BY <1>1, <1>2

\* An agent is busy exactly while being on the call (Flow.leave, transfer, completeTransfer,
\* dropConsultant, takeOver, intercept and end all free whom they must): no agent stays busy
\* for a call that is over or that others took, and none on the call is offered another.
THEOREM BusyIffOnCallHolds ==
  ASSUME NEW h, Handlers = {h} PROVE Spec => []BusyIffOnCall
BY SerialInvariant, RestIsSound, PTL

\* The media worker plays to the callers on hold and to no one else (Flow.hold, unhold).
THEOREM MusicFollowsHoldHolds ==
  ASSUME NEW h, Handlers = {h} PROVE Spec => []MusicFollowsHold
BY SerialInvariant, RestIsSound, PTL

\* No desk rings for a call that is over (Flow.end, Flow.release).
THEOREM NoRingAfterEndHolds ==
  ASSUME NEW h, Handlers = {h} PROVE Spec => []NoRingAfterEnd
BY SerialInvariant, RestIsSound, PTL

\* A call in status human has a human (Flow.leave ends a call the last one leaves).
THEOREM HumanCallHasHumanHolds ==
  ASSUME NEW h, Handlers = {h} PROVE Spec => []HumanCallHasHuman
BY SerialInvariant, RestIsSound, PTL

LEMMA EndedStays ==
  ASSUME NEW h, Handlers = {h}, FlowTypeInv, SerialInv, [Next]_vars, call.status = "ended"
  PROVE  call'.status = "ended"
<1> DEFINE s == todo[h]
<1>0. h \in Handlers
  OBVIOUS
<1>1. /\ call.endedAt <=> call.status = "ended"
      /\ call.endedAt => Opens(s, "live") \/ Opens(s, "ask") \/ Harmless(s)
  BY DEF SerialInv, EndFits
<1> HIDE DEF s
<1>2. CASE Requested(h)
  BY <1>0, <1>2, RequestsState
<1>3. CASE Around
  BY <1>3, AroundState
<1>4. CASE Step(h)
  <2>1. Len(s) > 0 /\ s \in Seq(Code) /\ s[1] = Now(h)
    BY <1>0, <1>4, Ahead DEF s
  <2>2. s[1].op = "status" => s[1].what = "ended"
    BY <1>1, <2>1 DEF Opens, Harmless, Says
  <2> QED
    BY <1>0, <1>4, <2>1, <2>2, Effects
<1> QED
  BY <1>2, <1>3, <1>4, Nexts

\* A call is over once: no method writes another status over `ended`.
THEOREM EndedIsFinalHolds ==
  ASSUME NEW h, Handlers = {h} PROVE Spec => EndedIsFinal
<1>1. FlowTypeInv /\ SerialInv /\ [Next]_vars => [call.status = "ended" => call'.status = "ended"]_vars
  BY EndedStays
<1> QED
  BY <1>1, SerialInvariant, FlowTypeInvariant, PTL DEF Spec, EndedIsFinal

-----------------------------------------------------------------------------
(***************************************************************************)
(* What holds whatever handlers interleave, for any number of them: the    *)
(* AI job of a call that rings desks first is dispatched once, and an      *)
(* escalation is answered once.  Both are tokens: one statement, in one    *)
(* list, or one field of the state, has it.                                *)
(***************************************************************************)

\* The fallback job is still to be dispatched.
Token(x) == x.op = "dispatch" \/ Says(x, "offer", "fallback")
Carries(s) == \E i \in 1..Len(s) : Token(s[i])

\* The AI's request has yet to register its resolver.
Asking(x) == x.op \in {"ask", "wait"}
Asks(s) == \E i \in 1..Len(s) : Asking(s[i])

\* The handler will start a ring, or publish an outcome.
Answers(s) == \E i \in 1..Len(s) : s[i].op \in {"offer", "publish"}

\* Where the tokens stand; whoever registers a resolver rings next, and whoever drops a
\* ring publishes in the end.
Shaped(s) ==
  /\ \A i \in 1..Len(s) : Token(s[i]) => i = 1
  /\ \A i \in 1..Len(s) : Asking(s[i]) => i = 1 \/ (i = 2 /\ s[1].op = "status")
  /\ \A i \in 1..Len(s) : s[i].op = "wait" => i < Len(s) /\ s[i + 1].op = "offer"
  /\ \A i \in 1..Len(s) :
       s[i].op = "drop" => \E j \in 1..Len(s) : i < j /\ s[j].op = "publish"

LEMMA ShapedMoves ==
  ASSUME NEW s \in Seq(Code), NEW p \in Seq(Code), Len(s) > 0, Shaped(s), Moves(s, p)
  PROVE  /\ Shaped(p) /\ ~Carries(p)
         /\ Asks(p) <=> Asks(s) /\ ~Asking(s[1])
         /\ Answers(s) => Answers(p) \/ s[1].op \in {"offer", "publish"}
         /\ s[1].op \in {"wait", "drop"} => Answers(p)
<1>0. /\ Len(s) \in Nat /\ Len(p) = Len(s) - 1
      /\ \A i \in 1..Len(p) : i + 1 \in 1..Len(s) /\ p[i] = s[i + 1]
      /\ \A i \in 1..Len(s) : i # 1 => i - 1 \in 1..Len(p) /\ p[i - 1] = s[i]
  BY DEF Moves
<1>1. \A i \in 1..Len(p) : ~Token(p[i])
  BY <1>0 DEF Shaped
<1>2. \A i \in 1..Len(p) : Asking(p[i]) => i = 1 /\ s[1].op = "status"
  BY <1>0 DEF Shaped
<1>3. ASSUME NEW i \in 1..Len(p), p[i].op = "wait" PROVE i < Len(p) /\ p[i + 1].op = "offer"
  <2>1. i + 1 \in 1..Len(s) /\ s[i + 1].op = "wait"
    BY <1>0, <1>3
  <2>2. i + 1 < Len(s) /\ s[(i + 1) + 1].op = "offer"
    BY <2>1 DEF Shaped
  <2>3. i + 1 \in 1..Len(p)
    BY <1>0, <2>2
  <2> QED
    BY <1>0, <2>2, <2>3
<1>4. ASSUME NEW i \in 1..Len(p), p[i].op = "drop"
      PROVE  \E j \in 1..Len(p) : i < j /\ p[j].op = "publish"
  <2>1. i + 1 \in 1..Len(s) /\ s[i + 1].op = "drop"
    BY <1>0, <1>4
  <2>2. PICK j \in 1..Len(s) : i + 1 < j /\ s[j].op = "publish"
    BY <2>1 DEF Shaped
  <2>3. j - 1 \in 1..Len(p) /\ p[j - 1] = s[j] /\ i < j - 1
    BY <1>0, <2>2
  <2> QED
    BY <2>2, <2>3
<1>5. Shaped(p)
  BY <1>1, <1>2, <1>3, <1>4 DEF Shaped
<1>6. Asks(p) <=> Asks(s) /\ ~Asking(s[1])
  <2>1. ASSUME Asks(p) PROVE Asks(s) /\ ~Asking(s[1])
    <3>1. PICK i \in 1..Len(p) : Asking(p[i])
      BY <2>1 DEF Asks
    <3>2. Asking(s[i + 1]) /\ i + 1 \in 1..Len(s) /\ s[1].op = "status"
      BY <1>0, <1>2, <3>1
    <3> QED
      BY <3>2 DEF Asks, Asking
  <2>2. ASSUME Asks(s), ~Asking(s[1]) PROVE Asks(p)
    <3>1. PICK i \in 1..Len(s) : Asking(s[i])
      BY <2>2 DEF Asks
    <3>2. i - 1 \in 1..Len(p) /\ p[i - 1] = s[i]
      BY <1>0, <2>2, <3>1
    <3> QED
      BY <3>1, <3>2 DEF Asks
  <2> QED
    BY <2>1, <2>2
<1>7. ASSUME Answers(s), s[1].op \notin {"offer", "publish"} PROVE Answers(p)
  <2>1. PICK i \in 1..Len(s) : s[i].op \in {"offer", "publish"}
    BY <1>7 DEF Answers
  <2>2. i - 1 \in 1..Len(p) /\ p[i - 1] = s[i]
    BY <1>0, <1>7, <2>1
  <2> QED
    BY <2>1, <2>2 DEF Answers
<1>8. ASSUME s[1].op \in {"wait", "drop"} PROVE Answers(p)
  <2>1. \E j \in 1..Len(s) : 1 < j /\ s[j].op \in {"offer", "publish"}
    <3>1. CASE s[1].op = "wait"
      <4>1. 1 < Len(s) /\ s[1 + 1].op = "offer"
        BY <3>1, <1>0 DEF Shaped
      <4> QED
        BY <4>1, <1>0
    <3>2. CASE s[1].op = "drop"
      BY <3>2, <1>0 DEF Shaped
    <3> QED
      BY <1>8, <3>1, <3>2
  <2>2. PICK j \in 1..Len(s) : 1 < j /\ s[j].op \in {"offer", "publish"}
    BY <2>1
  <2>3. j - 1 \in 1..Len(p) /\ p[j - 1] = s[j]
    BY <1>0, <2>2
  <2> QED
    BY <2>2, <2>3 DEF Answers
<1>9. ~Carries(p)
  BY <1>1 DEF Carries
<1> QED
  BY <1>5, <1>6, <1>7, <1>8, <1>9

\* A list without the first is neither asking nor carrying, unless it began with a status.
LEMMA NoneBehind ==
  ASSUME NEW s \in Seq(Code), Len(s) > 0, Shaped(s), s[1].op # "status", ~Asking(s[1])
  PROVE  ~Asks(s)
  BY DEF Asks, Shaped

LEMMA ShapedSwaps ==
  ASSUME NEW s \in Seq(Code), NEW p \in Seq(Code), Len(s) > 0, Shaped(s), NEW x \in Code,
         x.op \in {"freeRead", "freeWrite"}, Swaps(s, p, x), s[1].op \in {"freeRead", "intercept"}
  PROVE  Shaped(p) /\ ~Carries(p) /\ ~Asks(p) /\ (Answers(s) => Answers(p))
<1>0. /\ Len(s) \in Nat /\ Len(p) = Len(s) /\ p[1] = x
      /\ \A i \in 1..Len(s) : i # 1 => p[i] = s[i]
  BY DEF Swaps
<1>1. \A i \in 1..Len(s) : ~Asking(s[i]) /\ ~Token(s[i]) /\ s[i].op # "wait"
  BY DEF Shaped, Asking, Token, Says
<1>2. \A i \in 1..Len(p) : ~Asking(p[i]) /\ ~Token(p[i]) /\ p[i].op # "wait"
  BY <1>0, <1>1 DEF Asking, Token, Says
<1>3. ASSUME NEW i \in 1..Len(p), p[i].op = "drop"
      PROVE  \E j \in 1..Len(p) : i < j /\ p[j].op = "publish"
  <2>1. i # 1 /\ i \in 1..Len(s) /\ s[i].op = "drop"
    BY <1>0, <1>3
  <2>2. PICK j \in 1..Len(s) : i < j /\ s[j].op = "publish"
    BY <2>1 DEF Shaped
  <2> QED
    BY <1>0, <2>1, <2>2
<1>4. Answers(s) => Answers(p)
  BY <1>0 DEF Answers
<1> QED
  BY <1>2, <1>3, <1>4 DEF Shaped, Carries, Asks

LEMMA ShapedGrows ==
  ASSUME NEW s \in Seq(Code), NEW p \in Seq(Code), Len(s) > 0, Shaped(s),
         NEW x \in Code, NEW y \in Code, x.op = "setHeld", y.op = "music", Grows(s, p, x, y),
         s[1].op \in {"hold", "unhold"}
  PROVE  Shaped(p) /\ ~Carries(p) /\ ~Asks(p) /\ (Answers(s) => Answers(p))
<1>0. /\ Len(s) \in Nat /\ Len(p) = Len(s) + 1 /\ p[1] = x /\ p[2] = y
      /\ \A i \in 1..Len(s) : i # 1 => i + 1 \in 1..Len(p) /\ p[i + 1] = s[i]
      /\ \A i \in 1..Len(p) : i # 1 /\ i # 2 => i - 1 \in 1..Len(s) /\ p[i] = s[i - 1]
  <2>1. /\ Len(s) \in Nat /\ Len(p) = Len(s) + 1 /\ p[1] = x /\ p[2] = y
        /\ \A i \in 1..Len(s) : i > 1 => p[i + 1] = s[i]
    BY DEF Grows
  <2>2. ASSUME NEW i \in 1..Len(p), i # 1, i # 2 PROVE i - 1 \in 1..Len(s) /\ p[i] = s[i - 1]
    <3>1. i - 1 \in 1..Len(s) /\ i - 1 > 1 /\ (i - 1) + 1 = i
      BY <2>1, <2>2
    <3> QED
      BY <2>1, <3>1
  <2> QED
    BY <2>1, <2>2
<1>1. \A i \in 1..Len(s) : ~Asking(s[i]) /\ ~Token(s[i]) /\ s[i].op # "wait"
  BY DEF Shaped, Asking, Token, Says
<1>2. \A i \in 1..Len(p) : ~Asking(p[i]) /\ ~Token(p[i]) /\ p[i].op # "wait"
  BY <1>0, <1>1 DEF Asking, Token, Says
<1>3. ASSUME NEW i \in 1..Len(p), p[i].op = "drop"
      PROVE  \E j \in 1..Len(p) : i < j /\ p[j].op = "publish"
  <2>1. i # 1 /\ i # 2 /\ i - 1 \in 1..Len(s) /\ s[i - 1].op = "drop"
    BY <1>0, <1>3
  <2>2. PICK j \in 1..Len(s) : i - 1 < j /\ s[j].op = "publish"
    BY <2>1 DEF Shaped
  <2>3. j # 1 /\ j + 1 \in 1..Len(p) /\ p[j + 1] = s[j] /\ i < j + 1
    BY <1>0, <2>1, <2>2
  <2> QED
    BY <2>2, <2>3
<1>4. ASSUME Answers(s) PROVE Answers(p)
  <2>1. PICK i \in 1..Len(s) : s[i].op \in {"offer", "publish"}
    BY <1>4 DEF Answers
  <2> QED
    BY <1>0, <2>1 DEF Answers
<1> QED
  BY <1>2, <1>3, <1>4 DEF Shaped, Carries, Asks

LEMMA ShapedLists ==
  /\ \A p \in Seq(Code) : Len(p) = 0 => Shaped(p) /\ ~Carries(p) /\ ~Asks(p)
  /\ \A p \in Seq(Code) : Len(p) = 1 /\ p[1].op \in {"freeRead", "hold", "unhold"} =>
       Shaped(p) /\ ~Carries(p) /\ ~Asks(p)
  /\ \A p \in Seq(Code) : Len(p) = 1 /\ p[1].op = "ask" => Shaped(p) /\ ~Carries(p) /\ Asks(p)
  /\ LET p == Release \o End \o <<>>
     IN  Shaped(p) /\ ~Carries(p) /\ ~Asks(p) /\ Answers(p)
  /\ Shaped(End) /\ ~Carries(End) /\ ~Asks(End)
  /\ Shaped(Asked) /\ ~Carries(Asked) /\ Asks(Asked)
<1> USE DEF Shaped, Carries, Asks, Answers, Token, Asking, Says
<1>1. \A p \in Seq(Code) : Len(p) = 0 => Shaped(p) /\ ~Carries(p) /\ ~Asks(p)
  OBVIOUS
<1>2. \A p \in Seq(Code) : Len(p) = 1 /\ p[1].op \in {"freeRead", "hold", "unhold"} =>
       Shaped(p) /\ ~Carries(p) /\ ~Asks(p)
  OBVIOUS
<1>3. \A p \in Seq(Code) : Len(p) = 1 /\ p[1].op = "ask" => Shaped(p) /\ ~Carries(p) /\ Asks(p)
  OBVIOUS
<1>4. LET p == Release \o End \o <<>>
      IN  Shaped(p) /\ ~Carries(p) /\ ~Asks(p) /\ Answers(p)
  <2> DEFINE q == Release \o End \o <<>>
  <2>1. /\ q \in Seq(Code) /\ Len(q) = 7
        /\ q[1].op = "drop" /\ q[2].op = "freeAll" /\ q[3].op = "over"
        /\ Says(q[4], "status", "ended") /\ q[5].op = "drop" /\ q[6].op = "freeAll"
        /\ Says(q[7], "publish", "nobody")
    BY LastLeaveIs
  <2> HIDE DEF q
  <2>2. Shaped(q) /\ ~Carries(q) /\ ~Asks(q) /\ Answers(q)
    BY <2>1
  <2> QED
    BY <2>2 DEF q
<1>5. Shaped(End) /\ ~Carries(End) /\ ~Asks(End)
  BY EndIs
<1>6. Shaped(Asked) /\ ~Carries(Asked) /\ Asks(Asked)
  BY AskedIs
<1> QED
  BY <1>1, <1>2, <1>3, <1>4, <1>5, <1>6

\* What a statement does to the tokens of its list.
LEMMA StepShape ==
  ASSUME FlowTypeInv, NEW w \in Handlers, Step(w), NEW s, s = todo[w], NEW p, p = todo'[w],
         Shaped(s)
  PROVE  /\ Shaped(p) /\ ~Carries(p)
         /\ Asks(p) <=> \/ s[1].op = "ask" /\ call.status # "ended"
                        \/ Asks(s) /\ ~Asking(s[1])
         /\ Answers(s) => Answers(p) \/ s[1].op \in {"offer", "publish"} \/ call.status = "ended"
         /\ s[1].op \in {"wait", "drop"} => Answers(p)
<1>1. s \in Seq(Code) /\ Len(s) > 0 /\ p \in Seq(Code) /\ (Goon(w) => Moves(s, p))
  BY Ahead
<1>2. CASE Goon(w)
  <2>1. ~(s[1].op = "ask" /\ call.status # "ended")
    <3>1. Len(Asked) = 3
      BY AskedIs
    <3>2. ASSUME s[1].op = "ask", call.status # "ended" PROVE FALSE
      <4>1. Len(s) = 1 /\ p = Asked
        BY <3>2, Jumps
      <4>2. Len(p) = Len(s) - 1
        BY <1>1, <1>2 DEF Moves
      <4> QED
        BY <3>1, <4>1, <4>2
    <3> QED
      BY <3>2
  <2>2. /\ Shaped(p) /\ ~Carries(p)
        /\ Asks(p) <=> Asks(s) /\ ~Asking(s[1])
        /\ Answers(s) => Answers(p) \/ s[1].op \in {"offer", "publish"}
        /\ s[1].op \in {"wait", "drop"} => Answers(p)
    BY <1>1, <1>2, ShapedMoves
  <2> QED
    BY <2>1, <2>2
<1>3. CASE ~Goon(w)
  <2>0. s[1].op \in {"live", "over", "ask", "count", "freeRead", "hold", "unhold", "intercept",
                     "dropOther"}
    BY <1>3, JumpHeads
  <2>1. s[1].op # "ask" => ~Asks(s)
    BY <1>1, <2>0, NoneBehind DEF Asking
  <2>2. CASE s[1].op \in {"live", "over"}
    <3>1. call.status = "ended" /\ Len(p) = 0
      BY <1>3, <2>2, Jumps
    <3>2. Shaped(p) /\ ~Carries(p) /\ ~Asks(p)
      BY <1>1, <3>1, ShapedLists
    <3> QED
      BY <2>1, <2>2, <3>1, <3>2
  <2>3. CASE s[1].op = "ask"
    <3>1. Len(s) = 1 /\ call.status # "ended" /\ p = Asked
      BY <1>3, <2>3, Jumps
    <3>2. Shaped(p) /\ ~Carries(p) /\ Asks(p)
      BY <3>1, ShapedLists
    <3>3. ~Answers(s)
      BY <2>3, <3>1 DEF Answers
    <3> QED
      BY <2>3, <3>1, <3>2, <3>3
  <2>4. CASE s[1].op = "count"
    <3>1. ~Answers(s)
      <4>1. Len(s) = 1
        BY <2>4, Jumps
      <4> QED
        BY <2>4, <4>1 DEF Answers
    <3>2. Shaped(p) /\ ~Carries(p) /\ ~Asks(p)
      <4> DEFINE q == Release \o End \o <<>>
      <4>1. Shaped(q) /\ ~Carries(q) /\ ~Asks(q)
        BY ShapedLists
      <4> HIDE DEF q
      <4>2. (Len(p) = 1 /\ Is(p[1], "freeRead", s[1].who)) \/ p = q
        BY <2>4, Jumps DEF q
      <4>3. CASE p = q
        BY <4>1, <4>3
      <4>4. CASE Len(p) = 1 /\ Is(p[1], "freeRead", s[1].who)
        BY <1>1, <4>4, ShapedLists DEF Is
      <4> QED
        BY <4>2, <4>3, <4>4
    <3> QED
      BY <2>1, <2>4, <3>1, <3>2
  <2>5. CASE s[1].op \in {"freeRead", "intercept"}
    <3>1. \E x \in Code : x.op \in {"freeRead", "freeWrite"} /\ Swaps(s, p, x)
      BY <1>3, <2>5, Jumps DEF Is
    <3>2. Shaped(p) /\ ~Carries(p) /\ ~Asks(p) /\ (Answers(s) => Answers(p))
      BY <1>1, <2>5, <3>1, ShapedSwaps
    <3> QED
      BY <2>1, <2>5, <3>2
  <2>6. CASE s[1].op \in {"hold", "unhold"}
    <3>1. \E x, y \in Code : x.op = "setHeld" /\ y.op = "music" /\ Grows(s, p, x, y)
      BY <1>3, <2>6, Jumps DEF Says
    <3>2. Shaped(p) /\ ~Carries(p) /\ ~Asks(p) /\ (Answers(s) => Answers(p))
      BY <1>1, <2>6, <3>1, ShapedGrows
    <3> QED
      BY <2>1, <2>6, <3>2
  <2>7. CASE s[1].op = "dropOther"
    <3>1. Len(s) = 1 /\ Len(p) = 1 /\ p[1].op = "freeRead"
      BY <1>3, <2>7, Jumps DEF Is
    <3>2. Shaped(p) /\ ~Carries(p) /\ ~Asks(p)
      BY <1>1, <3>1, ShapedLists
    <3>3. ~Answers(s)
      BY <2>7, <3>1 DEF Answers
    <3> QED
      BY <2>1, <2>7, <3>2, <3>3
  <2> QED
    BY <2>0, <2>2, <2>3, <2>4, <2>5, <2>6, <2>7
<1> QED
  BY <1>2, <1>3

\* The lists that requests start.
Planned(p) ==
  \/ \E a \in Agents : \/ p = Leave(a) \/ p = HandOver(a) \/ p = DropConsultant(a)
                       \/ p = TakeOver(a) \/ p = Intercept(a)
                       \/ \E m \in SUBSET Agents : p = Transfer(a, m)
                       \/ \E b \in Agents : p = Consult(a, b)
  \/ p = Conference \/ p = <<Do("hold")>> \/ p = <<Do("unhold")>> \/ p = <<>> \/ p = End

LEMMA PlainLists ==
  ASSUME NEW p \in Seq(Code), Planned(p)
  PROVE  Shaped(p) /\ ~Carries(p) /\ ~Asks(p)
<1> DEFINE Plain == \A i \in 1..Len(p) : p[i].op \notin {"dispatch", "ask", "wait", "drop"}
                                         /\ ~Says(p[i], "offer", "fallback")
<1>0. Plain => Shaped(p) /\ ~Carries(p) /\ ~Asks(p)
  BY DEF Shaped, Carries, Asks, Token, Asking
<1>1. ASSUME NEW a \in Agents,
             p = Leave(a) \/ p = HandOver(a) \/ p = DropConsultant(a) \/ p = TakeOver(a)
      PROVE  Plain
  <2>1. CASE p = Leave(a)
    BY <2>1, LeaveIs DEF Is, Says
  <2>2. CASE p = HandOver(a)
    BY <2>2, HandOverIs DEF Is, Says
  <2>3. CASE p = DropConsultant(a)
    BY <2>3, ConsultationEndsIs DEF Is, Says
  <2>4. CASE p = TakeOver(a)
    BY <2>4, TakeOverIs DEF Is, Says
  <2> QED
    BY <1>1, <2>1, <2>2, <2>3, <2>4
<1>2. ASSUME NEW a \in Agents, p = Intercept(a) PROVE Plain
  <2>1. /\ Len(p) = 5 /\ p[1].op = "live" /\ Is(p[2], "intercept", a) /\ Is(p[3], "enter", a)
        /\ Is(p[4], "busy", a) /\ Says(p[5], "status", "human")
    BY <1>2, InterceptIs
  <2> QED
    BY <2>1 DEF Is, Says
<1>3. ASSUME NEW a \in Agents, NEW m \in SUBSET Agents, p = Transfer(a, m) PROVE Plain
  <2>1. /\ Len(p) = 6
        /\ p[1].op = "live" /\ Is(p[2], "mark", a) /\ Is(p[3], "freeRead", a)
        /\ p[4].op = "hold" /\ Says(p[5], "status", "waiting_human") /\ p[6].op = "offer"
        /\ p[6].what = "retrieve"
    BY <1>3, TransferIs
  <2> QED
    BY <2>1 DEF Is, Says
<1>4. ASSUME NEW a \in Agents, NEW b \in Agents, p = Consult(a, b) PROVE Plain
  <2>1. Len(p) = 3 /\ p[1].op = "live" /\ p[2].op = "hold" /\ p[3].op = "offer"
        /\ p[3].what = "plain"
    BY <1>4, ConsultIs
  <2> QED
    BY <2>1 DEF Says
<1>5. CASE p = Conference
  <2>1. Do("live").op = "live" /\ Do("unhold").op = "unhold"
    BY Statements
  <2>2. Len(p) = 2 /\ p[1].op = "live" /\ p[2].op = "unhold"
    BY <1>5, <2>1 DEF Conference
  <2>3. ASSUME NEW i \in 1..Len(p) PROVE p[i].op \in {"live", "unhold"}
    BY <2>2
  <2> QED
    BY <1>0, <2>3 DEF Says
<1>6. CASE p = <<Do("hold")>> \/ p = <<Do("unhold")>> \/ p = <<>>
  <2>1. Do("hold").op = "hold" /\ Do("unhold").op = "unhold"
    BY Statements
  <2>2. ASSUME NEW x, p = <<x>>, x.op \in {"hold", "unhold"} PROVE Plain
    <3>1. Len(p) = 1 /\ p[1] = x
      BY <2>2
    <3>2. ASSUME NEW i \in 1..Len(p) PROVE p[i].op \in {"hold", "unhold"}
      BY <2>2, <3>1
    <3> QED
      BY <3>2 DEF Says
  <2>3. CASE p = <<>>
    <3>1. Len(p) = 0
      BY <2>3
    <3> QED
      BY <1>0, <3>1
  <2> HIDE DEF Plain
  <2> QED
    BY <1>0, <1>6, <2>1, <2>2, <2>3
<1>7. CASE p = End
  BY <1>7, ShapedLists
<1> HIDE DEF Plain
<1> QED
  BY <1>0, <1>1, <1>2, <1>3, <1>4, <1>5, <1>6, <1>7 DEF Planned

\* The lists of the ring and of the AI.
LEMMA RingLists ==
  /\ \A a \in Agents : \A r \in BOOLEAN :
       LET p == Accepted(a, r) IN Shaped(p) /\ ~Carries(p) /\ ~Asks(p) /\ Answers(p)
  /\ \A f \in BOOLEAN :
       LET p == Nobody(f) IN Shaped(p) /\ (Carries(p) => f) /\ ~Asks(p) /\ Answers(p)
  /\ Shaped(Offer(Agents, "fallback")) /\ ~Asks(Offer(Agents, "fallback"))
  /\ Shaped(<<Do("ask")>>) /\ ~Carries(<<Do("ask")>>) /\ Asks(<<Do("ask")>>)
<1>1. ASSUME NEW a \in Agents, NEW r \in BOOLEAN, NEW p, p = Accepted(a, r)
      PROVE  Shaped(p) /\ ~Carries(p) /\ ~Asks(p) /\ Answers(p)
  <2>1. /\ Len(p) = IF r THEN 6 ELSE 5
        /\ Is(p[1], "busy", a) /\ Says(p[2], "publish", "accepted") /\ p[3].op = "live"
        /\ Is(p[4], "enter", a) /\ Says(p[5], "status", "human")
        /\ r => p[6].op = "unhold"
    BY <1>1, AcceptedIs
  <2>2. \A i \in 1..Len(p) : p[i].op \in {"busy", "publish", "live", "enter", "status", "unhold"}
    BY <2>1 DEF Is, Says
  <2>3. 2 \in 1..Len(p) /\ p[2].op = "publish"
    BY <2>1 DEF Says
  <2> QED
    BY <2>2, <2>3 DEF Shaped, Carries, Asks, Answers, Token, Asking, Says
<1>2. ASSUME NEW f \in BOOLEAN, NEW p, p = Nobody(f)
      PROVE  Shaped(p) /\ (Carries(p) => f) /\ ~Asks(p) /\ Answers(p)
  <2>1. /\ ~f => Len(p) = 2 /\ Says(p[1], "status", "ai") /\ Says(p[2], "publish", "nobody")
        /\ f => /\ Len(p) = 3 /\ p[1].op = "dispatch"
                /\ Says(p[2], "status", "ai") /\ Says(p[3], "publish", "nobody")
    BY <1>2, NobodyIs
  <2> QED
    BY <2>1 DEF Shaped, Carries, Asks, Answers, Token, Asking, Says
<1>3. Shaped(Offer(Agents, "fallback")) /\ ~Asks(Offer(Agents, "fallback"))
  BY Offers DEF Shaped, Asks, Token, Asking, Says
<1>4. Shaped(<<Do("ask")>>) /\ ~Carries(<<Do("ask")>>) /\ Asks(<<Do("ask")>>)
  <2>1. Do("ask") \in Code /\ <<Do("ask")>>[1].op = "ask" /\ Len(<<Do("ask")>>) = 1
    BY Statements
  <2>2. <<Do("ask")>> \in Seq(Code)
    BY <2>1
  <2> QED
    BY <2>1, <2>2, ShapedLists
<1> QED
  BY <1>1, <1>2, <1>3, <1>4

\* A request, with the tokens of the list that it starts.
LEMMA RequestTokens ==
  ASSUME FlowTypeInv, NEW w \in Handlers, Requested(w), NEW p, p = todo'[w]
  PROVE  /\ Shaped(p) /\ UNCHANGED <<fallbacks, waiter, bus>>
         /\ \A v \in Handlers : v # w => todo'[v] = todo[v]
         /\ Carries(p) =>
              /\ ai' = ai
              /\ \/ ring.fallback /\ ring' = Quiet /\ call' = call
                 \/ call.status = "ringing" /\ call'.status # "ringing" /\ ring' = ring
         /\ Asks(p) => poll = "idle" /\ poll' = "open"
         /\ poll' # poll => Asks(p)
         /\ ring' = ring \/ (ring' = Quiet /\ Answers(p))
         /\ \/ ai' \in {ai, "none"}
            \/ call.status = "ringing" /\ call'.status # "ringing" /\ ring' = ring /\ ~Carries(p)
         /\ call'.status = call.status \/ call.status = "ringing"
         /\ call'.status = "ended" => call.status = "ended"
         /\ call'.endedAt = call.endedAt
<1>1. p \in Seq(Code) /\ (\A q : Run(w, q) \/ Begin(w, q) => p = q)
  BY RequestLists DEF FlowTypeInv, Run, Begin, Requested
<1>2. \A v \in Handlers : v # w => todo'[v] = todo[v]
  BY RequestLists DEF FlowTypeInv, Requested
<1>3. /\ call'.status = call.status \/ call.status = "ringing"
      /\ call'.status = "ended" => call.status = "ended"
      /\ call'.endedAt = call.endedAt
  BY RequestsState
<1>4. ASSUME NEW rest, Request(w, rest), Shaped(p), ~Carries(p), ~Asks(p)
      PROVE  /\ UNCHANGED <<call, fallbacks, waiter, bus, ring, ai, poll>>
             /\ Shaped(p) /\ ~Carries(p) /\ ~Asks(p)
  BY <1>4 DEF Request
<1>5. CASE \E aiFirst \in BOOLEAN : Create(w, aiFirst)
  <2>1. PICK aiFirst \in BOOLEAN : Create(w, aiFirst)
    BY <1>5
  <2>2. call.status = "ringing" /\ call'.status = IF aiFirst THEN "ai" ELSE "waiting_human"
    BY <2>1 DEF Create, FlowTypeInv, TypeOK
  <2>3. UNCHANGED <<fallbacks, waiter, bus, ring, poll>> /\ (~aiFirst => ai' = ai)
    BY <2>1 DEF Create
  <2>4. p = IF aiFirst THEN <<>> ELSE Offer(Agents, "fallback")
    BY <1>1, <2>1 DEF Create
  <2>5. Shaped(p) /\ ~Asks(p) /\ (aiFirst => ~Carries(p))
    BY <1>1, <2>4, PlainLists, RingLists DEF Planned
  <2> QED
    BY <1>2, <1>3, <2>2, <2>3, <2>5
<1>6. CASE Escalate(w)
  <2>1. p = <<Do("ask")>> /\ poll = "idle" /\ poll' = "open"
        /\ UNCHANGED <<call, fallbacks, waiter, bus, ring, ai>>
    BY <1>1, <1>6 DEF Escalate
  <2>2. Shaped(p) /\ ~Carries(p) /\ Asks(p)
    BY <2>1, RingLists
  <2> QED
    BY <1>2, <1>3, <2>1, <2>2
<1>7. CASE AIEnds(w)
  <2>1. p = End /\ ai' = "none" /\ UNCHANGED <<call, fallbacks, waiter, bus, ring, poll>>
    BY <1>1, <1>7 DEF AIEnds
  <2>2. Shaped(p) /\ ~Carries(p) /\ ~Asks(p)
    BY <2>1, ShapedLists
  <2> QED
    BY <1>2, <1>3, <2>1, <2>2
<1>8. CASE RingCloses(w)
  <2>1. /\ p = Nobody(ring.fallback) /\ ring.fallback \in BOOLEAN /\ ring' = Quiet
        /\ UNCHANGED <<call, fallbacks, waiter, bus, ai, poll>>
    BY <1>1, <1>8 DEF RingCloses, FlowTypeInv, TypeOK
  <2>2. Shaped(p) /\ (Carries(p) => ring.fallback) /\ ~Asks(p) /\ Answers(p)
    BY <2>1, RingLists
  <2> QED
    BY <1>2, <1>3, <2>1, <2>2
<1>9. ASSUME NEW a \in Agents, Accept(w, a)
      PROVE  /\ Shaped(p) /\ ~Carries(p) /\ ~Asks(p) /\ Answers(p) /\ ring' = Quiet
             /\ UNCHANGED <<call, fallbacks, waiter, bus, ai, poll>>
  <2>1. /\ p = Accepted(a, ring.retrieve) /\ ring.retrieve \in BOOLEAN /\ ring' = Quiet
        /\ UNCHANGED <<call, fallbacks, waiter, bus, ai, poll>>
    BY <1>1, <1>9 DEF Accept, FlowTypeInv, TypeOK
  <2> QED
    BY <2>1, RingLists
<1>10. ASSUME NEW a \in Agents, Desk(w, a) \/ Supervise(w, a)
       PROVE  /\ UNCHANGED <<call, fallbacks, waiter, bus, ring, ai, poll>>
              /\ Shaped(p) /\ ~Carries(p) /\ ~Asks(p)
  <2>1. PICK rest : Request(w, rest) /\ Planned(rest)
    <3>1. CASE Supervise(w, a)
      BY <1>10, <3>1 DEF Supervise, Planned
    <3>2. CASE LeaveRoute(w, a) \/ HoldRoute(w) \/ RetrieveRoute(w)
      BY <1>10, <3>2 DEF LeaveRoute, HoldRoute, RetrieveRoute, Planned
    <3>3. ASSUME NEW m \in {Agents \ {a}} \cup {{b} : b \in Agents \ {a}}, TransferRoute(w, a, m)
          PROVE  Request(w, Transfer(a, m)) /\ Planned(Transfer(a, m))
      BY <1>10, <3>3 DEF TransferRoute, Planned
    <3>4. ASSUME NEW b \in Agents, ConsultRoute(w, a, b)
          PROVE  Request(w, Consult(a, b)) /\ Planned(Consult(a, b))
      BY <1>10, <3>4 DEF ConsultRoute, Planned
    <3>5. CASE CompleteRoute(w, a)
      BY <1>10, <3>5 DEF CompleteRoute, Planned
    <3> QED
      BY <1>10, <3>1, <3>2, <3>3, <3>4, <3>5 DEF Desk, TransferConsult
  <2>2. p = rest
    BY <1>1, <2>1 DEF Request
  <2>3. Shaped(p) /\ ~Carries(p) /\ ~Asks(p)
    BY <1>1, <2>1, <2>2, PlainLists
  <2> QED
    BY <1>4, <2>1, <2>3
<1> QED
  BY <1>2, <1>3, <1>5, <1>6, <1>7, <1>8, <1>9, <1>10 DEF Requested

\* What a statement does to the fields that the tokens stand for.
LEMMA StepTokens ==
  ASSUME FlowTypeInv, NEW w \in Handlers, Step(w), NEW x, x = todo[w][1]
  PROVE  /\ \A v \in Handlers : v # w => todo'[v] = todo[v]
         /\ x.op # "dispatch" => ai' = ai /\ fallbacks' = fallbacks
         /\ x.op = "dispatch" => fallbacks' = fallbacks + 1
         /\ poll' = poll \/ (x.op = "ask" /\ call.status = "ended" /\ poll' = "nobody")
         /\ x.op = "ask" /\ call.status = "ended" => poll' = "nobody"
         /\ waiter' = (waiter \/ x.op = "wait")
         /\ bus # <<>> \/ x.op = "publish" => bus' # <<>>
         /\ x.op \notin {"drop", "offer"} => ring' = ring
         /\ x.op = "drop" => ~ring'.open /\ ~ring'.fallback
         /\ x.op = "offer" =>
              ring'.open /\ (ring'.fallback => ring.fallback \/ Says(x, "offer", "fallback"))
         /\ call'.status = "ringing" => call.status = "ringing"
         /\ call.endedAt => call'.endedAt
         /\ call'.status = "ended" => call'.endedAt \/ call.status = "ended"
<1>0. /\ todo[w] \in Seq(Code) /\ Now(w) = x /\ x \in Code
      /\ \A op : Op(w, op) <=> x.op = op
  BY Ahead
<1>1. \A v \in Handlers : v # w => todo'[v] = todo[v]
  BY StepLists DEF FlowTypeInv
<1> USE DEF FlowTypeInv, TypeOK
<1>2. CASE Ask(w)
  BY <1>0, <1>1, <1>2 DEF Ask
<1>3. CASE Decide(w)
  BY <1>0, <1>1, <1>3 DEF Decide
<1>4. CASE WriteStatus(w)
  BY <1>0, <1>1, <1>4 DEF WriteStatus, Code
<1>5. CASE WriteHeld(w)
  BY <1>0, <1>1, <1>5 DEF WriteHeld
<1>6. CASE TellMedia(w)
  BY <1>0, <1>1, <1>6 DEF TellMedia
<1>7. CASE Seat(w)
  BY <1>0, <1>1, <1>7 DEF Seat
<1>8. CASE Presence(w)
  BY <1>0, <1>1, <1>8 DEF Presence
<1>9. CASE Row(w)
  <2>1. CASE x.op = "drop"
    BY <1>0, <1>1, <1>9, <2>1 DEF Row, Quiet
  <2>2. CASE x.op = "offer"
    <3> DEFINE r == [Quiet EXCEPT !.open = TRUE, !.members = x.members,
                                  !.retrieve = x.what = "retrieve",
                                  !.fallback = x.what = "fallback"]
    <3>1. ring' = IF ring.open THEN ring ELSE r
      BY <1>0, <1>9, <2>2 DEF Row
    <3>2. r.open /\ (r.fallback <=> x.what = "fallback")
      BY DEF Quiet
    <3> HIDE DEF r
    <3>3. UNCHANGED <<call, ai, fallbacks, poll, waiter, bus>>
      BY <1>9 DEF Row
    <3> QED
      BY <1>1, <2>2, <3>1, <3>2, <3>3 DEF Says
  <2> QED
    BY <1>0, <1>9, <2>1, <2>2 DEF Row
<1>10. CASE Dispatch(w)
  BY <1>0, <1>1, <1>10 DEF Dispatch
<1>11. CASE Wait(w)
  BY <1>0, <1>1, <1>11 DEF Wait
<1>12. CASE Publish(w)
  <2>1. bus' = Append(bus, x.what) /\ x.op = "publish"
    BY <1>0, <1>12 DEF Publish
  <2>2. bus \in Seq({"accepted", "nobody"}) /\ x.what \in {"accepted", "nobody"}
    BY <1>0, <2>1 DEF Code
  <2>3. bus' # <<>>
    BY <2>1, <2>2
  <2>4. UNCHANGED <<call, ring, ai, fallbacks, poll, waiter>>
    BY <1>12 DEF Publish
  <2> QED
    BY <1>1, <2>1, <2>3, <2>4
<1> QED
  BY <1>2, <1>3, <1>4, <1>5, <1>6, <1>7, <1>8, <1>9, <1>10, <1>11, <1>12 DEF Step

\* The same of the steps that no handler takes.
LEMMA AroundTokens ==
  ASSUME FlowTypeInv, Around
  PROVE  /\ UNCHANGED <<call, todo, fallbacks>>
         /\ ring'.open = ring.open /\ ring'.fallback = ring.fallback
         /\ ai' = ai \/ ai = "talking"
         /\ \/ UNCHANGED <<poll, waiter, bus>>
            \/ ~waiter' /\ waiter /\ poll' \in {"accepted", "nobody"}
            \/ ~waiter' /\ ~waiter /\ poll' = poll
            \/ poll \in {"accepted", "nobody"} /\ poll' = "idle" /\ UNCHANGED <<waiter, bus>>
<1> USE DEF FlowTypeInv, TypeOK
<1>1. ASSUME NEW a \in Agents, RingAgent(a) \/ WrapUpEnds(a)
      PROVE  /\ UNCHANGED <<call, todo, fallbacks, ai, poll, waiter, bus>>
             /\ ring'.open = ring.open /\ ring'.fallback = ring.fallback
  BY <1>1 DEF RingAgent, WrapUpEnds
<1>2. CASE Deliver
  <2>1. Head(bus) \in {"accepted", "nobody"}
    <3>1. bus \in Seq({"accepted", "nobody"}) /\ bus # <<>>
      BY <1>2 DEF Deliver
    <3> QED
      BY <3>1
  <2> QED
    BY <1>2, <2>1 DEF Deliver
<1>3. CASE Heard \/ HandOff \/ UNCHANGED vars
  BY <1>3 DEF Heard, HandOff, vars
<1> QED
  BY <1>1, <1>2, <1>3 DEF Around

LEMMA AnyStep ==
  ASSUME [Next]_vars
  PROVE  Around \/ \E w \in Handlers : Requested(w) \/ Step(w)
BY DEF Next, Requested, Around

-----------------------------------------------------------------------------
\* The invariants.

ShapesInv == \A w \in Handlers : Shaped(todo[w])

\* One handler, or the ring, has yet to dispatch the fallback job, and while it has there is
\* no AI on the call.
FallbackInv ==
  /\ \A v, w \in Handlers : Carries(todo[v]) /\ Carries(todo[w]) => v = w
  /\ ring.fallback => \A w \in Handlers : ~Carries(todo[w])
  /\ ring.fallback \/ (\E w \in Handlers : Carries(todo[w])) =>
       fallbacks = 0 /\ ai = "none" /\ call.status # "ringing"
  /\ call.status = "ringing" => fallbacks = 0 /\ ai = "none"
  /\ fallbacks <= 1

\* The AI's request is with one handler, or with the resolver, and nowhere else.
EscalationInv ==
  /\ \A v, w \in Handlers : Asks(todo[v]) /\ Asks(todo[w]) => v = w
  /\ \A w \in Handlers : Asks(todo[w]) => poll = "open" /\ ~waiter
  /\ waiter => poll = "open"
  /\ poll = "open" => waiter \/ \E w \in Handlers : Asks(todo[w])

\* A resolver of a call that is not over has something coming: a ring, an outcome on the
\* bus, or a handler that starts the one or publishes the other.
AnswerInv ==
  /\ call.status = "ended" => call.endedAt
  /\ waiter /\ ~call.endedAt =>
       ring.open \/ bus # <<>> \/ \E w \in Handlers : Answers(todo[w])

TokenInv == ShapesInv /\ FallbackInv /\ EscalationInv /\ AnswerInv

LEMMA TokenInit == Init => TokenInv
<1> SUFFICES ASSUME Init PROVE TokenInv
  OBVIOUS
<1>1. \A w \in Handlers : todo[w] = <<>>
  BY DEF Init
<1>2. Shaped(<<>>) /\ ~Carries(<<>>) /\ ~Asks(<<>>)
  BY DEF Shaped, Carries, Asks
<1> QED
  BY <1>1, <1>2 DEF Init, TokenInv, ShapesInv, FallbackInv, EscalationInv, AnswerInv, Quiet

LEMMA ShapesStep == FlowTypeInv /\ ShapesInv /\ [Next]_vars => ShapesInv'
<1> SUFFICES ASSUME FlowTypeInv, ShapesInv, [Next]_vars PROVE ShapesInv'
  OBVIOUS
<1>1. CASE Around
  BY <1>1, AroundTokens DEF ShapesInv
<1>2. ASSUME NEW w \in Handlers, Requested(w) PROVE ShapesInv'
  BY <1>2, RequestTokens DEF ShapesInv
<1>3. ASSUME NEW w \in Handlers, Step(w) PROVE ShapesInv'
  BY <1>3, StepShape, StepTokens DEF ShapesInv
<1> QED
  BY <1>1, <1>2, <1>3, AnyStep

LEMMA FallbackStep == FlowTypeInv /\ ShapesInv /\ FallbackInv /\ [Next]_vars => FallbackInv'
<1> SUFFICES ASSUME FlowTypeInv, ShapesInv, FallbackInv, [Next]_vars PROVE FallbackInv'
  OBVIOUS
<1>0. fallbacks \in Nat
  BY DEF FlowTypeInv, TypeOK
<1>1. CASE Around
  BY <1>1, AroundTokens DEF FallbackInv
<1>2. ASSUME NEW w \in Handlers, Requested(w) PROVE FallbackInv'
  <2> DEFINE p == todo'[w]
  <2>1. /\ UNCHANGED fallbacks
        /\ \A v \in Handlers : v # w => todo'[v] = todo[v]
        /\ Carries(p) =>
             /\ ai' = ai
             /\ \/ ring.fallback /\ ring' = Quiet /\ call' = call
                \/ call.status = "ringing" /\ call'.status # "ringing" /\ ring' = ring
        /\ ring' = ring \/ ring' = Quiet
        /\ \/ ai' \in {ai, "none"}
           \/ call.status = "ringing" /\ call'.status # "ringing" /\ ring' = ring /\ ~Carries(p)
        /\ call'.status = call.status \/ call.status = "ringing"
    BY <1>2, RequestTokens
  <2> HIDE DEF p
  <2>2. ~Quiet.fallback
    BY DEF Quiet
  <2>3. \A v \in Handlers : Carries(todo'[v]) => (v = w /\ Carries(p)) \/ Carries(todo[v])
    BY <2>1 DEF p
  <2>4. Carries(p) => \A v \in Handlers : ~Carries(todo[v])
    BY <2>1 DEF FallbackInv
  <2>5. (\A v, u \in Handlers : Carries(todo[v]) /\ Carries(todo[u]) => v = u)'
    BY <2>3, <2>4 DEF FallbackInv
  <2>6. ring'.fallback => ring' = ring /\ ring.fallback
    BY <2>1, <2>2
  <2>7. ring'.fallback => \A v \in Handlers : ~Carries(todo'[v])
    <3>1. ring'.fallback => ~Carries(p)
      BY <2>1, <2>2 DEF FallbackInv
    <3> QED
      BY <2>3, <2>6, <3>1 DEF FallbackInv
  <2>8. ring'.fallback \/ (\E v \in Handlers : Carries(todo'[v])) =>
          fallbacks' = 0 /\ ai' = "none" /\ call'.status # "ringing"
    <3>1. CASE Carries(p)
      BY <2>1, <3>1 DEF FallbackInv
    <3>2. CASE ~Carries(p)
      BY <2>1, <2>3, <2>6, <3>2 DEF FallbackInv
    <3> QED
      BY <3>1, <3>2
  <2>9. call'.status = "ringing" => fallbacks' = 0 /\ ai' = "none"
    BY <2>1 DEF FallbackInv
  <2> QED
    BY <2>1, <2>5, <2>7, <2>8, <2>9 DEF FallbackInv
<1>3. ASSUME NEW w \in Handlers, Step(w) PROVE FallbackInv'
  <2> DEFINE s == todo[w]
             p == todo'[w]
             x == todo[w][1]
  <2>1. /\ \A v \in Handlers : v # w => todo'[v] = todo[v]
        /\ x.op # "dispatch" => ai' = ai /\ fallbacks' = fallbacks
        /\ x.op = "dispatch" => fallbacks' = fallbacks + 1
        /\ x.op \notin {"drop", "offer"} => ring' = ring
        /\ x.op = "drop" => ~ring'.fallback
        /\ x.op = "offer" => (ring'.fallback => ring.fallback \/ Says(x, "offer", "fallback"))
        /\ call'.status = "ringing" => call.status = "ringing"
    BY <1>3, StepTokens
  <2>2. ~Carries(p) /\ 1 \in 1..Len(s)
    <3>1. s \in Seq(Code) /\ Len(s) > 0
      BY <1>3, Ahead
    <3> QED
      BY <1>3, <3>1, StepShape DEF ShapesInv
  <2>3. Token(x) => Carries(s)
    BY <2>2 DEF Carries
  <2> HIDE DEF p, x
  <2>4. \A v \in Handlers : Carries(todo'[v]) => v # w /\ Carries(todo[v])
    BY <2>1, <2>2 DEF p
  <2>5. Token(x) => \A v \in Handlers : v # w => ~Carries(todo[v])
    BY <2>3 DEF FallbackInv
  <2>6. ring'.fallback => ring.fallback \/ (Token(x) /\ x.op = "offer")
    BY <2>1 DEF Token, Says
  <2>7. ring'.fallback => \A v \in Handlers : ~Carries(todo'[v])
    BY <2>4, <2>5, <2>6 DEF FallbackInv
  <2>8. x.op = "dispatch" => Carries(s) /\ ~ring.fallback /\ fallbacks = 0 /\ call.status # "ringing"
    BY <2>3 DEF FallbackInv, Token
  <2>9. ring'.fallback \/ (\E v \in Handlers : Carries(todo'[v])) =>
          fallbacks' = 0 /\ ai' = "none" /\ call'.status # "ringing"
    <3>1. CASE x.op = "dispatch"
      BY <2>4, <2>5, <2>6, <2>8, <3>1 DEF Token
    <3>2. CASE x.op # "dispatch"
      BY <2>1, <2>3, <2>4, <2>6, <3>2 DEF FallbackInv
    <3> QED
      BY <3>1, <3>2
  <2>10. call'.status = "ringing" => fallbacks' = 0 /\ ai' = "none"
    BY <2>1, <2>8 DEF FallbackInv
  <2>11. fallbacks' <= 1
    BY <1>0, <2>1, <2>8 DEF FallbackInv
  <2>12. (\A v, u \in Handlers : Carries(todo[v]) /\ Carries(todo[u]) => v = u)'
    BY <2>4 DEF FallbackInv
  <2> QED
    BY <2>7, <2>9, <2>10, <2>11, <2>12 DEF FallbackInv
<1> QED
  BY <1>1, <1>2, <1>3, AnyStep

LEMMA EscalationStep ==
  FlowTypeInv /\ ShapesInv /\ EscalationInv /\ [Next]_vars => EscalationInv'
<1> SUFFICES ASSUME FlowTypeInv, ShapesInv, EscalationInv, [Next]_vars PROVE EscalationInv'
  OBVIOUS
<1>1. CASE Around
  <2>1. /\ todo' = todo
        /\ \/ UNCHANGED <<poll, waiter>>
           \/ ~waiter' /\ waiter /\ poll' \in {"accepted", "nobody"}
           \/ ~waiter' /\ ~waiter /\ poll' = poll
           \/ poll \in {"accepted", "nobody"} /\ poll' = "idle" /\ UNCHANGED waiter
    BY <1>1, AroundTokens
  <2> QED
    BY <2>1 DEF EscalationInv
<1>2. ASSUME NEW w \in Handlers, Requested(w) PROVE EscalationInv'
  <2> DEFINE p == todo'[w]
  <2>1. /\ waiter' = waiter
        /\ \A v \in Handlers : v # w => todo'[v] = todo[v]
        /\ Asks(p) => poll = "idle" /\ poll' = "open"
        /\ poll' # poll => Asks(p)
    BY <1>2, RequestTokens
  <2>2. ~Asks(todo[w])
    <3>1. todo[w] = <<>>
      BY <1>2, RequestsState
    <3> QED
      BY <3>1 DEF Asks
  <2> HIDE DEF p
  <2>3. \A v \in Handlers : Asks(todo'[v]) <=> IF v = w THEN Asks(p) ELSE Asks(todo[v])
    BY <2>1 DEF p
  <2>4. CASE Asks(p)
    <3>1. ~waiter /\ \A v \in Handlers : ~Asks(todo[v])
      BY <2>1, <2>4 DEF EscalationInv
    <3> QED
      BY <2>1, <2>3, <2>4, <3>1 DEF EscalationInv
  <2>5. CASE ~Asks(p)
    <3>1. \A v \in Handlers : Asks(todo'[v]) <=> Asks(todo[v])
      BY <2>2, <2>3, <2>5
    <3> QED
      BY <2>1, <2>5, <3>1 DEF EscalationInv
  <2> QED
    BY <2>4, <2>5
<1>3. ASSUME NEW w \in Handlers, Step(w) PROVE EscalationInv'
  <2> DEFINE s == todo[w]
             p == todo'[w]
             x == todo[w][1]
  <2>1. /\ \A v \in Handlers : v # w => todo'[v] = todo[v]
        /\ poll' = poll \/ (x.op = "ask" /\ call.status = "ended" /\ poll' = "nobody")
        /\ x.op = "ask" /\ call.status = "ended" => poll' = "nobody"
        /\ waiter' = (waiter \/ x.op = "wait")
    BY <1>3, StepTokens
  <2>2. /\ Asks(p) <=> (x.op = "ask" /\ call.status # "ended") \/ (Asks(s) /\ ~Asking(x))
        /\ 1 \in 1..Len(s)
    <3>1. s \in Seq(Code) /\ Len(s) > 0
      BY <1>3, Ahead
    <3> QED
      BY <1>3, <3>1, StepShape DEF ShapesInv
  <2>3. Asking(x) => Asks(s)
    BY <2>2 DEF Asks
  <2>4. waiter \in BOOLEAN
    BY DEF FlowTypeInv, TypeOK
  <2> HIDE DEF p, s, x
  <2>5. \A v \in Handlers : Asks(todo'[v]) <=> IF v = w THEN Asks(p) ELSE Asks(todo[v])
    BY <2>1 DEF p
  <2>6. Asks(todo[w]) <=> Asks(s)
    BY DEF s
  <2>7. CASE x.op = "ask" /\ call.status = "ended"
    <3>1. ~Asks(p) /\ Asks(s) /\ poll' = "nobody" /\ waiter' = waiter
      BY <2>1, <2>2, <2>3, <2>4, <2>7 DEF Asking
    <3>2. ~waiter /\ \A v \in Handlers : Asks(todo[v]) => v = w
      BY <2>6, <3>1 DEF EscalationInv
    <3>3. \A v \in Handlers : ~Asks(todo'[v])
      BY <2>5, <3>1, <3>2
    <3> QED
      BY <3>1, <3>2, <3>3 DEF EscalationInv
  <2>8. CASE x.op = "wait"
    <3>1. ~Asks(p) /\ Asks(s) /\ poll' = poll /\ waiter'
      BY <2>1, <2>2, <2>3, <2>8 DEF Asking
    <3>2. poll = "open" /\ \A v \in Handlers : Asks(todo[v]) => v = w
      BY <2>6, <3>1 DEF EscalationInv
    <3>3. \A v \in Handlers : ~Asks(todo'[v])
      BY <2>5, <3>1, <3>2
    <3> QED
      BY <3>1, <3>2, <3>3 DEF EscalationInv
  <2>9. CASE x.op # "wait" /\ ~(x.op = "ask" /\ call.status = "ended")
    <3>1. poll' = poll /\ waiter' = waiter
      BY <2>1, <2>4, <2>9
    <3>2. Asks(p) <=> Asks(s)
      BY <2>2, <2>3, <2>9 DEF Asking
    <3>3. \A v \in Handlers : Asks(todo'[v]) <=> Asks(todo[v])
      BY <2>5, <2>6, <3>2
    <3> QED
      BY <3>1, <3>3 DEF EscalationInv
  <2> QED
    BY <2>7, <2>8, <2>9
<1> QED
  BY <1>1, <1>2, <1>3, AnyStep

LEMMA AnswerStep == FlowTypeInv /\ ShapesInv /\ AnswerInv /\ [Next]_vars => AnswerInv'
<1> SUFFICES ASSUME FlowTypeInv, ShapesInv, AnswerInv, [Next]_vars PROVE AnswerInv'
  OBVIOUS
<1>1. CASE Around
  <2>1. /\ call' = call /\ todo' = todo /\ ring'.open = ring.open
        /\ ~waiter' \/ (waiter' = waiter /\ bus' = bus)
    BY <1>1, AroundTokens
  <2> QED
    BY <2>1 DEF AnswerInv
<1>2. ASSUME NEW w \in Handlers, Requested(w) PROVE AnswerInv'
  <2> DEFINE p == todo'[w]
  <2>1. /\ waiter' = waiter /\ bus' = bus
        /\ \A v \in Handlers : v # w => todo'[v] = todo[v]
        /\ ring' = ring \/ Answers(p)
        /\ call'.status = "ended" => call.status = "ended"
        /\ call'.endedAt = call.endedAt
    BY <1>2, RequestTokens
  <2>2. ~Answers(todo[w])
    <3>1. todo[w] = <<>>
      BY <1>2, RequestsState
    <3> QED
      BY <3>1 DEF Answers
  <2>3. (\E v \in Handlers : Answers(todo[v])) => \E v \in Handlers : Answers(todo'[v])
    BY <2>1, <2>2
  <2> QED
    BY <2>1, <2>3 DEF AnswerInv
<1>3. ASSUME NEW w \in Handlers, Step(w) PROVE AnswerInv'
  <2> DEFINE s == todo[w]
             p == todo'[w]
             x == todo[w][1]
  <2>1. /\ \A v \in Handlers : v # w => todo'[v] = todo[v]
        /\ waiter' = (waiter \/ x.op = "wait")
        /\ bus # <<>> \/ x.op = "publish" => bus' # <<>>
        /\ x.op \notin {"drop", "offer"} => ring' = ring
        /\ x.op = "offer" => ring'.open
        /\ call.endedAt => call'.endedAt
        /\ call'.status = "ended" => call'.endedAt \/ call.status = "ended"
    BY <1>3, StepTokens
  <2>2. /\ Answers(s) => Answers(p) \/ x.op \in {"offer", "publish"} \/ call.status = "ended"
        /\ x.op \in {"wait", "drop"} => Answers(p)
    BY <1>3, StepShape DEF ShapesInv
  <2>3. Answers(p) <=> Answers(todo'[w])
    OBVIOUS
  <2>4. Answers(s) <=> Answers(todo[w])
    OBVIOUS
  <2> HIDE DEF p, s, x
  <2>5. call'.status = "ended" => call'.endedAt
    BY <2>1 DEF AnswerInv
  <2>6. ASSUME waiter', ~call'.endedAt
        PROVE  ring'.open \/ bus' # <<>> \/ \E v \in Handlers : Answers(todo'[v])
    <3>1. CASE x.op \in {"wait", "drop"}
      BY <2>2, <2>3, <3>1
    <3>2. CASE x.op \in {"offer", "publish"}
      BY <2>1, <3>2
    <3>3. CASE x.op \notin {"wait", "drop", "offer", "publish"}
      <4>1. waiter /\ ~call.endedAt /\ call.status # "ended" /\ ring' = ring
        BY <2>1, <2>6, <3>3 DEF AnswerInv
      <4>2. ring.open \/ bus # <<>> \/ \E v \in Handlers : Answers(todo[v])
        BY <4>1 DEF AnswerInv
      <4>3. ASSUME NEW v \in Handlers, Answers(todo[v]) PROVE Answers(todo'[v])
        <5>1. CASE v = w
          BY <2>2, <2>3, <2>4, <3>3, <4>1, <4>3, <5>1
        <5>2. CASE v # w
          BY <2>1, <4>3, <5>2
        <5> QED
          BY <5>1, <5>2
      <4> QED
        BY <2>1, <4>1, <4>2, <4>3
    <3> QED
      BY <3>1, <3>2, <3>3
  <2> QED
    BY <2>5, <2>6 DEF AnswerInv
<1> QED
  BY <1>1, <1>2, <1>3, AnyStep

\* What holds of the tokens in every reachable state, for any number of handlers.
THEOREM TokenInvariant == Spec => []TokenInv
<1>1. FlowTypeInv /\ TokenInv /\ [Next]_vars => TokenInv'
  BY ShapesStep, FallbackStep, EscalationStep, AnswerStep DEF TokenInv
<1> QED
  BY <1>1, TokenInit, FlowTypeInvariant, PTL DEF Spec

\* A call that nobody took at a desk is given to the AI once, however requests interleave:
\* the row of the ring carries the order to do so, and whoever deletes the row has it
\* (Flow.nobody, dispatchFallback).
THEOREM OneFallbackHolds == Spec => [](fallbacks <= 1)
<1>1. TokenInv => fallbacks <= 1
  BY DEF TokenInv, FallbackInv
<1> QED
  BY <1>1, TokenInvariant, PTL

\* And then there is no AI on the call: no second one is ever sent to a caller.
THEOREM FallbackIsAlone ==
  Spec => [][fallbacks' # fallbacks => ai = "none" /\ fallbacks = 0]_vars
<1>1. FlowTypeInv /\ TokenInv /\ [Next]_vars
        => [fallbacks' # fallbacks => ai = "none" /\ fallbacks = 0]_vars
  <2> SUFFICES ASSUME FlowTypeInv, TokenInv, [Next]_vars, fallbacks' # fallbacks
               PROVE  ai = "none" /\ fallbacks = 0
    OBVIOUS
  <2>1. ~Around /\ \A w \in Handlers : ~Requested(w)
    BY AroundTokens, RequestTokens
  <2>2. PICK w \in Handlers : Step(w)
    BY <2>1, AnyStep
  <2>3. todo[w][1].op = "dispatch" /\ todo[w] \in Seq(Code) /\ Len(todo[w]) > 0
    BY <2>2, StepTokens, Ahead
  <2>4. Carries(todo[w])
    <3>1. 1 \in 1..Len(todo[w])
      BY <2>3
    <3> QED
      BY <2>3, <3>1 DEF Carries, Token
  <2> QED
    BY <2>4 DEF TokenInv, FallbackInv
<1> QED
  BY <1>1, FlowTypeInvariant, TokenInvariant, PTL DEF Spec

\* An outcome is for a request that waits, and each request gets one: a late outcome of an
\* older ring resolves nobody's request but the open one's (Flow.escalate, waiters).
THEOREM AnsweredOnceHolds ==
  Spec => [][poll' # poll /\ poll' \in {"accepted", "nobody"} => poll = "open"]_vars
<1>1. FlowTypeInv /\ TokenInv /\ [Next]_vars
        => [poll' # poll /\ poll' \in {"accepted", "nobody"} => poll = "open"]_vars
  <2> SUFFICES ASSUME FlowTypeInv, TokenInv, [Next]_vars, poll' # poll,
                      poll' \in {"accepted", "nobody"}
               PROVE  poll = "open"
    OBVIOUS
  <2>1. CASE Around
    BY <2>1, AroundTokens DEF TokenInv, EscalationInv
  <2>2. ASSUME NEW w \in Handlers, Requested(w) PROVE FALSE
    BY <2>2, RequestTokens
  <2>3. ASSUME NEW w \in Handlers, Step(w) PROVE poll = "open"
    <3>1. todo[w][1].op = "ask" /\ todo[w] \in Seq(Code) /\ Len(todo[w]) > 0
      BY <2>3, StepTokens, Ahead
    <3>2. Asks(todo[w])
      <4>1. 1 \in 1..Len(todo[w])
        BY <3>1
      <4> QED
        BY <3>1, <4>1 DEF Asks, Asking
    <3> QED
      BY <3>2 DEF TokenInv, EscalationInv
  <2> QED
    BY <2>1, <2>2, <2>3, AnyStep
<1> QED
  BY <1>1, FlowTypeInvariant, TokenInvariant, PTL DEF Spec

\* The answer to an open escalation is always on its way while the call is not over: the
\* request has yet to register its resolver, or a desk rings, or an outcome is on the bus,
\* or a handler will ring or publish.  On a call that has ended it may be lost.
THEOREM AnswerOnItsWay ==
  Spec => [](poll = "open" /\ ~call.endedAt =>
               \/ \E w \in Handlers : Asks(todo[w])
               \/ waiter /\ (ring.open \/ bus # <<>> \/ \E w \in Handlers : Answers(todo[w])))
<1>1. TokenInv => (poll = "open" /\ ~call.endedAt =>
               \/ \E w \in Handlers : Asks(todo[w])
               \/ waiter /\ (ring.open \/ bus # <<>> \/ \E w \in Handlers : Answers(todo[w])))
  BY DEF TokenInv, EscalationInv, AnswerInv
<1> QED
  BY <1>1, TokenInvariant, PTL
=============================================================================
