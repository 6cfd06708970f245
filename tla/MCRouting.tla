------------------------------ MODULE MCRouting ------------------------------
(***************************************************************************)
(* Instances of Routing for TLC: two agents, one or two calls.  Slots h1   *)
(* and t1 are in process i1; the others too, or in process i2.             *)
(***************************************************************************)
EXTENDS Routing, TLC

CONSTANTS a1, a2, c1, c2, i1, i2, h1, h2, t1, t2

OneProcess == [w \in Workers |-> i1]
TwoProcesses == [w \in Workers |-> IF w \in {h1, t1} THEN i1 ELSE i2]

\* a1 holds the language the call asks for, a2 only the queue's skill.
MCHolds == (a1 :> {"sales", "it"}) @@ (a2 :> {"sales"})

\* A plain escalation: everyone in the queue, no deadline.
Plain ==
  [members |-> {a1, a2}, skills |-> {}, callSkills |-> {}, giveUpAfter |-> 0,
   ring |-> 1, relaxAfter |-> 0]

\* Everything at once: a queue skill and a call-pinned one, relaxed before the
\* deadline of the cycle, and rings that the deadline can cut short.
Pinned ==
  [Plain EXCEPT !.skills = {"sales", "it"}, !.callSkills = {"it"},
                !.relaxAfter = 1, !.giveUpAfter = 2, !.ring = 2]

\* Only a1 is in the queue.
Alone == [Plain EXCEPT !.members = {a1}]

PlainRequests == {Plain}
PinnedRequests == {Pinned}
AloneRequests == {Alone}

HandlerSymmetry == Permutations(Handlers)
==============================================================================
