------------------------------ MODULE RingCycle ------------------------------
(***************************************************************************)
(* What offer() promises its caller, without saying how (routing.ts, the   *)
(* module comment and the diagram of the API README): a call rings one     *)
(* agent at a time, nobody twice in a cycle, until the cycle is closed by  *)
(* an acceptance, a release, or because nobody is left; and it is closed   *)
(* some day.                                                               *)
(***************************************************************************)
CONSTANTS Agents, Calls, None

VARIABLE
  ring    \* per call: is a cycle open, who rings, who was rung before

Cycles == [open: BOOLEAN, agent: Agents \cup {None}, tried: SUBSET Agents]

Quiet == [open |-> FALSE, agent |-> None, tried |-> {}]

RungSoFar(c) == ring[c].tried \cup ({ring[c].agent} \ {None})

Init == ring = [c \in Calls |-> Quiet]

Open(c) ==
  /\ ~ring[c].open
  /\ ring' = [ring EXCEPT ![c] = [open |-> TRUE, agent |-> None, tried |-> {}]]

\* Another agent's turn.
Ring(c, a) ==
  /\ ring[c].open
  /\ a \notin RungSoFar(c)
  /\ ring' = [ring EXCEPT ![c] = [open |-> TRUE, agent |-> a, tried |-> RungSoFar(c)]]

\* Nobody qualifies for now; those rung before stay out of the cycle.
Rest(c) ==
  /\ ring[c].open
  /\ ring[c].agent # None
  /\ ring' = [ring EXCEPT ![c] = [open |-> TRUE, agent |-> None, tried |-> RungSoFar(c)]]

Close(c) ==
  /\ ring[c].open
  /\ ring' = [ring EXCEPT ![c] = Quiet]

Progress(c) == (\E a \in Agents : Ring(c, a)) \/ Rest(c) \/ Close(c)

Next == \E c \in Calls : Open(c) \/ Progress(c)

Spec == Init /\ [][Next]_ring

FairSpec == Spec /\ \A c \in Calls : WF_ring(Progress(c))
==============================================================================
