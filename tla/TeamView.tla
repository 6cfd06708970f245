------------------------------- MODULE TeamView -------------------------------
(***************************************************************************)
(* Who is online in which state, as each desk shows it: every write of     *)
(* agent_presence is followed by a `presence` message on the bus, which    *)
(* makes ws.ts read the whole team (Routing.snapshot) and push it; the     *)
(* reducer keeps the last one, and StateBar.tsx offers what it allows:     *)
(* Ready and Not ready, and during wrap-up the code, Extend and Done.      *)
(*                                                                         *)
(* A write and its message are one step here (Routing has the statements   *)
(* of routing.ts), and so are the close of a socket and the end of its     *)
(* presence (DeskSockets has the two).  Left out: reasons and times.       *)
(***************************************************************************)
EXTENDS Naturals, Sequences, SequencesExt

CONSTANTS
  Staff,        \* agents, each with a desk
  Worked,       \* calls they work on
  NoWork,       \* null
  MaxMoves,     \* bound: writes of agent_presence
  MaxUnsent     \* bound: snapshots under way when a write comes

ASSUME TeamViewAssumption == NoWork \notin Worked /\ MaxMoves \in Nat /\ MaxUnsent \in Nat

VARIABLES
  states,     \* agent_presence
  notices,    \* presence messages on the bus
  queries,    \* snapshot queries that have yet to run
  snapshots,  \* their results, oldest first; late: one that is newer was pushed before it
  team,       \* DeskState.agents of each desk: nothing while its socket is closed
  behind,     \* history: the desk shows such a late snapshot
  coded,      \* calls with a disposition
  required,   \* TenantSettings.dispositionRequired
  finishing,  \* POST /acw/done of each agent: where it is, and the call
  moves

teamVars == <<states, notices, queries, snapshots, team, behind, coded, required, finishing,
              moves>>
pushVars == <<queries, snapshots, team, behind>>

AgentState == {"ready", "not_ready", "busy", "acw"}

\* A row; extended tells the deadlines of a wrap-up apart.
AgentPresence == [state: AgentState \cup {"offline"}, call: Worked \cup {NoWork}, extended: BOOLEAN]

In(state, c) == [state |-> state, call |-> c, extended |-> FALSE]
Gone == In("offline", NoWork)
Team == [Staff -> AgentPresence]
Shut == <<>>
Resting == [pc |-> "rest", call |-> NoWork]

TeamInit ==
  /\ states = [a \in Staff |-> Gone] /\ notices = 0 /\ queries = 0 /\ snapshots = <<>>
  /\ team = [a \in Staff |-> Shut] /\ behind = [a \in Staff |-> FALSE]
  /\ coded = {} /\ required \in BOOLEAN /\ finishing = [a \in Staff |-> Resting] /\ moves = 0

\* publishPresence follows every write.
Enter(a, p) ==
  /\ moves < MaxMoves /\ moves' = moves + 1
  /\ notices + queries + Len(snapshots) < MaxUnsent
  /\ states' = [states EXCEPT ![a] = p] /\ notices' = notices + 1

\* The desk's own entry; offline while there is none.
Mine(a) == IF team[a] = Shut THEN Gone ELSE team[a][a]

-----------------------------------------------------------------------------
\* Writes.

\* Mutant: the newcomer is not announced.
ConnectQuietly(a) ==
  /\ team[a] = Shut /\ moves < MaxMoves /\ moves' = moves + 1
  /\ states' = [states EXCEPT ![a] = IF @ = Gone THEN In("not_ready", NoWork) ELSE @]
  /\ team' = [team EXCEPT ![a] = [b \in Staff |-> Gone]] /\ behind' = [behind EXCEPT ![a] = FALSE]
  /\ UNCHANGED <<notices, queries, snapshots, coded, required, finishing>>

\* A socket opens: the list is empty until the first snapshot.
Connect(a) ==
  /\ team[a] = Shut /\ Enter(a, In("not_ready", NoWork))
  /\ team' = [team EXCEPT ![a] = [b \in Staff |-> Gone]] /\ behind' = [behind EXCEPT ![a] = FALSE]
  /\ UNCHANGED <<queries, snapshots, coded, required, finishing>>

\* It closes; an agent on a call is gone as well.
Disconnect(a) ==
  /\ team[a] # Shut /\ Enter(a, Gone)
  /\ team' = [team EXCEPT ![a] = Shut] /\ behind' = [behind EXCEPT ![a] = FALSE]
  /\ UNCHANGED <<queries, snapshots, coded, required, finishing>>

Settable(a) == states[a].state \notin {"offline", "busy"}

\* POST /state, by the buttons of StateBar.
SetOwnState(a, state) ==
  /\ Mine(a).state \notin {"offline", "busy"} /\ Settable(a) /\ Enter(a, In(state, NoWork))
  /\ UNCHANGED <<pushVars, coded, required, finishing>>

\* POST /agents/:userId/state, by the menu of the dashboard: d shows a.
ForceState(d, a, state) ==
  /\ team[d] # Shut /\ team[d][a].state \notin {"offline", "busy"} /\ Settable(a)
  /\ Enter(a, In(state, NoWork))
  /\ UNCHANGED <<pushVars, coded, required, finishing>>

\* accept, take-over.
TakesCall(a, c) ==
  /\ states[a].state = "ready" /\ Enter(a, In("busy", c))
  /\ UNCHANGED <<pushVars, coded, required, finishing>>

\* free: wrap-up, or ready at once when the tenant has none.
CallOver(a) ==
  /\ states[a].state = "busy"
  /\ Enter(a, In("acw", states[a].call)) \/ Enter(a, In("ready", NoWork))
  /\ UNCHANGED <<pushVars, coded, required, finishing>>

WrapUpExpires(a) ==
  /\ states[a].state = "acw" /\ Enter(a, In("ready", NoWork))
  /\ UNCHANGED <<pushVars, coded, required, finishing>>

\* POST /acw/extend.
Extend(a) ==
  /\ Mine(a).state = "acw" /\ states[a].state = "acw"
  /\ Enter(a, [states[a] EXCEPT !.extended = TRUE])
  /\ UNCHANGED <<pushVars, coded, required, finishing>>

-----------------------------------------------------------------------------
\* Wrap-up.

\* The select, POST /calls/:id/disposition: of the call the desk shows.
Dispose(a) ==
  /\ Mine(a).state = "acw" /\ Mine(a).call # NoWork /\ coded' = coded \cup {Mine(a).call}
  /\ UNCHANGED <<states, notices, pushVars, required, finishing, moves>>

\* POST /acw/done: mine(), by a snapshot of the table.
AskDone(a) ==
  /\ Mine(a).state = "acw" /\ finishing[a] = Resting /\ states[a].state = "acw"
  /\ finishing' = [finishing EXCEPT ![a] = [pc |-> "asked", call |-> states[a].call]]
  /\ UNCHANGED <<states, notices, pushVars, coded, required, moves>>

\* disposition_required, or on.
CheckCode(a) ==
  /\ finishing[a].pc = "asked"
  /\ finishing' = [finishing EXCEPT ![a] =
       IF required /\ finishing[a].call \notin coded \cup {NoWork} THEN Resting
       ELSE [@ EXCEPT !.pc = "checked"]]
  /\ UNCHANGED <<states, notices, pushVars, coded, required, moves>>

\* setState, whose answer is not looked at.
Done(a) ==
  /\ finishing[a].pc = "checked" /\ finishing' = [finishing EXCEPT ![a] = Resting]
  /\ IF Settable(a) THEN Enter(a, In("ready", NoWork))
     ELSE UNCHANGED <<states, notices, moves>>
  /\ UNCHANGED <<pushVars, coded, required>>

-----------------------------------------------------------------------------
\* The way to the desks.

\* The bus subscriber starts a query.
HearNotice ==
  /\ notices > 0 /\ notices' = notices - 1 /\ queries' = queries + 1
  /\ UNCHANGED <<states, snapshots, team, behind, coded, required, finishing, moves>>

Snapshot ==
  /\ queries > 0 /\ queries' = queries - 1
  /\ snapshots' = Append(snapshots, [rows |-> states, late |-> FALSE])
  /\ UNCHANGED <<states, notices, team, behind, coded, required, finishing, moves>>

\* toTenant: the answers of two queries need not come in order.
Push(i) ==
  /\ i \in DOMAIN snapshots
  /\ team' = [a \in Staff |-> IF team[a] = Shut THEN Shut ELSE snapshots[i].rows]
  /\ behind' = [a \in Staff |-> team[a] # Shut /\ snapshots[i].late]
  /\ snapshots' = RemoveAt([j \in DOMAIN snapshots |->
                     IF j < i THEN [snapshots[j] EXCEPT !.late = TRUE] ELSE snapshots[j]], i)
  /\ UNCHANGED <<states, notices, queries, coded, required, finishing, moves>>

TeamNext ==
  \/ \E a \in Staff :
       \/ Connect(a) \/ Disconnect(a) \/ CallOver(a) \/ WrapUpExpires(a) \/ Extend(a)
       \/ Dispose(a) \/ AskDone(a) \/ CheckCode(a) \/ Done(a)
       \/ \E c \in Worked : TakesCall(a, c)
       \/ \E state \in {"ready", "not_ready"} :
            SetOwnState(a, state) \/ \E d \in Staff : ForceState(d, a, state)
  \/ HearNotice \/ Snapshot
  \/ \E i \in DOMAIN snapshots : Push(i)

TeamSpec == TeamInit /\ [][TeamNext]_teamVars

-----------------------------------------------------------------------------
TeamTypeOK ==
  /\ states \in Team /\ team \in [Staff -> Team \cup {Shut}] /\ coded \subseteq Worked
  /\ finishing \in [Staff -> [pc: {"rest", "asked", "checked"}, call: Worked \cup {NoWork}]]

\* Once no message, query or answer is under way, every open desk shows the team as it
\* is, whoever connected, left, answered, finished or was forced meanwhile.  Known
\* exception, until the next message: two queries answered in the other order (ws.ts:169).
TeamIsShown ==
  notices = 0 /\ queries = 0 /\ snapshots = <<>> =>
    \A a \in Staff : team[a] = Shut \/ behind[a] \/ team[a] = states
==============================================================================
