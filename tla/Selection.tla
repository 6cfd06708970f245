------------------------------ MODULE Selection ------------------------------
(***************************************************************************)
(* Whom a queue rings for its calls, one call after the other: the tags    *)
(* the AI puts on a call (agent.ts, routes/internal.ts), what the call and *)
(* the queue ask for together (Flow.routingOf), and the order in which     *)
(* Routing.candidate goes through the agents.                              *)
(*                                                                         *)
(* A step of the ring cycle is one transaction here, and so are accept and *)
(* its callback (Routing and CallFlow have the statements and their        *)
(* races).  Left out: consultations, which name their agent; priorities,   *)
(* which are stored and never read; several calls ringing at once.         *)
(***************************************************************************)
EXTENDS Integers, Sequences, FiniteSets, FiniteSetsExt

CONSTANTS
  Reps,       \* the members of the queue
  Topics,     \* skill keys of the catalogue
  Tongues,    \* base languages
  Configs,    \* queue configurations, and
  Rosters,    \* tables of user_skill, to start from
  Seat,       \* the order in which they connected, before all that is modelled
  NoOne,      \* null
  MaxTurns,   \* bound: states entered and rings, from the order of connection on
  MaxAsks     \* bound: escalations

LangSkill(l) == "lang:" \o l
Keys == Topics \cup {LangSkill(l) : l \in Tongues}

RoutingAlgorithm ==
  {"longest_idle", "least_occupied", "round_robin", "most_skilled", "least_skilled", "linear"}

UserSkill == [Reps -> [Keys -> 0..2]]        \* 0: no row
SkillRequirement == [Keys -> 0..2]           \* the least proficiency; 0: not asked for
QueueConfig == [algorithm: RoutingAlgorithm, required: SkillRequirement,
                languageRouting: BOOLEAN, relaxes: BOOLEAN]

ASSUME SelectionAssumption ==
  /\ IsFiniteSet(Reps) /\ IsFiniteSet(Topics) /\ IsFiniteSet(Tongues)
  /\ Seat \in [Reps -> 1..Cardinality(Reps)]
  /\ \A a, b \in Reps : Seat[a] = Seat[b] => a = b
  /\ Configs \subseteq QueueConfig /\ Rosters \subseteq UserSkill
  /\ NoOne \notin Reps /\ MaxTurns \in Nat /\ MaxAsks \in Nat

VARIABLES
  config,     \* the queue's configuration
  userSkills, \* rows of user_skill
  catalogue,  \* TenantSettings.skills
  reps,       \* rows of agent_presence
  caller,     \* the call row, and where its AI is
  tool,       \* the skills the AI may name: the catalogue when it was dispatched
  asking,     \* POST /escalate in flight
  ringing,    \* the ring_offer row; known, a history: what the call was tagged with by then
  turn,       \* the clock, of what is compared
  asks,
  tagged,     \* history: the tags this call got
  passed      \* history: how often one agent was rung while another was as eligible

selectVars == <<config, userSkills, catalogue, reps, caller, tool, asking, ringing, turn, asks,
                tagged, passed>>

\* BCP 47 tags: what websites and the AI report; a row may hold the base alone.
Language == [base: Tongues, region: {"CH"}]
BaseLanguage(tag) == tag.base

NoCaller == [live |-> FALSE, language |-> NoOne, pinned |-> {}, preferred |-> NoOne, ai |-> "none"]
NotAsking == [pc |-> "idle", tags |-> {}, spoken |-> NoOne]
NoRing == [open |-> FALSE, algorithm |-> "longest_idle", skills |-> [k \in Keys |-> 0],
           callSkills |-> {}, relaxing |-> FALSE, relaxed |-> FALSE, preferred |-> NoOne,
           tried |-> {}, current |-> NoOne, fallback |-> FALSE, known |-> {}]
Out == [state |-> "offline", since |-> 0, seq |-> 0, handled |-> 0, lastOffered |-> 0]

SelectInit ==
  /\ config \in Configs /\ userSkills \in Rosters /\ catalogue = Topics
  /\ reps = [a \in Reps |-> [Out EXCEPT !.state = "ready", !.seq = Seat[a]]]
  /\ caller = NoCaller /\ tool = {} /\ asking = NotAsking
  /\ ringing = NoRing /\ turn = Cardinality(Reps) + 1 /\ asks = 0 /\ tagged = {}
  /\ passed = [b \in Reps |-> [a \in Reps |-> 0]]

-----------------------------------------------------------------------------
\* What a call asks for.

\* Skills of the call alone: its language and its tags, without what the queue requires.
CallSkills ==
  ((IF config.languageRouting /\ caller.language # NoOne
    THEN {LangSkill(BaseLanguage(caller.language))} ELSE {}) \cup caller.pinned)
  \ {k \in Keys : config.required[k] > 0}

RoutingOf ==
  [NoRing EXCEPT !.open = TRUE, !.algorithm = config.algorithm, !.callSkills = CallSkills,
     !.skills = [k \in Keys |-> IF k \in CallSkills THEN 1 ELSE config.required[k]],
     !.relaxing = config.relaxes /\ CallSkills # {}, !.preferred = caller.preferred,
     !.known = tagged]

TransferRouting == [RoutingOf EXCEPT !.preferred = NoOne]

\* The deadline of relaxAfterSec has passed.
Relax(o) == [o EXCEPT !.skills = [k \in Keys |-> IF k \in o.callSkills THEN 0 ELSE @[k]],
                      !.relaxing = FALSE, !.relaxed = TRUE]

-----------------------------------------------------------------------------
\* Whom it rings.

Eligible(rows, o, tried) ==
  {a \in Reps \ tried : rows[a].state = "ready" /\ \A k \in Keys : userSkills[a][k] >= o.skills[k]}

\* Over the required skills, or over all when none is required.
Score(a, o) ==
  LET asked == {k \in Keys : o.skills[k] > 0}
  IN  MapThenSumSet(LAMBDA k : userSkills[a][k], IF asked = {} THEN Keys ELSE asked)

\* The least goes first; ties by the order of connection.
Rank(rows, o, a) ==
  CASE o.algorithm = "longest_idle" -> rows[a].since
    [] o.algorithm = "least_occupied" -> rows[a].handled
    [] o.algorithm = "round_robin" -> rows[a].lastOffered
    [] o.algorithm = "most_skilled" -> -Score(a, o)
    [] o.algorithm = "least_skilled" -> Score(a, o)
    [] o.algorithm = "linear" -> 0

Candidate(rows, o, pool) ==
  IF o.preferred \in pool THEN o.preferred
  ELSE CHOOSE a \in pool : \A b \in pool \ {a} :
         \/ Rank(rows, o, a) < Rank(rows, o, b)
         \/ Rank(rows, o, a) = Rank(rows, o, b) /\ rows[a].seq < rows[b].seq

\* n is rung: since then, those as eligible were passed over once more, unless n is the
\* call's own agent.
Passed(o, pool, n) ==
  [b \in Reps |-> IF b = n THEN [a \in Reps |-> 0]
                  ELSE IF b \in pool /\ n # o.preferred
                       THEN [passed[b] EXCEPT ![n] = IF @ = 2 THEN 2 ELSE @ + 1] ELSE passed[b]]

Turn == turn < MaxTurns /\ turn' = turn + 1

\* Mutant: lastOfferedAt is not written.
RingUnnoted(rows, o, pool) ==
  LET n == Candidate(rows, o, pool)
  IN  /\ ringing' = [o EXCEPT !.current = n] /\ reps' = rows
      /\ passed' = Passed(o, pool, n) /\ Turn /\ UNCHANGED caller

RingNext(rows, o, pool) ==
  LET n == Candidate(rows, o, pool)
  IN  /\ ringing' = [o EXCEPT !.current = n]
      /\ reps' = [rows EXCEPT ![n].lastOffered = turn]
      /\ passed' = Passed(o, pool, n) /\ Turn /\ UNCHANGED caller

\* onNobody: the AI that stood by comes; one that asked goes on.
GiveUp(rows, o) ==
  /\ ringing' = NoRing /\ reps' = rows /\ UNCHANGED <<turn, passed>>
  /\ caller' = [caller EXCEPT !.ai = IF o.fallback THEN "talking" ELSE @]

\* Routing.advance over the rows as they are now; deadlines pass at any time.
Advance(rows, row, tried) ==
  \E due \in {row.relaxing, FALSE}, late \in {row.fallback, FALSE} :
    LET o == [IF due THEN Relax(row) ELSE row EXCEPT !.tried = tried, !.current = NoOne]
        pool == Eligible(rows, o, tried)
    IN  IF late \/ (pool = {} /\ ~o.relaxing) THEN GiveUp(rows, o)
        ELSE IF pool = {} THEN ringing' = o /\ reps' = rows /\ UNCHANGED <<caller, turn, passed>>
        ELSE RingNext(rows, o, pool)

Entered(row, state) == [row EXCEPT !.state = state, !.since = turn]
callVars == <<tool, asking, asks, tagged>>
setup == <<config, userSkills, catalogue>>

-----------------------------------------------------------------------------
\* Agents.

\* The row of a new connection; the calls handled and offered before are forgotten.
GoesOnline(a) ==
  /\ reps[a].state = "offline" /\ Turn
  /\ reps' = [reps EXCEPT ![a] = [Out EXCEPT !.state = "not_ready", !.since = turn, !.seq = turn]]
  /\ passed' = [b \in Reps |-> [passed[b] EXCEPT ![a] = 0]]
  /\ UNCHANGED <<setup, caller, ringing, callVars>>

GoesOffline(a) ==
  /\ reps[a].state # "offline"
  /\ LET rows == [reps EXCEPT ![a] = Out]
     IN  IF ringing.current = a THEN Advance(rows, ringing, ringing.tried \cup {a})
         ELSE reps' = rows /\ UNCHANGED <<ringing, caller, turn, passed>>
  /\ UNCHANGED <<setup, callVars>>

\* The buttons of the desk; one who is rung stays rung.
SetsState(a, state) ==
  /\ reps[a].state \notin {"offline", "busy", state} /\ Turn
  /\ reps' = [reps EXCEPT ![a] = Entered(@, state)]
  /\ UNCHANGED <<setup, caller, ringing, passed, callVars>>

\* Declined, or not answered in time: then the agent is parked.
Declines(a, rona) ==
  /\ ringing.current = a
  /\ Advance([reps EXCEPT ![a] = IF rona /\ @.state = "ready" THEN Entered(@, "not_ready") ELSE @],
             ringing, ringing.tried \cup {a})
  /\ UNCHANGED <<setup, callVars>>

\* The tick runs an offer that waits for its relaxation.
TickRelaxes ==
  /\ ringing.open /\ ringing.current = NoOne /\ Advance(reps, Relax(ringing), ringing.tried)
  /\ UNCHANGED <<setup, callVars>>

\* accept and onAccepted; an agent without a row is not made busy.
Answers(a) ==
  /\ ringing.current = a /\ Turn /\ ringing' = NoRing
  /\ reps' = [reps EXCEPT ![a] = [Entered(reps[a], "busy") EXCEPT !.handled = @ + 1]]
  /\ caller' = [caller EXCEPT !.preferred = a]
  /\ UNCHANGED <<setup, passed, callVars>>

\* The AI hands over to whoever answered when that agent is in the room.
EntersRoom(a) ==
  /\ reps[a].state = "busy" /\ caller.preferred = a /\ caller.ai # "handed"
  /\ caller' = [caller EXCEPT !.ai = "handed"]
  /\ UNCHANGED <<setup, reps, ringing, turn, passed, callVars>>

-----------------------------------------------------------------------------
\* The call.

\* POST /calls: the AI comes with the customer, or humans are rung first.
NextCall(aiFirst, language) ==
  /\ ~caller.live /\ tagged' = {} /\ tool' = catalogue /\ asking' = NotAsking
  /\ caller' = [NoCaller EXCEPT !.live = TRUE, !.language = language,
                                !.ai = IF aiFirst THEN "talking" ELSE "none"]
  /\ UNCHANGED <<setup, reps, ringing, turn, asks, passed>>

\* Flow.humanFirst, once the row is there.
HumanFirst ==
  /\ caller.live /\ caller.ai = "none" /\ caller.preferred = NoOne /\ ~ringing.open
  /\ Advance(reps, [RoutingOf EXCEPT !.fallback = TRUE], {})
  /\ UNCHANGED <<setup, callVars>>

\* The tool escalateToHuman: tags from the catalogue the AI got, and a language.
AskHuman(tags, spoken) ==
  /\ caller.live /\ caller.ai = "talking" /\ asking = NotAsking /\ ~ringing.open
  /\ tags \subseteq tool /\ asks < MaxAsks /\ asks' = asks + 1
  /\ asking' = [pc |-> "tag", tags |-> tags, spoken |-> spoken]
  /\ UNCHANGED <<setup, reps, caller, ringing, turn, tool, tagged, passed>>

\* Mutant: the tags of this escalation replace the earlier ones.
TagCallOver ==
  /\ asking.pc = "tag" /\ asking' = [asking EXCEPT !.pc = "ring"]
  /\ LET known == asking.tags \cap catalogue
     IN  /\ caller' = [caller EXCEPT !.pinned = IF asking.tags = {} THEN @ ELSE known]
         /\ tagged' = tagged \cup known
  /\ UNCHANGED <<setup, reps, ringing, turn, tool, asks, passed>>

\* setRequiredSkills: what the catalogue knows by now, merged with what was there; and
\* setLanguage: the base alone.
TagCall ==
  /\ asking.pc = "tag" /\ asking' = [asking EXCEPT !.pc = "ring"]
  /\ LET known == asking.tags \cap catalogue
     IN  /\ caller' = [caller EXCEPT !.pinned = @ \cup known, !.language =
                         IF asking.spoken = NoOne THEN @
                         ELSE [base |-> BaseLanguage(asking.spoken), region |-> ""]]
         /\ tagged' = tagged \cup known
  /\ UNCHANGED <<setup, reps, ringing, turn, tool, asks, passed>>

\* Flow.escalate reads the row again; a call that rings (a transfer) is left alone.
Escalate ==
  /\ asking.pc = "ring" /\ asking' = NotAsking
  /\ IF ringing.open THEN UNCHANGED <<reps, caller, ringing, turn, passed>>
     ELSE Advance(reps, RoutingOf, {})
  /\ UNCHANGED <<setup, tool, asks, tagged>>

\* A transfer to the queue frees the agent first.
TransferToQueue(a) ==
  /\ caller.ai = "handed" /\ reps[a].state = "busy" /\ ~ringing.open
  /\ Advance([reps EXCEPT ![a] = Entered(@, "ready")], TransferRouting, {})
  /\ UNCHANGED <<setup, callVars>>

\* The call ends, and whatever was under way for it; without wrap-up (Routing has it).
EndsCall ==
  /\ caller.live /\ caller' = NoCaller /\ ringing' = NoRing /\ asking' = NotAsking
  /\ reps' = [a \in Reps |-> IF reps[a].state = "busy" THEN Entered(reps[a], "ready") ELSE reps[a]]
  /\ UNCHANGED <<setup, turn, tool, asks, tagged, passed>>

\* A supervisor takes a skill out of the catalogue.
EditCatalogue(k) ==
  /\ catalogue = Topics /\ asks = 1 /\ catalogue' = catalogue \ {k}
  /\ UNCHANGED <<config, userSkills, reps, caller, ringing, turn, passed, callVars>>

SelectNext ==
  \/ \E a \in Reps :
       \/ GoesOnline(a) \/ GoesOffline(a) \/ Answers(a) \/ EntersRoom(a) \/ TransferToQueue(a)
       \/ \E state \in {"ready", "not_ready"} : SetsState(a, state)
       \/ \E rona \in BOOLEAN : Declines(a, rona)
  \/ \E aiFirst \in BOOLEAN, language \in Language \cup {NoOne} : NextCall(aiFirst, language)
  \/ \E tags \in {{}} \cup {{k} : k \in tool}, spoken \in Language \cup {NoOne} : AskHuman(tags, spoken)
  \/ TickRelaxes \/ HumanFirst \/ TagCall \/ Escalate \/ EndsCall
  \/ \E k \in Topics : EditCatalogue(k)

SelectSpec == SelectInit /\ [][SelectNext]_selectVars

-----------------------------------------------------------------------------
SelectTypeOK ==
  /\ \A a \in Reps : reps[a].state \in {"offline", "not_ready", "ready", "busy"}
  /\ ringing.current \in Reps \cup {NoOne} /\ ringing.skills \in SkillRequirement
  /\ caller.pinned \subseteq Topics /\ catalogue \subseteq Topics
  /\ asking.pc \in {"idle", "tag", "ring"}

\* What the AI found out about a call is asked by every ring cycle begun from then on:
\* through later escalations, a lost agent, a transfer to the queue and edits of the
\* catalogue.  Only the relaxation of this ring drops a tag, never a skill of the queue.
TagsSurvive ==
  ringing.open => \A k \in Keys :
    k \in ringing.known \/ config.required[k] > 0 =>
      ringing.skills[k] > 0 \/ (ringing.relaxed /\ config.required[k] = 0)

\* Turn by turn: over any number of calls, no agent of a round-robin queue is rung twice
\* ahead of the same colleague who could have taken both calls, declines, missed rings
\* and transfers included, unless the agent connected anew or is the call's own.
TurnsAreShared ==
  config.algorithm = "round_robin" => \A a, b \in Reps : passed[b][a] < 2
=============================================================================
