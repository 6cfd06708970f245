--------------------------------- MODULE AIJob ---------------------------------
(***************************************************************************)
(* One job of the AI worker (apps/agent/src/worker.ts) with its client of  *)
(* the internal API (api.ts), the rows those routes write (routes/         *)
(* internal.ts, services/calls.ts) and the transcribers it starts          *)
(* (transcriber.ts).  entry(), the handoff to a human and the shutdown     *)
(* callback each wait at their awaits (`job`, `handoff[h]`, `shutdown`   *)
(* name the next one), and room events run in between.                     *)
(*                                                                         *)
(* Left out: what is said; the escalation, which CallFlow models.          *)
(***************************************************************************)
EXTENDS Naturals, FiniteSets

CONSTANTS
  Agents,    \* human agents who may join the room
  MaxLost    \* bound: requests to the API that fail

ASSUME AIJobAssumption == MaxLost \in Nat

VARIABLES
  behavior,    \* settings.handoff.aiBehavior
  job,       \* where createEntry's function is
  handoff,     \* per human, where its onHumanJoined is
  handedOff,
  shutdown,    \* where the shutdown callback is
  voice,       \* the AgentSession
  role,        \* the worker's own `role` attribute
  transcribers,\* transcribers running: the human they were started for
  rows,        \* open rows of call_participant for ai:<callId>, counted by kind
  humans,      \* agents in the room whose role is set
  customer,    \* is the customer in the room?
  ended,       \* the call's status is `ended`
  lost,        \* requests that failed
  early,       \* history: a handoff began before entry() had announced the AI
  cut          \* history: the shutdown met a handoff, or entry() under way

jobVars == <<behavior, job, handoff, handedOff, shutdown, voice, role, transcribers, rows,
             humans, customer, ended, lost, early, cut>>

NoRows == [ai |-> 0, transcriber |-> 0]

JobInit ==
  /\ behavior \in {"leave", "listen"} /\ job = "start"
  /\ handoff = [h \in Agents |-> "none"] /\ handedOff = FALSE /\ shutdown = "none"
  /\ voice = "idle" /\ role = "none" /\ transcribers = {} /\ rows = NoRows
  /\ humans = {} /\ customer = TRUE /\ ended = FALSE /\ lost = 0
  /\ early = FALSE /\ cut = FALSE

Alive == shutdown # "over"
InRoom == job \notin {"start", "connect"}

-----------------------------------------------------------------------------
\* Requests to the API: a failure is logged and swallowed.

Post(change, same) ==
  \/ change /\ UNCHANGED lost
  \/ same /\ lost < MaxLost /\ lost' = lost + 1

Report(kind) == Post(rows' = [rows EXCEPT ![kind] = @ + 1], UNCHANGED rows)

\* markParticipantLeft goes by identity: whatever kind the request names.
ReportLeft == Post(rows' = NoRows, UNCHANGED rows)

\* An event of the timeline, which nothing here reads.
Event == Post(TRUE, TRUE)

-----------------------------------------------------------------------------
\* onHumanJoined, from each of its three triggers.

\* Mutant: each human hands off anew.
MayHandOffAgain(h) == handoff[h] = "none"

MayHandOff(h) == ~handedOff

HumanJoined(h) ==
  IF MayHandOff(h)
  THEN /\ handedOff' = TRUE /\ handoff' = [handoff EXCEPT ![h] = "event"]
       /\ early' = (early \/ job \in {"attribute", "participant"})
  ELSE UNCHANGED <<handedOff, handoff, early>>

\* A human joins, or sets the role later, or any attribute changes: listened to once
\* the worker is connected.
HumanEvent(h) ==
  /\ Alive
  /\ humans' = humans \cup {h}
  /\ IF InRoom THEN HumanJoined(h) ELSE UNCHANGED <<handedOff, handoff, early>>
  /\ cut' = (cut \/ (shutdown # "none" /\ handedOff' # handedOff))
  /\ UNCHANGED <<behavior, job, shutdown, voice, role, transcribers, rows, customer, ended, lost>>

Proceed(h, pc) == handoff' = [handoff EXCEPT ![h] = pc]

\* `listen`: muted for good, and the human transcribed beside the customer.
KeepListening(h) ==
  /\ Alive /\ handoff[h] = "event" /\ behavior = "listen" /\ Event
  /\ voice' = "muted" /\ transcribers' = transcribers \cup {h} /\ Proceed(h, "done")
  /\ UNCHANGED <<behavior, job, handedOff, shutdown, role, rows, humans, customer, ended,
                 early, cut>>

\* `leave`: the voice stops, and the participant stays as a transcriber.
Closing(h) ==
  /\ Alive /\ handoff[h] = "event" /\ behavior = "leave" /\ Event
  /\ Proceed(h, "close")
  /\ UNCHANGED <<behavior, job, handedOff, shutdown, voice, role, transcribers, rows, humans,
                 customer, ended, early, cut>>

VoiceClosed(h) ==
  /\ Alive /\ handoff[h] = "close"
  /\ voice' = "closed" /\ Proceed(h, "attribute")
  /\ UNCHANGED <<behavior, job, handedOff, shutdown, role, transcribers, rows, humans,
                 customer, ended, lost, early, cut>>

BecomeTranscriber(h) ==
  /\ Alive /\ handoff[h] = "attribute"
  /\ role' = "transcriber" /\ Proceed(h, "left")
  /\ UNCHANGED <<behavior, job, handedOff, shutdown, voice, transcribers, rows, humans,
                 customer, ended, lost, early, cut>>

\* Mutant: the row of the AI stays open.
LeaveAsAIForgotten(h) ==
  /\ Alive /\ handoff[h] = "left" /\ Proceed(h, "joined")
  /\ UNCHANGED <<behavior, job, handedOff, shutdown, voice, role, transcribers, rows, humans,
                 customer, ended, lost, early, cut>>

LeaveAsAI(h) ==
  /\ Alive /\ handoff[h] = "left" /\ ReportLeft /\ Proceed(h, "joined")
  /\ UNCHANGED <<behavior, job, handedOff, shutdown, voice, role, transcribers, humans,
                 customer, ended, early, cut>>

JoinAsTranscriber(h) ==
  /\ Alive /\ handoff[h] = "joined" /\ Report("transcriber") /\ Proceed(h, "done")
  /\ transcribers' = transcribers \cup {h}
  /\ UNCHANGED <<behavior, job, handedOff, shutdown, voice, role, humans, customer, ended,
                 early, cut>>

HandoffStep(h) ==
  KeepListening(h) \/ Closing(h) \/ VoiceClosed(h) \/ BecomeTranscriber(h) \/ LeaveAsAI(h)
    \/ JoinAsTranscriber(h)

-----------------------------------------------------------------------------
\* entry(): session, room, attribute, row, event; then humans already there.

StartSession ==
  /\ Alive /\ job = "start" /\ job' = "connect" /\ voice' = "open"
  /\ UNCHANGED <<behavior, handoff, handedOff, shutdown, role, transcribers, rows, humans,
                 customer, ended, lost, early, cut>>

ConnectRoom ==
  /\ Alive /\ job = "connect" /\ job' = "attribute"
  /\ UNCHANGED <<behavior, handoff, handedOff, shutdown, voice, role, transcribers, rows, humans,
                 customer, ended, lost, early, cut>>

SetRole ==
  /\ Alive /\ job = "attribute" /\ job' = "participant" /\ role' = "ai"
  /\ UNCHANGED <<behavior, handoff, handedOff, shutdown, voice, transcribers, rows, humans,
                 customer, ended, lost, early, cut>>

Announce ==
  /\ Alive /\ job = "participant" /\ Report("ai") /\ job' = "scan"
  /\ UNCHANGED <<behavior, handoff, handedOff, shutdown, voice, role, transcribers, humans,
                 customer, ended, early, cut>>

\* The event ai.joined, the scan for humans, and the greeting.
Scan ==
  /\ Alive /\ job = "scan" /\ Event /\ job' = "greeted"
  /\ IF humans = {} THEN UNCHANGED <<handedOff, handoff, early>>
     ELSE \E h \in humans : HumanJoined(h)
  /\ UNCHANGED <<behavior, shutdown, voice, role, transcribers, rows, humans, customer, ended, cut>>

EntryStep == StartSession \/ ConnectRoom \/ SetRole \/ Announce \/ Scan

-----------------------------------------------------------------------------
\* ctx.shutdown(), and the callback that runs on every exit path.

InHandoff == \E h \in Agents : handoff[h] \notin {"none", "done"}

StopJob ==
  /\ shutdown = "none"
  /\ shutdown' = "summary" /\ transcribers' = {}
  /\ cut' = (InHandoff \/ job # "greeted")

\* The customer leaves; nobody hears it before the worker is connected.
CustomerLeaves ==
  /\ customer /\ customer' = FALSE
  /\ IF InRoom /\ shutdown = "none" THEN StopJob ELSE UNCHANGED <<shutdown, transcribers, cut>>
  /\ UNCHANGED <<behavior, job, handoff, handedOff, voice, role, rows, humans, ended, lost, early>>

\* endCall's timer, the room deleted by the API, or the worker stopping.
Told ==
  /\ InRoom /\ StopJob
  /\ UNCHANGED <<behavior, job, handoff, handedOff, voice, role, rows, humans, customer, ended,
                 lost, early>>

\* The summary, then the two reports; after the last the process is gone.
Summarize ==
  /\ shutdown = "summary" /\ shutdown' = "participant"
  /\ UNCHANGED <<behavior, job, handoff, handedOff, voice, role, transcribers, rows, humans,
                 customer, ended, lost, early, cut>>

ReportGone ==
  /\ shutdown = "participant" /\ ReportLeft /\ shutdown' = "status"
  /\ UNCHANGED <<behavior, job, handoff, handedOff, voice, role, transcribers, humans, customer,
                 ended, early, cut>>

\* Mutant: the status is sent only by a job that did not hand off.
ReportEndedByAI ==
  /\ shutdown = "status" /\ shutdown' = "over" /\ transcribers' = {}
  /\ IF handedOff THEN UNCHANGED <<ended, lost>> ELSE Post(ended' = TRUE, UNCHANGED ended)
  /\ UNCHANGED <<behavior, job, handoff, handedOff, voice, role, rows, humans, customer, early,
                 cut>>

ReportEnded ==
  /\ shutdown = "status" /\ Post(ended' = TRUE, UNCHANGED ended) /\ shutdown' = "over" /\ transcribers' = {}
  /\ UNCHANGED <<behavior, job, handoff, handedOff, voice, role, rows, humans, customer, early,
                 cut>>

ShutdownStep == Summarize \/ ReportGone \/ ReportEnded

JobNext ==
  \/ EntryStep \/ CustomerLeaves \/ Told \/ ShutdownStep
  \/ \E h \in Agents : HumanEvent(h) \/ HandoffStep(h)

JobSpec == JobInit /\ [][JobNext]_jobVars

\* The process runs on; requests are answered or fail.
JobFairness == WF_jobVars(ShutdownStep)

-----------------------------------------------------------------------------
JobTypeOK ==
  /\ behavior \in {"leave", "listen"}
  /\ job \in {"start", "connect", "attribute", "participant", "scan", "greeted"}
  /\ handoff \in [Agents -> {"none", "event", "close", "attribute", "left", "joined", "done"}]
  /\ shutdown \in {"none", "summary", "participant", "status", "over"}
  /\ voice \in {"idle", "open", "muted", "closed"} /\ role \in {"none", "ai", "transcriber"}
  /\ transcribers \subseteq Agents /\ humans \subseteq Agents
  /\ DOMAIN rows = DOMAIN NoRows /\ lost \in 0..MaxLost

\* What the desk is told of the worker is what it does: between steps its attribute and
\* its one open row say `ai` while its voice runs, `transcriber` once a handoff closed
\* it, and at most one transcriber runs, for the first human; except after a lost
\* request, or a handoff that overtook entry() (worker.ts:260, which then sets `ai`
\* again).  A job that is over leaves no row open, unless it was shut down while
\* starting, or handed off while it was shutting down.
RosterAgrees ==
  /\ job = "greeted" /\ ~InHandoff /\ shutdown = "none" /\ lost = 0 /\ ~early =>
       /\ role = (IF voice = "closed" THEN "transcriber" ELSE "ai")
       /\ rows = [NoRows EXCEPT ![role] = 1]
       /\ Cardinality(transcribers) = (IF handedOff THEN 1 ELSE 0)
  /\ shutdown = "over" /\ lost = 0 /\ ~cut => rows = NoRows

\* A job told to stop, or whose customer left, ends the call, whatever it was doing;
\* unless a request to the API was lost, which nothing repeats (api.ts:9).
JobReports == shutdown # "none" ~> ended \/ lost > 0
==============================================================================
