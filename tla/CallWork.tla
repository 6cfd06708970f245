------------------------------- MODULE CallWork -------------------------------
(***************************************************************************)
(* The recording of a call: the state machine of Flow.recording, driven by *)
(* the buttons of the desks on the call (RecordingControls.tsx), against   *)
(* the end of the call, statement by statement; and the egresses that run  *)
(* in LiveKit (livekit.ts).                                                *)
(*                                                                         *)
(* LiveKit is external: deleting a room ends its egresses, starting one in *)
(* a room that is gone throws, and a stop that fails is swallowed only for *)
(* an egress that has ended.  Left out: the files, and RECORDING_STUB.     *)
(***************************************************************************)
EXTENDS Naturals

CONSTANTS
  Handlers,    \* recording requests that may be under way at once
  NoEgress,    \* null
  MaxEgresses, \* bound: egresses of the call
  MaxDeaths    \* bound: handlers that die with their process

ASSUME CallWorkAssumption == MaxEgresses \in Nat /\ MaxDeaths \in Nat /\ NoEgress \notin Nat

VARIABLES
  isLive,       \* the call's status is not `ended`
  hasRoom,      \* the LiveKit room is there
  recording,  \* call.recording_state
  egress,     \* call.recording_egress_id
  running,    \* egresses that record
  handler,    \* each request: where it is, its action, the egress it read and the one it began
  ending,     \* Flow.end: where it is, and the egress it read
  disturbed,  \* history: requests overlapped, or one died
  begun, deaths

workVars == <<isLive, hasRoom, recording, egress, running, handler, ending, disturbed, begun, deaths>>

Actions == {"start", "pause", "resume", "stop"}
Ids == 1..MaxEgresses \cup {NoEgress}

Rest == [pc |-> "rest", action |-> "stop", read |-> NoEgress, new |-> NoEgress]

WorkInit ==
  /\ isLive = TRUE /\ hasRoom = TRUE /\ recording = "off" /\ egress = NoEgress /\ running = {}
  /\ handler = [h \in Handlers |-> Rest] /\ ending = [pc |-> "rest", read |-> NoEgress]
  /\ disturbed = FALSE /\ begun = 0 /\ deaths = 0

\* Nobody else is between two statements.
Alone(h) == ending.pc = "rest" /\ \A g \in Handlers \ {h} : handler[g].pc = "rest"

Goto(h, pc) == handler' = [handler EXCEPT ![h].pc = pc]
Finish(h) == handler' = [handler EXCEPT ![h] = Rest]

-----------------------------------------------------------------------------
\* Flow.recording.

Allowed(action) ==
  CASE action = "start" -> {"off"}
    [] action = "pause" -> {"on"}
    [] action = "resume" -> {"paused"}
    [] action = "stop" -> {"on", "paused"}

\* getCall and the guards; not_live and invalid_state change nothing.
Request(h, action) ==
  /\ handler[h].pc = "rest" /\ isLive /\ recording \in Allowed(action)
  /\ handler' = [handler EXCEPT ![h] =
       [pc |-> IF action \in {"start", "resume"} THEN "begin" ELSE "finish",
        action |-> action, read |-> egress, new |-> NoEgress]]
  /\ disturbed' = (disturbed \/ ~Alone(h))
  /\ UNCHANGED <<isLive, hasRoom, recording, egress, running, ending, begun, deaths>>

\* startRecording: recording_unavailable without a store, an error without a room.
StartRecording(h) ==
  /\ handler[h].pc = "begin"
  /\ \/ /\ hasRoom /\ begun < MaxEgresses /\ begun' = begun + 1
        /\ running' = running \cup {begun'}
        /\ handler' = [handler EXCEPT ![h].pc = "finish", ![h].new = begun']
     \/ Finish(h) /\ UNCHANGED <<running, begun>>
  /\ UNCHANGED <<isLive, hasRoom, recording, egress, ending, disturbed, deaths>>

\* Mutant: only `stop` ends the segment.
FinishedOnStop(h) == IF handler[h].action = "stop" THEN {handler[h].read} ELSE {}

\* The segment that ends: the one on the row that was read.
Finished(h) == {handler[h].read}

StopRecording(h) ==
  /\ handler[h].pc = "finish" /\ running' = running \ Finished(h) /\ Goto(h, "set")
  /\ UNCHANGED <<isLive, hasRoom, recording, egress, ending, disturbed, begun, deaths>>

\* setRecording, by call id alone.
SetRecording(h) ==
  /\ handler[h].pc = "set"
  /\ recording' = IF handler[h].action = "pause" THEN "paused"
                  ELSE IF handler[h].new = NoEgress THEN "off" ELSE "on"
  /\ egress' = handler[h].new /\ Finish(h)
  /\ UNCHANGED <<isLive, hasRoom, running, ending, disturbed, begun, deaths>>

-----------------------------------------------------------------------------
\* Flow.end: the segment on the row, the room, the status.

BeginEnd ==
  /\ ending.pc = "rest" /\ isLive
  /\ ending' = [pc |-> IF egress = NoEgress THEN "room" ELSE "finish", read |-> egress]
  /\ disturbed' = (disturbed \/ \E h \in Handlers : handler[h].pc # "rest")
  /\ UNCHANGED <<isLive, hasRoom, recording, egress, running, handler, begun, deaths>>

EndSegment ==
  /\ ending.pc = "finish" /\ running' = running \ {ending.read}
  /\ ending' = [ending EXCEPT !.pc = "off"]
  /\ UNCHANGED <<isLive, hasRoom, recording, egress, handler, disturbed, begun, deaths>>

SetOff ==
  /\ ending.pc = "off" /\ recording' = "off" /\ egress' = NoEgress
  /\ ending' = [ending EXCEPT !.pc = "room"]
  /\ UNCHANGED <<isLive, hasRoom, running, handler, disturbed, begun, deaths>>

DeleteRoom ==
  /\ ending.pc = "room" /\ hasRoom' = FALSE /\ running' = {}
  /\ ending' = [ending EXCEPT !.pc = "ended"]
  /\ UNCHANGED <<isLive, recording, egress, handler, disturbed, begun, deaths>>

SetEnded ==
  /\ ending.pc = "ended" /\ isLive' = FALSE /\ ending' = [pc |-> "rest", read |-> NoEgress]
  /\ UNCHANGED <<hasRoom, recording, egress, running, handler, disturbed, begun, deaths>>

\* A handler dies between two statements.
Die(h) ==
  /\ handler[h].pc # "rest" /\ deaths < MaxDeaths /\ deaths' = deaths + 1 /\ Finish(h)
  /\ disturbed' = TRUE
  /\ UNCHANGED <<isLive, hasRoom, recording, egress, running, ending, begun>>

WorkNext ==
  \/ \E h \in Handlers :
       \/ \E action \in Actions : Request(h, action)
       \/ StartRecording(h) \/ StopRecording(h) \/ SetRecording(h) \/ Die(h)
  \/ BeginEnd \/ EndSegment \/ SetOff \/ DeleteRoom \/ SetEnded

WorkSpec == WorkInit /\ [][WorkNext]_workVars

-----------------------------------------------------------------------------
WorkTypeOK ==
  /\ recording \in {"off", "on", "paused"} /\ egress \in Ids /\ running \subseteq 1..MaxEgresses
  /\ handler \in [Handlers -> [pc: {"rest", "begin", "finish", "set"}, action: Actions,
                               read: Ids, new: Ids]]
  /\ ending \in [pc: {"rest", "finish", "off", "room", "ended"}, read: Ids]

NothingUnderWay == ending.pc = "rest" /\ \A h \in Handlers : handler[h].pc = "rest"

\* Whenever nothing is under way, what records is what the row says: one egress while
\* `on`, none while `off` or `paused` (desk.ts:480, "a PCI-safe gap between segments"),
\* and the row of an ended call is not `on`.  Nothing records once the call is over, even
\* when requests overlap.  Known exception: two requests that read the same row, or a
\* process that dies in between, leave an egress no later pause or stop finds, until the
\* room is deleted (flow.ts:562).
EgressIsKnown ==
  /\ ~isLive => running = {}
  /\ NothingUnderWay /\ ~disturbed =>
       /\ running = IF recording = "on" THEN {egress} ELSE {}
       /\ recording = "on" <=> egress # NoEgress
       /\ ~isLive => recording # "on"
==============================================================================
