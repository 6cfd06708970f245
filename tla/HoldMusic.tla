------------------------------- MODULE HoldMusic -------------------------------
(***************************************************************************)
(* The media worker: hold-music sessions of one call (apps/media/src/      *)
(* worker.ts), the LiveKit side of a session (transport.ts), and the cache *)
(* of decoded files (loops.ts).  index.ts starts `handle` for every        *)
(* notification without waiting for the one before: sessions interleave at *)
(* each await, and `run[s].pc` names the one where session s waits.        *)
(*                                                                         *)
(* The room is LiveKit's: it holds one participant per identity, and       *)
(* whoever joins as media:<callId> replaces the participant before.        *)
(***************************************************************************)
EXTENDS Naturals, Sequences

CONSTANTS
  Sessions,    \* session objects, one per moh.start accepted
  Files,       \* URLs of configured hold music
  Synth,       \* no file: the synthesized loop
  None,        \* no session
  MaxFiles,    \* LRU bound of loops.ts (8)
  MaxCommands, \* bound: commands on the bus
  MaxRestarts  \* bound: restarts of the worker

ASSUME HoldMusicAssumption ==
  /\ Synth \notin Files /\ None \notin Sessions
  /\ MaxFiles \in Nat \ {0} /\ MaxCommands \in Nat /\ MaxRestarts \in Nat

VARIABLES
  entry,     \* sessions.get(callId)
  run,       \* per session: its await, cancelled, the loop it will play
  download,  \* per session: the download it started for the cache
  files,     \* the cache in order of use: [url, by]
  inRoom,    \* the session whose participant is in the room, or None
  room,      \* is the call's LiveKit room up?
  wanted,    \* what the API's last command asked for
  shadowed,  \* history: a session deleted the map entry of another
  commands, restarts

musicVars == <<entry, run, download, files, inRoom, room, wanted, shadowed, commands, restarts>>

Fresh == [pc |-> "fresh", cancelled |-> FALSE, music |-> Synth, awaits |-> None, loop |-> Synth]

MusicInit ==
  /\ entry = None /\ inRoom = None /\ room = TRUE /\ wanted = FALSE /\ shadowed = FALSE
  /\ run = [s \in Sessions |-> Fresh]
  /\ download = [s \in Sessions |-> "none"]
  /\ files = <<>> /\ commands = 0 /\ restarts = 0

-----------------------------------------------------------------------------
\* sessions.delete(callId) by session s.
Forget(s) ==
  /\ entry' = None
  /\ shadowed' = (shadowed \/ entry \notin {s, None})

\* session.stop(): a connected one leaves the room, which takes a while.
Cancelled(s) ==
  [run EXCEPT ![s].cancelled = TRUE,
              ![s].pc = IF @ \in {"publish", "play"} THEN "leave" ELSE @]

-----------------------------------------------------------------------------
\* loops.ts, get(): the file's promise becomes the most recent entry, and the
\* oldest ones go.

Position(f) == {i \in 1..Len(files) : files[i].url = f}
\* files.delete: the rest keeps its order.
Without(f) ==
  IF Position(f) = {} THEN files
  ELSE LET i == CHOOSE i \in Position(f) : TRUE
       IN  SubSeq(files, 1, i - 1) \o SubSeq(files, i + 1, Len(files))
\* Mutant: nothing is evicted.
RecentAll(seq) == seq

Recent(seq) == SubSeq(seq, IF Len(seq) > MaxFiles THEN Len(seq) - MaxFiles + 1 ELSE 1, Len(seq))

\* The promise a session waits for: the cached one, or a download it starts.
Pending(s, f) ==
  IF Position(f) = {} THEN s ELSE files[CHOOSE i \in Position(f) : TRUE].by

Lookup(s, f) ==
  /\ files' = Recent(Append(Without(f), [url |-> f, by |-> Pending(s, f)]))
  /\ download' = IF Position(f) = {} THEN [download EXCEPT ![s] = "pending"] ELSE download

\* moh.start: ignored while the call has a session.  Session objects are alike: it
\* makes the first that is left.
MohStart(s, f) ==
  /\ run[s].pc = "fresh" /\ s = CHOOSE x \in Sessions : run[x].pc = "fresh"
  /\ commands < MaxCommands /\ room
  /\ commands' = commands + 1 /\ wanted' = TRUE
  /\ IF entry # None THEN UNCHANGED <<entry, run, download, files>>
     ELSE /\ entry' = s
          /\ run' = [run EXCEPT ![s] = [Fresh EXCEPT !.pc = "resolve", !.music = f,
                                          !.awaits = IF f = Synth THEN None ELSE Pending(s, f)]]
          /\ IF f = Synth THEN UNCHANGED <<download, files>> ELSE Lookup(s, f)
  /\ UNCHANGED <<inRoom, room, shadowed, restarts>>

\* download(): decoded, or anything that makes the file unusable.
Downloaded(s) ==
  /\ download[s] = "pending"
  /\ \E outcome \in {"good", "bad"} : download' = [download EXCEPT ![s] = outcome]
  /\ UNCHANGED <<entry, run, files, inRoom, room, wanted, shadowed, commands, restarts>>

Resolve(s, loop, kept) ==
  /\ run' = [run EXCEPT ![s].loop = loop,
                        ![s].pc = IF run[s].cancelled THEN "over" ELSE "connect"]
  /\ files' = kept
  /\ UNCHANGED <<entry, download, inRoom, room, wanted, shadowed, commands, restarts>>

\* A failed download is not kept for the next hold.
Resolved(s) ==
  /\ run[s].pc = "resolve"
  /\ \/ run[s].music = Synth /\ Resolve(s, Synth, files)
     \/ run[s].music # Synth /\ download[run[s].awaits] = "good" /\ Resolve(s, run[s].music, files)
     \/ /\ run[s].music # Synth /\ download[run[s].awaits] = "bad"
        /\ Resolve(s, Synth, Without(run[s].music))

-----------------------------------------------------------------------------
\* Mutant: a session stopped while it joined is not told apart.
ConnectedAnyway(s) ==
  /\ run[s].pc = "connect"
  /\ inRoom' = s
  /\ run' = [run EXCEPT ![s].pc = "publish"]
  /\ UNCHANGED <<entry, download, files, room, wanted, shadowed, commands, restarts>>

\* room.connect: in, with onClosed registered; or straight out again when stopped
\* meanwhile.  The participant of an earlier session is replaced either way, and a room
\* that was deleted is created again by the join (LiveKit's default).
Connected(s) ==
  /\ run[s].pc = "connect"
  /\ inRoom' = s
  /\ run' = [run EXCEPT ![s].pc = IF run[s].cancelled THEN "leave" ELSE "publish"]
  /\ UNCHANGED <<entry, download, files, room, wanted, shadowed, commands, restarts>>

\* connect or publishTrack throws: handle() drops the map entry, whosever it is.
Failed(s) ==
  /\ run[s].pc \in {"connect", "publish"} /\ Forget(s)
  /\ run' = [run EXCEPT ![s].pc = IF @ = "connect" THEN "over" ELSE "silent"]
  /\ UNCHANGED <<download, files, inRoom, room, wanted, commands, restarts>>

\* The track is published and the pump runs until `stopped`.
Published(s) ==
  /\ run[s].pc = "publish" /\ inRoom = s
  /\ run' = [run EXCEPT ![s].pc = "play"]
  /\ UNCHANGED <<entry, download, files, inRoom, room, wanted, shadowed, commands, restarts>>

\* Mutant: a session registers once it plays.
MohStopLate ==
  /\ commands < MaxCommands
  /\ wanted' = FALSE /\ commands' = commands + 1
  /\ IF entry = None \/ run[entry].pc # "play" THEN UNCHANGED <<entry, run, shadowed>>
     ELSE Forget(entry) /\ run' = Cancelled(entry)
  /\ UNCHANGED <<download, files, inRoom, room, restarts>>

\* moh.stop: the session in the map, if any.
MohStop ==
  /\ commands < MaxCommands
  /\ wanted' = FALSE /\ commands' = commands + 1
  /\ IF entry = None THEN UNCHANGED <<entry, run, shadowed>>
     ELSE Forget(entry) /\ run' = Cancelled(entry)
  /\ UNCHANGED <<download, files, inRoom, room, restarts>>

\* room.disconnect() is through.
Left(s) ==
  /\ run[s].pc = "leave"
  /\ run' = [run EXCEPT ![s].pc = "over"]
  /\ inRoom' = IF inRoom = s THEN None ELSE inRoom
  /\ UNCHANGED <<entry, download, files, room, wanted, shadowed, commands, restarts>>

\* RoomEvent.Disconnected of a session that is no longer in the room: onClosed stops
\* it once more, also one that is leaving.
Closed(s) ==
  /\ run[s].pc \in {"publish", "play", "leave", "silent"} /\ inRoom # s
  /\ Forget(s)
  /\ run' = [Cancelled(s) EXCEPT ![s].pc = "over"]
  /\ UNCHANGED <<download, files, inRoom, room, wanted, commands, restarts>>

\* The call ends: Flow.end deletes the room, and no command follows.
RoomDeleted ==
  /\ room
  /\ room' = FALSE /\ inRoom' = None
  /\ UNCHANGED <<entry, run, download, files, wanted, shadowed, commands, restarts>>

\* The worker stops (shutdown ends every session) or dies, and starts anew; LiveKit
\* drops its participants.  A command in between is lost.
Restart ==
  /\ restarts < MaxRestarts /\ restarts' = restarts + 1
  /\ entry' = None /\ inRoom' = None /\ files' = <<>>
  /\ run' = [s \in Sessions |-> IF run[s].pc = "fresh" THEN run[s] ELSE [Fresh EXCEPT !.pc = "over"]]
  /\ download' = [s \in Sessions |-> "none"]
  /\ UNCHANGED <<room, wanted, shadowed, commands>>

SessionStep(s) ==
  Downloaded(s) \/ Resolved(s) \/ Connected(s) \/ Published(s) \/ Left(s) \/ Closed(s)

MusicNext ==
  \/ \E s \in Sessions : SessionStep(s) \/ Failed(s)
  \/ \E s \in Sessions, f \in Files \cup {Synth} : MohStart(s, f)
  \/ MohStop \/ RoomDeleted \/ Restart

MusicSpec == MusicInit /\ [][MusicNext]_musicVars

\* Downloads, joins and departures end, one way or the other.
MusicFairness == \A s \in Sessions : WF_musicVars(SessionStep(s) \/ Failed(s))

-----------------------------------------------------------------------------
MusicTypeOK ==
  /\ entry \in Sessions \cup {None} /\ inRoom \in Sessions \cup {None}
  /\ run \in [Sessions -> [pc: {"fresh", "resolve", "connect", "publish", "play", "silent",
                                "leave", "over"},
                           cancelled: BOOLEAN, music: Files \cup {Synth},
                           awaits: Sessions \cup {None}, loop: Files \cup {Synth}]]
  /\ download \in [Sessions -> {"none", "pending", "good", "bad"}]
  /\ Len(files) <= MaxFiles

Playing(s) == run[s].pc = "play" /\ inRoom = s

\* Music that plays can be stopped: its session is the one moh.stop would find, unless
\* an older session's stop, failure or disconnect deleted the entry of the newer one
\* (worker.ts:62 and 103, which delete by call id); a session stopped while it joined
\* or published never plays.
MusicIsStoppable == \A s \in Sessions : Playing(s) => entry = s \/ shadowed

\* After a moh.stop the room falls silent, whatever the session was waiting for, unless
\* the customer is put on hold again or the entry had been deleted (worker.ts:56).
StopIsHeeded ==
  ~wanted ~> (\A s \in Sessions : ~Playing(s)) \/ wanted \/ shadowed
==============================================================================
