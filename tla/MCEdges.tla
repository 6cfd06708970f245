------------------------------- MODULE MCEdges -------------------------------
(***************************************************************************)
(* The parts at the edges of the system, checked side by side: a behaviour *)
(* runs one of them while the others rest in their initial states.  They   *)
(* share no state; what one meets of another (frames, requests, a deleted  *)
(* room) is an action of its own.                                          *)
(***************************************************************************)
EXTENDS HoldMusic, Wav, CallButton, AIJob, DeskSockets, DeskOffers, DeskAudio, CallWork, CallView,
        TeamView, Selection, TLC

CONSTANTS
  Parts,  \* the parts to check
  i1, i2, k1, k2, c1, h1, h2, w1, w2, w3, f1, f2, x1, x2, r1, r2, t1, t2, d1, d2, a1, a2, c2, b1, b2

VARIABLE part

Fmt == [bits |-> 16, channels |-> 1, rate |-> 3, known |-> TRUE]
MCFormats == {Fmt, [Fmt EXCEPT !.bits = 24], [Fmt EXCEPT !.bits = 8, !.channels = 2, !.rate = 2],
              [Fmt EXCEPT !.bits = 12], [Fmt EXCEPT !.channels = 0], [Fmt EXCEPT !.rate = 5]}

Level(billing, de) == [k \in {"billing", "lang:de"} |-> IF k = "billing" THEN billing ELSE de]
PlainQueue == [algorithm |-> "round_robin", required |-> Level(0, 0), languageRouting |-> TRUE,
               relaxes |-> TRUE]
MCConfigs == {[PlainQueue EXCEPT !.algorithm = g] : g \in RoutingAlgorithm}
             \cup {[PlainQueue EXCEPT !.required = Level(2, 0), !.relaxes = FALSE]}
MCSeat == (b1 :> 1) @@ (b2 :> 2)
MCRosters == {(b1 :> Level(2, 0)) @@ (b2 :> Level(1, 1))}

edgesVars == <<musicVars, wavVars, buttonVars, jobVars, socketVars, deskVars, audioVars, workVars,
               viewVars, teamVars, selectVars, part>>

EdgesInit ==
  /\ MusicInit /\ WavInit /\ ButtonInit /\ JobInit /\ SocketsInit /\ DeskInit /\ AudioInit
  /\ WorkInit /\ ViewInit /\ TeamInit /\ SelectInit
  /\ part \in Parts
  /\ part # "job" => behavior = "leave"
  /\ part # "wav" => decoder.size = 46
  /\ part # "view" => listening = "sent"
  /\ part # "team" => required
  /\ part # "selection" => config = PlainQueue

EdgesNext ==
  \/ /\ part = "music" /\ MusicNext
     /\ UNCHANGED <<wavVars, buttonVars, jobVars, socketVars, deskVars, audioVars,
                   workVars, viewVars, teamVars, selectVars, part>>
  \/ /\ part = "wav" /\ WavNext
     /\ UNCHANGED <<musicVars, buttonVars, jobVars, socketVars, deskVars, audioVars,
                   workVars, viewVars, teamVars, selectVars, part>>
  \/ /\ part = "button" /\ ButtonNext
     /\ UNCHANGED <<musicVars, wavVars, jobVars, socketVars, deskVars, audioVars, workVars,
                   viewVars, teamVars, selectVars, part>>
  \/ /\ part = "job" /\ JobNext
     /\ UNCHANGED <<musicVars, wavVars, buttonVars, socketVars, deskVars, audioVars,
                   workVars, viewVars, teamVars, selectVars, part>>
  \/ /\ part = "sockets" /\ SocketsNext
     /\ UNCHANGED <<musicVars, wavVars, buttonVars, jobVars, deskVars, audioVars, workVars,
                   viewVars, teamVars, selectVars, part>>
  \/ /\ part = "offers" /\ DeskNext
     /\ UNCHANGED <<musicVars, wavVars, buttonVars, jobVars, socketVars, audioVars,
                   workVars, viewVars, teamVars, selectVars, part>>
  \/ /\ part = "audio" /\ AudioNext
     /\ UNCHANGED <<musicVars, wavVars, buttonVars, jobVars, socketVars, deskVars,
                   workVars, viewVars, teamVars, selectVars, part>>
  \/ /\ part = "work" /\ WorkNext
     /\ UNCHANGED <<musicVars, wavVars, buttonVars, jobVars, socketVars, deskVars,
                   audioVars, viewVars, teamVars, selectVars, part>>
  \/ /\ part = "view" /\ ViewNext
     /\ UNCHANGED <<musicVars, wavVars, buttonVars, jobVars, socketVars, deskVars,
                   audioVars, workVars, teamVars, selectVars, part>>
  \/ /\ part = "team" /\ TeamNext
     /\ UNCHANGED <<musicVars, wavVars, buttonVars, jobVars, socketVars, deskVars,
                   audioVars, workVars, viewVars, selectVars, part>>
  \/ /\ part = "selection" /\ SelectNext
     /\ UNCHANGED <<musicVars, wavVars, buttonVars, jobVars, socketVars, deskVars,
                   audioVars, workVars, viewVars, teamVars, part>>

EdgesSpec == EdgesInit /\ [][EdgesNext]_edgesVars /\ MusicFairness /\ JobFairness

\* The part that runs keeps its variables in their types: sessions, sockets, desks and
\* requests are where their code can be.
EdgesTypeOK ==
  /\ part = "music" => MusicTypeOK
  /\ part = "button" => ButtonTypeOK
  /\ part = "job" => JobTypeOK
  /\ part = "sockets" => SocketsTypeOK
  /\ part = "offers" => DeskTypeOK
  /\ part = "audio" => AudioTypeOK
  /\ part = "work" => WorkTypeOK
  /\ part = "view" => ViewTypeOK
  /\ part = "team" => TeamTypeOK
  /\ part = "selection" => SelectTypeOK
==============================================================================
