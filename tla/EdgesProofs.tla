----------------------------- MODULE EdgesProofs -----------------------------
(***************************************************************************)
(* The parts at the edges, side by side as the run of MCEdges has them:    *)
(* what is proved of each part on its own holds of the whole.              *)
(***************************************************************************)
EXTENDS MCEdges, SelectionProofs, WorkerProofs, DeskProofs, BrowserProofs

\* A step moves one part, by a step of its own, and no other.
LEMMA EdgesStep ==
  ASSUME [EdgesNext]_edgesVars
  PROVE  /\ [MusicNext]_musicVars /\ [WavNext]_wavVars /\ [ButtonNext]_buttonVars
         /\ [JobNext]_jobVars /\ [SocketsNext]_socketVars /\ [DeskNext]_deskVars
         /\ [AudioNext]_audioVars /\ [WorkNext]_workVars /\ [ViewNext]_viewVars
         /\ [TeamNext]_teamVars /\ [SelectNext]_selectVars
<1>1. [MusicNext]_musicVars
  BY DEF EdgesNext, edgesVars
<1>2. [WavNext]_wavVars
  BY DEF EdgesNext, edgesVars
<1>3. [ButtonNext]_buttonVars
  BY DEF EdgesNext, edgesVars
<1>4. [JobNext]_jobVars
  BY DEF EdgesNext, edgesVars
<1>5. [SocketsNext]_socketVars
  BY DEF EdgesNext, edgesVars
<1>6. [DeskNext]_deskVars
  BY DEF EdgesNext, edgesVars
<1>7. [AudioNext]_audioVars
  BY DEF EdgesNext, edgesVars
<1>8. [WorkNext]_workVars
  BY DEF EdgesNext, edgesVars
<1>9. [ViewNext]_viewVars
  BY DEF EdgesNext, edgesVars
<1>10. [TeamNext]_teamVars
  BY DEF EdgesNext, edgesVars
<1>11. [SelectNext]_selectVars
  BY DEF EdgesNext, edgesVars
<1> QED
  BY <1>1, <1>2, <1>3, <1>4, <1>5, <1>6, <1>7, <1>8, <1>9, <1>10, <1>11

\* A behaviour of the whole is one of every part: they share no state, and a part that
\* rests stutters.
THEOREM EdgesRefine ==
  EdgesSpec => /\ MusicSpec /\ WavSpec /\ ButtonSpec /\ JobSpec /\ SocketsSpec /\ DeskSpec
               /\ AudioSpec /\ WorkSpec /\ ViewSpec /\ TeamSpec /\ SelectSpec
<1>1. EdgesInit => /\ MusicInit /\ WavInit /\ ButtonInit /\ JobInit /\ SocketsInit /\ DeskInit
                   /\ AudioInit /\ WorkInit /\ ViewInit /\ TeamInit /\ SelectInit
  BY DEF EdgesInit
<1> QED
  BY <1>1, EdgesStep, PTL DEF EdgesSpec, MusicSpec, WavSpec, ButtonSpec, JobSpec, SocketsSpec,
     DeskSpec, AudioSpec, WorkSpec, ViewSpec, TeamSpec, SelectSpec

\* Whatever part runs keeps its variables in their types.
THEOREM EdgesTypeHolds == EdgesSpec => []EdgesTypeOK
<1>1. ButtonInv => ButtonTypeOK
  <2>1. Labels = [kind: {"idle", "connecting", "waiting", "in_call", "ended", "error"},
                  with: {"nobody", "ai", "human"}, muted: BOOLEAN]
    BY DEF Labels
  <2> QED
    BY <2>1 DEF ButtonInv, ButtonTypes, ButtonTypeOK
<1>2. JobInv => JobTypeOK
  BY DEF JobInv
<1>3. SocketsInv => SocketsTypeOK
  BY DEF SocketsInv
<1>4. AudioInv => AudioTypeOK
  BY DEF AudioInv
<1>5. WorkInv => WorkTypeOK
  BY DEF WorkInv, WorkTypes, WorkTypeOK, WorkSteps, WorkPcs
<1>6. TeamInv => TeamTypeOK
  BY DEF TeamInv
<1>7. MusicTypeOK /\ ButtonTypeOK /\ JobTypeOK /\ SocketsTypeOK /\ DeskTypeOK /\ AudioTypeOK
      /\ WorkTypeOK /\ ViewTypeOK /\ TeamTypeOK /\ SelectTypeOK => EdgesTypeOK
  BY DEF EdgesTypeOK
<1> QED
  BY <1>1, <1>2, <1>3, <1>4, <1>5, <1>6, <1>7, EdgesRefine, MusicTypeHolds, ButtonInvariant,
     JobInvariant, SocketsInvariant, DeskTypeHolds, AudioInvariant, WorkInvariant, ViewTypeHolds,
     TeamInvariant, SelectTypeHolds, PTL

\* And what each part promises on its own, it keeps beside the others.
THEOREM EdgesSafety ==
  EdgesSpec => []( /\ MusicIsStoppable /\ CacheIsSound /\ ReadsItsData /\ RosterAgrees
                   /\ MicIsShown /\ DialogShowsRing /\ AudioFollowsHold
                   /\ PresenceMatches /\ EgressIsKnown /\ TranscriptIsWhole /\ TeamIsShown
                   /\ TagsSurvive /\ TurnsAreShared )
  BY EdgesRefine, MusicIsStoppableHolds, CacheIsSoundHolds, ReadsItsDataHolds, RosterAgreesHolds,
     MicIsShownHolds, DialogShowsRingHolds, AudioFollowsHoldHolds, PresenceMatchesHolds,
     EgressIsKnownHolds, TranscriptIsWholeHolds, TeamIsShownHolds, TagsSurviveHolds,
     TurnsAreSharedHolds, PTL
=============================================================================
