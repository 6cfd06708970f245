------------------------------- MODULE CallView -------------------------------
(***************************************************************************)
(* The live transcript of a call page: segments are stored and announced   *)
(* by routes/internal.ts, reach subscribed desks through the bus and       *)
(* ws.ts, are kept by the reducer of store.ts, and are merged with the     *)
(* fetched rows by pages/CallPage.tsx.                                     *)
(*                                                                         *)
(* A segment is told from another by what is said and by whom (the merge's *)
(* key); the order of the list is left out, so lists are bags.             *)
(***************************************************************************)
EXTENDS Naturals

CONSTANTS
  Texts,       \* what may be said
  MaxSaid,     \* bound: segments of the call
  MaxFetches,  \* bound: times the detail is fetched
  MaxCuts      \* bound: times the socket drops

ASSUME CallViewAssumption == {MaxSaid, MaxFetches, MaxCuts} \subseteq Nat

VARIABLES
  stored,     \* transcript_segment rows of the call
  published,  \* segments the API has yet to deliver
  listening,  \* the message `subscribe`: queued, sent, heard (by the socket's handler), or gone
  onSocket,   \* segment frames on the desk's socket
  shownLive,       \* DeskState.transcripts of the call
  fetching,   \* the detail under way, or NotFetching
  detail,     \* the rows fetched last
  unheard,    \* history: segments that never reached the desk as a frame
  said, fetches, cuts

viewVars == <<stored, published, listening, onSocket, shownLive, fetching, detail, unheard,
              said, fetches, cuts>>

Nothing == [x \in Texts |-> 0]
NotFetching == "no"
Requested == "requested"

ViewInit ==
  /\ stored = Nothing /\ published = Nothing /\ onSocket = Nothing /\ shownLive = Nothing
  /\ listening \in {"queued", "sent"} /\ fetching = <<Requested, Nothing>>
  /\ detail = Nothing /\ unheard = Nothing
  /\ said = 0 /\ fetches = 1 /\ cuts = 0

-----------------------------------------------------------------------------
\* POST /transcript: the row, then the event.
Say(x) ==
  /\ said < MaxSaid /\ said' = said + 1
  /\ stored' = [stored EXCEPT ![x] = @ + 1] /\ published' = [published EXCEPT ![x] = @ + 1]
  /\ UNCHANGED <<listening, onSocket, shownLive, fetching, detail, unheard, fetches, cuts>>

\* toSubscribers: the sockets that subscribed by now.
Deliver(x) ==
  /\ published[x] > 0 /\ published' = [published EXCEPT ![x] = @ - 1]
  /\ IF listening = "heard"
     THEN onSocket' = [onSocket EXCEPT ![x] = @ + 1] /\ UNCHANGED unheard
     ELSE unheard' = [unheard EXCEPT ![x] = @ + 1] /\ UNCHANGED onSocket
  /\ UNCHANGED <<stored, listening, shownLive, fetching, detail, said, fetches, cuts>>

HearSubscribe ==
  /\ listening = "sent" /\ listening' = "heard"
  /\ UNCHANGED <<stored, published, onSocket, shownLive, fetching, detail, unheard, said, fetches, cuts>>

\* The reducer appends.
HearSegment(x) ==
  /\ onSocket[x] > 0 /\ onSocket' = [onSocket EXCEPT ![x] = @ - 1]
  /\ shownLive' = [shownLive EXCEPT ![x] = @ + 1]
  /\ UNCHANGED <<stored, published, listening, fetching, detail, unheard, said, fetches, cuts>>

\* The socket opens (again): what was queued is sent, a subscription is not renewed.
SocketUp ==
  /\ listening = "queued" /\ listening' = "sent"
  /\ UNCHANGED <<stored, published, onSocket, shownLive, fetching, detail, unheard, said, fetches, cuts>>

\* The socket drops, with its subscription and what is on it; the transcript is kept.
SocketCut ==
  /\ listening \in {"sent", "heard"} /\ cuts < MaxCuts /\ cuts' = cuts + 1
  /\ listening' = "gone" /\ onSocket' = Nothing
  /\ unheard' = [x \in Texts |-> unheard[x] + onSocket[x]]
  /\ UNCHANGED <<stored, published, shownLive, fetching, detail, said, fetches>>

\* Each call.updated invalidates the query: a fetch under way is given up for a new one.
Refetch ==
  /\ fetches < MaxFetches /\ fetches' = fetches + 1
  /\ fetching' = <<Requested, Nothing>>
  /\ UNCHANGED <<stored, published, listening, onSocket, shownLive, detail, unheard, said, cuts>>

\* callDetail.
ReadRows ==
  /\ fetching[1] = Requested /\ fetching' = <<"read", stored>>
  /\ UNCHANGED <<stored, published, listening, onSocket, shownLive, detail, unheard, said, fetches, cuts>>

ShowRows ==
  /\ fetching[1] = "read" /\ detail' = fetching[2] /\ fetching' = <<NotFetching, Nothing>>
  /\ UNCHANGED <<stored, published, listening, onSocket, shownLive, unheard, said, fetches, cuts>>

ViewNext ==
  \/ \E x \in Texts : Say(x) \/ Deliver(x) \/ HearSegment(x)
  \/ HearSubscribe \/ SocketUp \/ SocketCut \/ Refetch \/ ReadRows \/ ShowRows

ViewSpec == ViewInit /\ [][ViewNext]_viewVars

-----------------------------------------------------------------------------
\* Mutant: one stored row cancels every live segment like it.
UncaughtOnce(x) == IF detail[x] > 0 THEN 0 ELSE shownLive[x]

\* Each live segment cancels one identical stored row; the rest are the tail.
Uncaught(x) == IF shownLive[x] > detail[x] THEN shownLive[x] - detail[x] ELSE 0

\* What the page lists.
Transcript(x) == detail[x] + Uncaught(x)

ViewTypeOK ==
  /\ \A b \in {stored, published, onSocket, shownLive, detail, unheard} : b \in [Texts -> 0..MaxSaid]
  /\ listening \in {"queued", "sent", "heard", "gone"}

\* The page never lists a segment twice, however frames and fetches overlap; and once
\* every segment is delivered, one that was said as often as its frames arrived is listed
\* that often, whatever the last fetch saw.  Exceptions, until the next fetch: what was
\* said before the subscription, or after a reconnect, which does not subscribe again
\* (CallPage.tsx:61); and a live segment that repeats such an unheard one, which cancels
\* the older row (CallPage.tsx:98).
TranscriptIsWhole == \A x \in Texts :
  /\ Transcript(x) <= stored[x]
  /\ published[x] = 0 /\ onSocket[x] = 0 /\ unheard[x] = 0 => Transcript(x) = stored[x]
==============================================================================
