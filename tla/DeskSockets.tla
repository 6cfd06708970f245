------------------------------ MODULE DeskSockets ------------------------------
(***************************************************************************)
(* The sockets of one user's desks on several API instances, and the       *)
(* presence row they share (apps/api/src/ws.ts; connect, disconnect and    *)
(* the heartbeat of routing.ts; bus.ts, which takes a forced logout to     *)
(* every instance).  The upgrade handler awaits the session and then the   *)
(* upsert of the row; a socket may close in either gap.                    *)
(*                                                                         *)
(* Instances read no clock here: a row is stale when its instance is dead, *)
(* since a live one's tick renews its rows 30 times before STALE_MS.       *)
(***************************************************************************)
EXTENDS Naturals, FiniteSets

CONSTANTS
  Instances,  \* instance ids; a process that restarts has a new one
  Sockets,    \* sockets, one per upgrade
  NoRow,      \* no presence
  Calls       \* calls a desk may subscribe to

ASSUME DeskSocketsAssumption == NoRow \notin Instances

VARIABLES
  up,          \* instances that run
  socket,      \* per socket: where its handler is, its instance, is it open?
  conns,       \* DeskSockets.conns of each instance
  presence,    \* the row's instance_id, or NoRow
  deletes,     \* disconnect() calls whose DELETE is under way, by instance, each with
               \* the user's other sockets there when it was issued (history)
  asked,       \* calls the desk sent `subscribe` for
  subscribed,  \* conn.subscribed
  logouts,     \* instances a `logout` message is on its way to
  missed,      \* history: sockets that closed before the handler for it was set
  crossed      \* history: a DELETE ran while another socket of the user was served

socketVars == <<up, socket, conns, presence, deletes, asked, subscribed, logouts, missed, crossed>>

Unused == [pc |-> "unused", on |-> NoRow, open |-> FALSE]

SocketsInit ==
  /\ up = Instances /\ socket = [s \in Sockets |-> Unused]
  /\ conns = [i \in Instances |-> {}] /\ presence = NoRow
  /\ deletes = {} /\ asked = [s \in Sockets |-> {}] /\ subscribed = [s \in Sockets |-> {}]
  /\ logouts = {} /\ missed = {} /\ crossed = FALSE

-----------------------------------------------------------------------------
\* The upgrade handler.  Sockets are alike: the first that is left is opened.

Upgrade(s, i) ==
  /\ socket[s] = Unused /\ s = CHOOSE x \in Sockets : socket[x] = Unused
  /\ i \in up
  /\ socket' = [socket EXCEPT ![s] = [pc |-> "session", on |-> i, open |-> TRUE]]
  /\ UNCHANGED <<up, conns, presence, deletes, asked, subscribed, logouts, missed, crossed>>

\* The session and membership are there, or the socket is closed with 4401.
Authenticated(s) ==
  /\ socket[s].pc = "session"
  /\ \/ /\ socket' = [socket EXCEPT ![s].pc = "connect"]
        /\ conns' = [conns EXCEPT ![socket[s].on] = @ \cup {s}]
        /\ missed' = IF socket[s].open THEN missed ELSE missed \cup {s}
     \/ /\ socket' = [socket EXCEPT ![s].pc = "refused", ![s].open = FALSE]
        /\ UNCHANGED <<conns, missed>>
  /\ UNCHANGED <<up, presence, deletes, asked, subscribed, logouts, crossed>>

\* Mutant: the messages that came early are dropped.
ServedFresh(s) == subscribed

\* The early messages are replayed, in order.
Served(s) == [subscribed EXCEPT ![s] = asked[s]]

\* connect(): insert, or take the row over to this instance.
Upsert(s) ==
  /\ socket[s].pc = "connect"
  /\ presence' = socket[s].on
  /\ socket' = [socket EXCEPT ![s].pc = "serve"]
  /\ subscribed' = Served(s)
  /\ crossed' = (crossed \/ (~socket[s].open /\ \A d \in deletes : d.on # socket[s].on))
  /\ UNCHANGED <<up, conns, deletes, asked, logouts, missed>>

\* A `subscribe` of the desk: kept until the handler is set.
Subscribe(s, c) ==
  /\ socket[s].open
  /\ asked' = [asked EXCEPT ![s] = @ \cup {c}]
  /\ subscribed' = IF socket[s].pc = "serve" THEN [subscribed EXCEPT ![s] = @ \cup {c}]
                   ELSE subscribed
  /\ UNCHANGED <<up, socket, conns, presence, deletes, logouts, missed, crossed>>

-----------------------------------------------------------------------------
\* The close handler, which is set only after the session is resolved: the last
\* socket here drops the presence.

\* Mutant: each socket that closes drops the presence.
LastAny(s) == TRUE

LastHere(s) == conns[socket[s].on] \ {s} = {}

Drop(i, rest) == deletes \cup {[on |-> i, beside |-> rest]}

Closes(s) ==
  /\ socket' = [socket EXCEPT ![s].open = FALSE]
  /\ IF socket[s].pc = "session" THEN UNCHANGED <<conns, deletes>>
     ELSE /\ conns' = [conns EXCEPT ![socket[s].on] = @ \ {s}]
          /\ deletes' = IF LastHere(s) THEN Drop(socket[s].on, conns[socket[s].on] \ {s}) ELSE deletes

Close(s) ==
  /\ socket[s].open /\ Closes(s)
  /\ UNCHANGED <<up, presence, asked, subscribed, logouts, missed, crossed>>

Serving == {s \in Sockets : socket[s].open /\ socket[s].pc = "serve"}

\* disconnect(): DELETE by user id, whoever has the row by now.
Delete(d) ==
  /\ deletes' = deletes \ {d} /\ presence' = NoRow
  /\ crossed' = (crossed \/ Serving \ d.beside # {})
  /\ UNCHANGED <<up, socket, conns, asked, subscribed, logouts, missed>>

\* A supervisor logs the agent out: the bus tells every instance.
Logout ==
  /\ logouts = {} /\ Serving # {} /\ logouts' = up
  /\ UNCHANGED <<up, socket, conns, presence, deletes, asked, subscribed, missed, crossed>>

CloseUser(i) ==
  /\ i \in logouts /\ logouts' = logouts \ {i}
  /\ socket' = [s \in Sockets |-> IF s \in conns[i] THEN [socket[s] EXCEPT !.open = FALSE]
                                  ELSE socket[s]]
  /\ conns' = [conns EXCEPT ![i] = {s \in @ : s \in missed}]
  /\ deletes' = IF conns[i] # {} /\ conns[i] \cap missed = {} THEN Drop(i, {}) ELSE deletes
  /\ UNCHANGED <<up, presence, asked, subscribed, missed, crossed>>

-----------------------------------------------------------------------------
\* An instance dies with its sockets; the tick of another sweeps its rows.

Crash(i) ==
  /\ i \in up /\ up # {i} /\ up' = up \ {i}
  /\ conns' = [conns EXCEPT ![i] = {}]
  /\ socket' = [s \in Sockets |-> IF socket[s].on = i
                                  THEN [socket[s] EXCEPT !.open = FALSE, !.pc = "refused"]
                                  ELSE socket[s]]
  /\ deletes' = {d \in deletes : d.on # i} /\ logouts' = logouts \ {i}
  /\ UNCHANGED <<presence, asked, subscribed, missed, crossed>>

Sweep ==
  /\ presence \notin up \cup {NoRow}
  /\ presence' = NoRow /\ crossed' = (crossed \/ Serving # {})
  /\ UNCHANGED <<up, socket, conns, deletes, asked, subscribed, logouts, missed>>

SocketsNext ==
  \/ \E s \in Sockets : Authenticated(s) \/ Upsert(s) \/ Close(s)
  \/ \E s \in Sockets, i \in Instances : Upgrade(s, i)
  \/ \E s \in Sockets, c \in Calls : Subscribe(s, c)
  \/ \E d \in deletes : Delete(d)
  \/ \E i \in Instances : CloseUser(i) \/ Crash(i)
  \/ Logout \/ Sweep

SocketsSpec == SocketsInit /\ [][SocketsNext]_socketVars

-----------------------------------------------------------------------------
SocketsTypeOK ==
  /\ up \subseteq Instances /\ presence \in Instances \cup {NoRow}
  /\ socket \in [Sockets -> [pc: {"unused", "session", "connect", "serve", "refused"},
                             on: Instances \cup {NoRow}, open: BOOLEAN]]
  /\ conns \in [Instances -> SUBSET Sockets] /\ missed \subseteq Sockets
  /\ deletes \subseteq [on: Instances, beside: SUBSET Sockets] /\ logouts \subseteq Instances

\* Nothing is under way.
Settled ==
  /\ deletes = {} /\ logouts = {} /\ presence \in up \cup {NoRow}
  /\ \A s \in Sockets : socket[s].pc \notin {"session", "connect"}

\* Presence is kept by open desks (ws.ts:125, "presence is dropped only when the user
\* has no other socket left"): once nothing is under way, the user is online exactly
\* when a desk of theirs is served, and a desk hears the calls it asked for.  Known
\* exceptions: a socket that closed before its close handler was set (ws.ts:212), whose
\* row the heartbeat keeps for ever; and a DELETE or an upsert that crossed a newer or
\* an older socket of the user, also of another instance (ws.ts:214).
PresenceMatches ==
  /\ Settled /\ missed = {} /\ ~crossed => (presence # NoRow <=> Serving # {})
  /\ \A s \in Serving : subscribed[s] = asked[s]
==============================================================================
