------------------------------- MODULE Accounts -------------------------------
(***************************************************************************)
(* Who belongs to which contact center: the first sign-in of a user        *)
(* (apps/api/src/auth.ts), the bootstrap that turns invites into           *)
(* memberships and gives a platform admin a tenant (services/tenants.ts),  *)
(* and the two requests of the web desk that prepare it (routes/admin.ts). *)
(*                                                                         *)
(* No statement of these chains is in a transaction: a request in flight   *)
(* is a record `signin[s]` of its local variables, its `pc` names the next *)
(* SQL statement, and requests of several processes interleave between     *)
(* statements.  Crash loses a request with what it had not yet written.    *)
(*                                                                         *)
(* Left out: the session cookies and OAuth exchange of Better Auth, an     *)
(* external library that calls the hook modelled here once it has inserted *)
(* the user; and the cache of devAuth, which only saves the SELECT.        *)
(***************************************************************************)
EXTENDS Naturals, FiniteSets

CONSTANTS
  People,      \* people who may sign in; each has one email
  Admins,      \* those whose email is in ADMIN_EMAILS
  Tenants,     \* ids of tenants, as randomUUID would give them
  SignIns,     \* slots for requests in flight
  Nobody,      \* SQL null: no role, no person, no tenant
  MaxCrashes,  \* bound: processes that die with a request in flight
  MaxInvites   \* bound: invites sent

ASSUME AccountsAssumption ==
  /\ Admins \subseteq People
  /\ Nobody \notin People \cup Tenants \cup {"agent", "supervisor"}
  /\ MaxCrashes \in Nat /\ MaxInvites \in Nat

VARIABLES
  users,    \* rows of `user`
  tenants,  \* rows of `tenant`: the person it is named after, or Nobody when absent
  staffed,  \* rows of `queue` and `queue_member` of the tenant's support queue
  member,   \* rows of `membership`: the role, or Nobody
  invite,   \* rows of `invite`: the role and whether it is open (accepted_at is null)
  signin,   \* per slot, the request in flight
  crashes, invites

accountVars == <<users, tenants, staffed, member, invite, signin, crashes, invites>>

Roles == {"agent", "supervisor"}
NoInvite == [role |-> Nobody, open |-> FALSE]

\* A request in flight: the person, the invites read and not yet handled, the
\* invite being handled, the tenant being created, and whether POST /tenants
\* (not the bootstrap) creates it.
Idle == [pc |-> "idle", who |-> Nobody, pending |-> {}, at |-> Nobody, own |-> FALSE]

InviteRows == {[tenant |-> t, role |-> r] : t \in Tenants, r \in Roles}

Request == [pc: {"idle", "find", "insert", "invites", "join", "mark", "count",
                 "tenant", "queue", "owner", "staff"},
            who: People \cup {Nobody}, pending: SUBSET InviteRows,
            at: Tenants \cup {Nobody}, own: BOOLEAN]

MemberOf(u) == {t \in Tenants : member[t][u] # Nobody}

\* May the person change the tenant (permission tenant:write)?
Authorized(u, t) == member[t][u] = "supervisor"

AccountsInit ==
  /\ users = {} /\ invite = [t \in Tenants |-> [u \in People |-> NoInvite]]
  /\ tenants = [t \in Tenants |-> Nobody]
  /\ staffed = [t \in Tenants |-> "none"]
  /\ member = [t \in Tenants |-> [u \in People |-> Nobody]]
  /\ signin = [s \in SignIns |-> Idle]
  /\ crashes = 0 /\ invites = 0

-----------------------------------------------------------------------------
\* The sign-in: resolve() of auth.ts, or Better Auth and its user.create.after.

Goto(s, pc) == signin' = [signin EXCEPT ![s].pc = pc]
Finish(s) == signin' = [signin EXCEPT ![s] = Idle]

SignIn(s, u) ==
  /\ signin[s] = Idle
  /\ signin' = [signin EXCEPT ![s] = [Idle EXCEPT !.pc = "find", !.who = u]]
  /\ UNCHANGED <<users, tenants, staffed, member, invite, crashes, invites>>

\* SELECT the user by email; a user who has a row is not bootstrapped again.
FindUser(s) ==
  /\ signin[s].pc = "find"
  /\ IF signin[s].who \in users THEN Finish(s) ELSE Goto(s, "insert")
  /\ UNCHANGED <<users, tenants, staffed, member, invite, crashes, invites>>

\* INSERT: the unique email refuses the second of two first sign-ins (a 500).
InsertUser(s) ==
  /\ signin[s].pc = "insert"
  /\ IF signin[s].who \in users
     THEN Finish(s) /\ UNCHANGED users
     ELSE users' = users \cup {signin[s].who} /\ Goto(s, "invites")
  /\ UNCHANGED <<tenants, staffed, member, invite, crashes, invites>>

\* bootstrapUser: SELECT the open invites of the email.
OpenInvites(u) ==
  {[tenant |-> t, role |-> invite[t][u].role] : t \in {x \in Tenants : invite[x][u].open}}

AfterInvites(s, rest) ==
  signin' = [signin EXCEPT ![s].pending = rest, ![s].at = Nobody,
                           ![s].pc = IF rest = {} THEN "count" ELSE "join"]

ReadInvites(s) ==
  /\ signin[s].pc = "invites"
  /\ AfterInvites(s, OpenInvites(signin[s].who))
  /\ UNCHANGED <<users, tenants, staffed, member, invite, crashes, invites>>

\* Mutant: the invite is marked accepted first, the membership is never written
\* when the process dies in between.
JoinTenantLate(s) ==
  /\ signin[s].pc = "join"
  /\ \E row \in signin[s].pending :
       /\ invite' = [invite EXCEPT ![row.tenant][signin[s].who].open = FALSE]
       /\ signin' = [signin EXCEPT ![s].at = row.tenant, ![s].pc = "mark"]
  /\ UNCHANGED <<users, tenants, staffed, member, crashes, invites>>

\* Mutant: ON CONFLICT DO UPDATE, as createInvite has it.
JoinTenantOver(s) ==
  /\ signin[s].pc = "join"
  /\ \E row \in signin[s].pending :
       /\ member' = [member EXCEPT ![row.tenant][signin[s].who] = row.role]
       /\ signin' = [signin EXCEPT ![s].at = row.tenant, ![s].pc = "mark"]
  /\ UNCHANGED <<users, tenants, staffed, invite, crashes, invites>>

\* INSERT membership ON CONFLICT DO NOTHING, for the next invite read.
JoinTenant(s) ==
  /\ signin[s].pc = "join"
  /\ \E row \in signin[s].pending :
       /\ member' = [member EXCEPT ![row.tenant][signin[s].who] =
                       IF @ = Nobody THEN row.role ELSE @]
       /\ signin' = [signin EXCEPT ![s].at = row.tenant, ![s].pc = "mark"]
  /\ UNCHANGED <<users, tenants, staffed, invite, crashes, invites>>

\* UPDATE invite SET accepted_at, by id: also of an invite re-opened meanwhile.
MarkAccepted(s) ==
  /\ signin[s].pc = "mark"
  /\ invite' = [invite EXCEPT ![signin[s].at][signin[s].who].open = FALSE]
  /\ AfterInvites(s, {row \in signin[s].pending : row.tenant # signin[s].at})
  /\ UNCHANGED <<users, tenants, staffed, member, crashes, invites>>

\* SELECT the memberships: an admin email without any gets a tenant of its own.
CountMemberships(s) ==
  /\ signin[s].pc = "count"
  /\ IF signin[s].who \in Admins /\ MemberOf(signin[s].who) = {}
     THEN Goto(s, "tenant") ELSE Finish(s)
  /\ UNCHANGED <<users, tenants, staffed, member, invite, crashes, invites>>

-----------------------------------------------------------------------------
\* createTenant: four INSERTs, reached from the bootstrap and from POST /tenants.

\* POST /api/admin/tenants, for platform admins who have signed in.
PostTenant(s, u) ==
  /\ signin[s] = Idle /\ u \in Admins \cap users
  /\ signin' = [signin EXCEPT ![s] = [Idle EXCEPT !.pc = "tenant", !.who = u, !.own = TRUE]]
  /\ UNCHANGED <<users, tenants, staffed, member, invite, crashes, invites>>

InsertTenant(s) ==
  /\ signin[s].pc = "tenant"
  /\ \E t \in Tenants :
       /\ tenants[t] = Nobody
       /\ tenants' = [tenants EXCEPT ![t] = signin[s].who]
       /\ signin' = [signin EXCEPT ![s].at = t, ![s].pc = "queue"]
  /\ UNCHANGED <<users, staffed, member, invite, crashes, invites>>

\* Mutant: the creator is put in the queue, and not in the tenant.
InsertQueueForget(s) ==
  /\ signin[s].pc = "queue"
  /\ staffed' = [staffed EXCEPT ![signin[s].at] = "queue"] /\ Goto(s, "staff")
  /\ UNCHANGED <<users, tenants, member, invite, crashes, invites>>

InsertQueue(s) ==
  /\ signin[s].pc = "queue"
  /\ staffed' = [staffed EXCEPT ![signin[s].at] = "queue"] /\ Goto(s, "owner")
  /\ UNCHANGED <<users, tenants, member, invite, crashes, invites>>

InsertOwner(s) ==
  /\ signin[s].pc = "owner"
  /\ member' = [member EXCEPT ![signin[s].at][signin[s].who] = "supervisor"]
  /\ Goto(s, "staff")
  /\ UNCHANGED <<users, tenants, staffed, invite, crashes, invites>>

StaffQueue(s) ==
  /\ signin[s].pc = "staff"
  /\ staffed' = [staffed EXCEPT ![signin[s].at] = "member"] /\ Finish(s)
  /\ UNCHANGED <<users, tenants, member, invite, crashes, invites>>

-----------------------------------------------------------------------------
\* One row per tenant and email: inviting again replaces the role and re-opens it.
CreateInvite(t, u, role) == invite' = [invite EXCEPT ![t][u] = [role |-> role, open |-> TRUE]]

\* POST /api/admin/invites, by a supervisor of the tenant.
Invite(t, by, u, role) ==
  /\ invites < MaxInvites /\ Authorized(by, t) /\ CreateInvite(t, u, role)
  /\ invites' = invites + 1
  /\ UNCHANGED <<users, tenants, staffed, member, signin, crashes>>

\* The process of a request dies.
Crash(s) ==
  /\ signin[s] # Idle /\ crashes < MaxCrashes
  /\ Finish(s) /\ crashes' = crashes + 1
  /\ UNCHANGED <<users, tenants, staffed, member, invite, invites>>

Statement(s) ==
  \/ FindUser(s) \/ InsertUser(s) \/ ReadInvites(s) \/ JoinTenant(s) \/ MarkAccepted(s)
  \/ CountMemberships(s) \/ InsertTenant(s) \/ InsertQueue(s) \/ InsertOwner(s)
  \/ StaffQueue(s)

AccountsNext ==
  \/ \E s \in SignIns : Statement(s) \/ Crash(s)
  \/ \E s \in SignIns, u \in People : SignIn(s, u) \/ PostTenant(s, u)
  \/ \E t \in Tenants, by \in People, u \in People, role \in Roles : Invite(t, by, u, role)

\* A request in flight runs on, unless its process dies.
AccountsFairness == \A s \in SignIns : WF_accountVars(Statement(s))

AccountsSpec == AccountsInit /\ [][AccountsNext]_accountVars

-----------------------------------------------------------------------------
AccountsTypeOK ==
  /\ users \subseteq People
  /\ tenants \in [Tenants -> People \cup {Nobody}]
  /\ staffed \in [Tenants -> {"none", "queue", "member"}]
  /\ member \in [Tenants -> [People -> Roles \cup {Nobody}]]
  /\ invite \in [Tenants -> [People -> [role: Roles \cup {Nobody}, open: BOOLEAN]]]
  /\ signin \in [SignIns -> Request]
  /\ crashes \in Nat /\ invites \in Nat

\* An invite that counts as accepted has made its person a member: whatever dies
\* between the two statements of bootstrapUser, and however requests interleave,
\* no invite is used up for nothing (services/tenants.ts, bootstrapUser).
AcceptedIsMember ==
  \A t \in Tenants, u \in People :
    invite[t][u] # NoInvite /\ ~invite[t][u].open => member[t][u] # Nobody

\* A membership, once written, keeps its role: a later invite, sign-in or POST
\* never demotes a supervisor or promotes an agent on the way (ON CONFLICT DO
\* NOTHING), so the role authorize() read is still the role when the handler runs.
RoleIsStable ==
  [][\A t \in Tenants, u \in People :
       member[t][u] # Nobody => member'[t][u] = member[t][u]]_accountVars

\* A platform admin who signs in for the first time ends up a member somewhere,
\* by invite or by a tenant of their own, unless a process died on the way or the
\* ids ran out (a bound).
AdminsAreSettled ==
  \A u \in Admins :
    u \in users ~> \/ MemberOf(u) # {} \/ crashes > 0
                   \/ \A t \in Tenants : tenants[t] # Nobody
==============================================================================
