----------------------------- MODULE AdminProofs -----------------------------
(***************************************************************************)
(* Proofs about the people and the settings of tenants, for any people,    *)
(* tenants, queues and requests: AcceptedIsMember and RoleIsStable of the  *)
(* sign-in, HistoryKept of the admin routes, and what the opening hours    *)
(* cover.                                                                  *)
(***************************************************************************)
EXTENDS MCAdmin, TLAPS

-----------------------------------------------------------------------------
(***************************************************************************)
(* Accounts.  RoleIsStable is not inductive: createTenant writes the owner's *)
(* role without a look at the row.  That it meets no membership follows from *)
(* AccountsInv: nobody can join a tenant under creation, because an invite *)
(* takes a supervisor of that tenant, and there is none yet.               *)
(***************************************************************************)
\* What a request in flight knows: its person, the tenant it works on, and, once a
\* membership is written, that the person has one.
RequestOK(s) ==
  /\ signin[s].pc # "idle" => signin[s].who \in People
  /\ signin[s].pc \in {"mark", "queue", "owner", "staff"} => signin[s].at \in Tenants
  /\ signin[s].pc = "mark" => member[signin[s].at][signin[s].who] # Nobody

\* The request is between the INSERT of a tenant and that of its owner.
Creating(s) == signin[s].pc \in {"queue", "owner"}

Memberless(t) == \A u \in People : member[t][u] = Nobody

\* Nobody has been asked into the tenant.
Uninvited(t) ==
  /\ \A u \in People : invite[t][u] = NoInvite
  /\ \A s \in SignIns : \A row \in signin[s].pending : row.tenant # t

\* A tenant under creation is known to one request and to nobody else.
CreationOK ==
  /\ \A s \in SignIns : Creating(s) =>
       tenants[signin[s].at] # Nobody /\ Memberless(signin[s].at)
  /\ \A s, r \in SignIns : Creating(s) /\ Creating(r) /\ s # r => signin[s].at # signin[r].at
  /\ \A t \in Tenants : tenants[t] = Nobody => Memberless(t)
  /\ \A t \in Tenants : Memberless(t) => Uninvited(t)

OpenHasRole == \A t \in Tenants, u \in People : invite[t][u].open => invite[t][u].role \in Roles

AccountsInv ==
  AccountsTypeOK /\ OpenHasRole /\ (\A s \in SignIns : RequestOK(s)) /\ CreationOK /\ AcceptedIsMember

LEMMA NobodyIsNoRole == Nobody \notin Roles /\ Nobody \notin People /\ Nobody \notin Tenants
  BY AccountsAssumption DEF AccountsAssumption, Roles

-----------------------------------------------------------------------------
\* A step writes at most one request, and each statement its own rows.

\* The state before any step.
LEMMA AccountsInitInv == AccountsInit => AccountsInv
  BY NobodyIsNoRole DEF AccountsInit, AccountsInv, AccountsTypeOK, OpenHasRole, RequestOK, CreationOK,
     AcceptedIsMember, Creating, Memberless, Uninvited, NoInvite, Idle, Request, Roles, InviteRows

SignInPcs == {"idle", "find", "insert", "invites", "join", "mark", "count", "tenant", "queue", "owner",
        "staff"}

\* The ways in which statements change the record of a request.
LEMMA RequestUpdates ==
  ASSUME NEW r \in Request, NEW pc \in SignInPcs
  PROVE  /\ Idle \in Request
         /\ [r EXCEPT !.pc = pc] \in Request
         /\ \A rest \in SUBSET InviteRows : [r EXCEPT !.pending = rest, !.at = Nobody, !.pc = pc] \in Request
         /\ \A t \in Tenants : [r EXCEPT !.at = t, !.pc = pc] \in Request
         /\ \A u \in People : [Idle EXCEPT !.pc = pc, !.who = u] \in Request
         /\ \A u \in People : [Idle EXCEPT !.pc = pc, !.who = u, !.own = TRUE] \in Request
<1>1. Idle \in Request
  BY DEF Idle, Request
<1>2. [r EXCEPT !.pc = pc] \in Request
  BY DEF Request, SignInPcs
<1>3. \A rest \in SUBSET InviteRows : [r EXCEPT !.pending = rest, !.at = Nobody, !.pc = pc] \in Request
  BY DEF Request, SignInPcs
<1>4. \A t \in Tenants : [r EXCEPT !.at = t, !.pc = pc] \in Request
  BY DEF Request, SignInPcs
<1>5. \A u \in People : [Idle EXCEPT !.pc = pc, !.who = u] \in Request
  BY DEF Request, SignInPcs, Idle
<1>6. \A u \in People : [Idle EXCEPT !.pc = pc, !.who = u, !.own = TRUE] \in Request
  BY DEF Request, SignInPcs, Idle
<1> QED BY <1>1, <1>2, <1>3, <1>4, <1>5, <1>6

\* One request changes to another.
LEMMA SigninUpdate ==
  ASSUME signin \in [SignIns -> Request], NEW s \in SignIns
  PROVE  /\ Finish(s) => signin' \in [SignIns -> Request]
         /\ \A pc \in SignInPcs : Goto(s, pc) => signin' \in [SignIns -> Request]
         /\ \A rest \in SUBSET InviteRows : AfterInvites(s, rest) => signin' \in [SignIns -> Request]
         /\ \A t \in Tenants, pc \in SignInPcs :
              signin' = [signin EXCEPT ![s].at = t, ![s].pc = pc] => signin' \in [SignIns -> Request]
<1>1. Finish(s) => signin' \in [SignIns -> Request]
  <2>1. "idle" \in SignInPcs
    BY DEF SignInPcs
  <2> QED BY <2>1, RequestUpdates DEF Finish
<1>2. ASSUME NEW pc \in SignInPcs, Goto(s, pc) PROVE signin' \in [SignIns -> Request]
  <2>1. [signin[s] EXCEPT !.pc = pc] \in Request
    BY RequestUpdates
  <2> QED BY <1>2, <2>1 DEF Goto
<1>3. ASSUME NEW rest \in SUBSET InviteRows, AfterInvites(s, rest) PROVE signin' \in [SignIns -> Request]
  <2> DEFINE pc == IF rest = {} THEN "count" ELSE "join"
  <2>1. pc \in SignInPcs
    BY DEF SignInPcs
  <2>2. [signin[s] EXCEPT !.pending = rest, !.at = Nobody, !.pc = pc] \in Request
    BY <2>1, RequestUpdates
  <2> QED BY <1>3, <2>2 DEF AfterInvites
<1>4. ASSUME NEW t \in Tenants, NEW pc \in SignInPcs, signin' = [signin EXCEPT ![s].at = t, ![s].pc = pc]
      PROVE signin' \in [SignIns -> Request]
  <2>1. [signin[s] EXCEPT !.at = t, !.pc = pc] \in Request
    BY RequestUpdates
  <2> QED BY <1>4, <2>1
<1> QED BY <1>1, <1>2, <1>3, <1>4

MarkedAt(t, u) == [invite EXCEPT ![t][u].open = FALSE]

\* An invite that is marked accepted keeps its role, and the others are as before.
LEMMA Marking ==
  ASSUME invite \in [Tenants -> [People -> [role : Roles \cup {Nobody}, open : BOOLEAN]]],
         NEW t \in Tenants, NEW u \in People
  PROVE  /\ MarkedAt(t, u) \in [Tenants -> [People -> [role : Roles \cup {Nobody}, open : BOOLEAN]]]
         /\ \A x \in Tenants, y \in People : x # t \/ y # u => MarkedAt(t, u)[x][y] = invite[x][y]
         /\ MarkedAt(t, u)[t][u].role = invite[t][u].role /\ ~MarkedAt(t, u)[t][u].open
<1> DEFINE Rows == [role : Roles \cup {Nobody}, open : BOOLEAN]
<1> DEFINE row == [invite[t][u] EXCEPT !.open = FALSE]
<1>1. row \in Rows /\ row.role = invite[t][u].role /\ ~row.open
  <2>1. invite[t][u] \in Rows
    OBVIOUS
  <2>2. row \in Rows
    BY <2>1
  <2>3. row.role = invite[t][u].role
    BY <2>1
  <2>4. row.open = FALSE
    BY <2>1
  <2> QED BY <2>2, <2>3, <2>4
<1>2. [invite[t] EXCEPT ![u] = row] \in [People -> Rows]
  BY <1>1
<1>3. MarkedAt(t, u) = [invite EXCEPT ![t] = [invite[t] EXCEPT ![u] = row]]
  BY DEF MarkedAt
<1>4. MarkedAt(t, u) \in [Tenants -> [People -> Rows]]
  BY <1>2, <1>3
<1>5. ASSUME NEW x \in Tenants, NEW y \in People
      PROVE MarkedAt(t, u)[x][y] = IF x = t /\ y = u THEN row ELSE invite[x][y]
  BY <1>3
<1> QED BY <1>1, <1>4, <1>5

LEMMA AccountsTypeStep ==
  ASSUME AccountsTypeOK, OpenHasRole, \A s \in SignIns : RequestOK(s), [AccountsNext]_accountVars
  PROVE  AccountsTypeOK'
<1> DEFINE SigninOK == signin \in [SignIns -> Request]
<1> SigninOK
  BY DEF AccountsTypeOK
<1> USE DEF SignInPcs
<1>1. ASSUME NEW s \in SignIns, FindUser(s) PROVE AccountsTypeOK'
  <2>1. SigninOK'
    BY <1>1, SigninUpdate DEF FindUser
  <2> QED BY <1>1, <2>1 DEF FindUser, AccountsTypeOK
<1>2. ASSUME NEW s \in SignIns, InsertUser(s) PROVE AccountsTypeOK'
  <2>1. SigninOK'
    BY <1>2, SigninUpdate DEF InsertUser
  <2> QED BY <1>2, <2>1 DEF InsertUser, RequestOK, AccountsTypeOK
<1>3. ASSUME NEW s \in SignIns, ReadInvites(s) PROVE AccountsTypeOK'
  <2>1. signin[s].who \in People
    BY <1>3 DEF ReadInvites, RequestOK
  <2>2. OpenInvites(signin[s].who) \subseteq InviteRows
    BY <2>1 DEF OpenInvites, InviteRows, OpenHasRole
  <2>3. SigninOK'
    BY <1>3, <2>2, SigninUpdate DEF ReadInvites
  <2> QED BY <1>3, <2>3 DEF ReadInvites, AccountsTypeOK
<1>4. ASSUME NEW s \in SignIns, JoinTenant(s) PROVE AccountsTypeOK'
  <2>1. PICK row \in signin[s].pending :
          /\ member' = [member EXCEPT ![row.tenant][signin[s].who] = IF @ = Nobody THEN row.role ELSE @]
          /\ signin' = [signin EXCEPT ![s].at = row.tenant, ![s].pc = "mark"]
    BY <1>4 DEF JoinTenant
  <2>2. row.tenant \in Tenants /\ row.role \in Roles
    BY <2>1 DEF InviteRows, Request
  <2>3. SigninOK'
    BY <2>1, <2>2, SigninUpdate
  <2>4. member' \in [Tenants -> [People -> Roles \cup {Nobody}]]
    BY <2>1, <2>2 DEF AccountsTypeOK
  <2> QED BY <1>4, <2>3, <2>4 DEF JoinTenant, AccountsTypeOK
<1>5. ASSUME NEW s \in SignIns, MarkAccepted(s) PROVE AccountsTypeOK'
  <2>1. signin[s].pending \in SUBSET InviteRows
    BY DEF Request
  <2>2. SigninOK'
    BY <1>5, <2>1, SigninUpdate DEF MarkAccepted
  <2>3. invite' = MarkedAt(signin[s].at, signin[s].who)
    BY <1>5 DEF MarkAccepted, MarkedAt
  <2>4. signin[s].at \in Tenants /\ signin[s].who \in People
    BY <1>5 DEF MarkAccepted, RequestOK
  <2>5. invite' \in [Tenants -> [People -> [role : Roles \cup {Nobody}, open : BOOLEAN]]]
    BY <2>3, <2>4, Marking DEF AccountsTypeOK
  <2> QED BY <1>5, <2>2, <2>5 DEF MarkAccepted, AccountsTypeOK
<1>6. ASSUME NEW s \in SignIns, CountMemberships(s) PROVE AccountsTypeOK'
  <2>1. SigninOK'
    BY <1>6, SigninUpdate DEF CountMemberships
  <2> QED BY <1>6, <2>1 DEF CountMemberships, AccountsTypeOK
<1>7. ASSUME NEW s \in SignIns, InsertTenant(s) PROVE AccountsTypeOK'
  <2>1. SigninOK'
    BY <1>7, SigninUpdate DEF InsertTenant
  <2> QED BY <1>7, <2>1 DEF InsertTenant, RequestOK, AccountsTypeOK
<1>8. ASSUME NEW s \in SignIns, InsertQueue(s) PROVE AccountsTypeOK'
  <2>1. SigninOK'
    BY <1>8, SigninUpdate DEF InsertQueue
  <2> QED BY <1>8, <2>1 DEF InsertQueue, AccountsTypeOK
<1>9. ASSUME NEW s \in SignIns, InsertOwner(s) PROVE AccountsTypeOK'
  <2>1. SigninOK'
    BY <1>9, SigninUpdate DEF InsertOwner
  <2> QED BY <1>9, <2>1 DEF InsertOwner, Roles, AccountsTypeOK
<1>10. ASSUME NEW s \in SignIns, StaffQueue(s) PROVE AccountsTypeOK'
  <2>1. SigninOK'
    BY <1>10, SigninUpdate DEF StaffQueue
  <2> QED BY <1>10, <2>1 DEF StaffQueue, AccountsTypeOK
<1>11. ASSUME NEW s \in SignIns, Crash(s) PROVE AccountsTypeOK'
  <2>1. SigninOK'
    BY <1>11, SigninUpdate DEF Crash
  <2> QED BY <1>11, <2>1 DEF Crash, AccountsTypeOK
<1>12. ASSUME NEW s \in SignIns, NEW u \in People, SignIn(s, u) PROVE AccountsTypeOK'
  <2>1. [Idle EXCEPT !.pc = "find", !.who = u] \in Request
    BY RequestUpdates
  <2> QED BY <1>12, <2>1 DEF SignIn, AccountsTypeOK
<1>13. ASSUME NEW s \in SignIns, NEW u \in People, PostTenant(s, u) PROVE AccountsTypeOK'
  <2>1. [Idle EXCEPT !.pc = "tenant", !.who = u, !.own = TRUE] \in Request
    BY RequestUpdates
  <2> QED BY <1>13, <2>1 DEF PostTenant, AccountsTypeOK
<1>14. ASSUME NEW t \in Tenants, NEW by \in People, NEW u \in People, NEW role \in Roles,
              Invite(t, by, u, role) PROVE AccountsTypeOK'
  <2>1. [role |-> role, open |-> TRUE] \in [role : Roles \cup {Nobody}, open : BOOLEAN]
    OBVIOUS
  <2>2. invite' \in [Tenants -> [People -> [role : Roles \cup {Nobody}, open : BOOLEAN]]]
    BY <1>14, <2>1 DEF Invite, CreateInvite, AccountsTypeOK
  <2> QED BY <1>14, <2>2 DEF Invite, AccountsTypeOK
<1>15. CASE UNCHANGED accountVars
  BY <1>15 DEF accountVars, AccountsTypeOK
<1> QED BY <1>1, <1>2, <1>3, <1>4, <1>5, <1>6, <1>7, <1>8, <1>9, <1>10, <1>11, <1>12, <1>13,
          <1>14, <1>15 DEF AccountsNext, Statement

-----------------------------------------------------------------------------
\* Most statements only change a request: to one that works on the tenant it created, or
\* on none, for invites that were sent.
LEMMA RequestMoves ==
  ASSUME AccountsInv, AccountsTypeOK', UNCHANGED <<tenants, member, invite>>,
         NEW s \in SignIns, NEW r \in Request, signin' = [signin EXCEPT ![s] = r],
         r.pc # "idle" => r.who \in People,
         r.pc \notin {"mark", "staff"},
         r.pc \in {"queue", "owner"} => Creating(s) /\ r.at = signin[s].at,
         \A row \in r.pending : ~Memberless(row.tenant)
  PROVE  AccountsInv'
<1> USE DEF AccountsInv
<1>1. \A x \in SignIns : signin'[x] = IF x = s THEN r ELSE signin[x]
  BY DEF AccountsTypeOK
<1>2. OpenHasRole'
  BY DEF OpenHasRole
<1>3. ASSUME NEW x \in SignIns PROVE RequestOK(x)'
  <2>1. CASE x = s
    BY <1>1, <2>1 DEF RequestOK, Creating
  <2>2. CASE x # s
    BY <1>1, <2>2 DEF RequestOK
  <2> QED BY <2>1, <2>2
<1>4. \A t : Memberless(t)' <=> Memberless(t)
  BY DEF Memberless
<1>5. ASSUME NEW x \in SignIns, Creating(x)' PROVE Creating(x) /\ signin'[x].at = signin[x].at
  BY <1>1, <1>5 DEF Creating
<1>6. ASSUME NEW t \in Tenants, Memberless(t) PROVE Uninvited(t)'
  BY <1>1, <1>6 DEF CreationOK, Uninvited
<1>7. CreationOK'
  BY <1>4, <1>5, <1>6 DEF CreationOK
<1>8. AcceptedIsMember'
  BY DEF AcceptedIsMember
<1> QED BY <1>2, <1>3, <1>7, <1>8

\* The tenants of the invites a request goes through have members.
LEMMA PendingHaveMembers ==
  ASSUME AccountsInv, NEW s \in SignIns, NEW row \in signin[s].pending
  PROVE  row.tenant \in Tenants /\ row.role \in Roles /\ ~Memberless(row.tenant)
<1>1. row.tenant \in Tenants /\ row.role \in Roles
  BY DEF AccountsInv, AccountsTypeOK, Request, InviteRows
<1> QED BY <1>1 DEF AccountsInv, CreationOK, Uninvited

LEMMA AccountsStep ==
  ASSUME AccountsInv, [AccountsNext]_accountVars PROVE AccountsInv'
<1>0. AccountsTypeOK'
  BY AccountsTypeStep DEF AccountsInv
<1> DEFINE Moved(s, r) ==
      /\ UNCHANGED <<tenants, member, invite>> /\ signin' = [signin EXCEPT ![s] = r]
      /\ r \in Request /\ (r.pc # "idle" => r.who \in People)
      /\ r.pc \notin {"mark", "staff"}
      /\ r.pc \in {"queue", "owner"} => Creating(s) /\ r.at = signin[s].at
      /\ \A row \in r.pending : ~Memberless(row.tenant)
<1>a. ASSUME NEW s \in SignIns, NEW r, Moved(s, r) PROVE AccountsInv'
  BY <1>0, <1>a, RequestMoves
<1>b. ASSUME NEW s \in SignIns PROVE
        /\ signin[s] \in Request /\ Idle \in Request
        /\ \A row \in signin[s].pending : ~Memberless(row.tenant)
        /\ \A pc \in SignInPcs : [signin[s] EXCEPT !.pc = pc] \in Request
        /\ signin[s].pc # "idle" => signin[s].who \in People
  <2>1. signin[s] \in Request
    BY DEF AccountsInv, AccountsTypeOK
  <2>2. "idle" \in SignInPcs
    BY DEF SignInPcs
  <2> QED BY <2>1, <2>2, RequestUpdates, PendingHaveMembers DEF AccountsInv, RequestOK
<1>c. ASSUME NEW s \in SignIns, Finish(s), UNCHANGED <<tenants, member, invite>> PROVE AccountsInv'
  <2>1. Moved(s, Idle)
    BY <1>b, <1>c DEF Finish, Idle
  <2> QED BY <1>a, <2>1
<1>d. ASSUME NEW s \in SignIns, NEW pc \in {"insert", "invites", "tenant"}, signin[s].pc # "idle", Goto(s, pc),
             UNCHANGED <<tenants, member, invite>> PROVE AccountsInv'
  <2> DEFINE r == [signin[s] EXCEPT !.pc = pc]
  <2>0. r \in Request
    BY <1>b DEF SignInPcs
  <2>1. r.pc = pc /\ r.who = signin[s].who /\ r.pending = signin[s].pending
    BY <1>b DEF Request
  <2>2. Moved(s, r)
    BY <1>b, <1>d, <2>0, <2>1 DEF Goto
  <2> QED BY <1>a, <2>2
<1>1. ASSUME NEW s \in SignIns, FindUser(s) PROVE AccountsInv'
  BY <1>1, <1>c, <1>d DEF FindUser
<1>2. ASSUME NEW s \in SignIns, InsertUser(s) PROVE AccountsInv'
  BY <1>2, <1>c, <1>d DEF InsertUser
<1>3. ASSUME NEW s \in SignIns, ReadInvites(s) PROVE AccountsInv'
  <2> DEFINE rest == OpenInvites(signin[s].who)
  <2> DEFINE pc == IF rest = {} THEN "count" ELSE "join"
  <2> DEFINE r == [signin[s] EXCEPT !.pending = rest, !.at = Nobody, !.pc = pc]
  <2>1. signin[s].who \in People
    BY <1>3, <1>b DEF ReadInvites
  <2>2. rest \subseteq InviteRows
    BY <2>1 DEF OpenInvites, InviteRows, OpenHasRole, AccountsInv
  <2>3. \A row \in rest : row.tenant \in Tenants /\ invite[row.tenant][signin[s].who].open
    BY DEF OpenInvites
  <2>4. ~NoInvite.open
    BY DEF NoInvite
  <2>5. \A row \in rest : ~Memberless(row.tenant)
    BY <2>1, <2>3, <2>4 DEF AccountsInv, CreationOK, Uninvited
  <2>6. pc \in SignInPcs
    BY DEF SignInPcs
  <2>7. r \in Request
    BY <1>b, <2>2, <2>6, RequestUpdates
  <2>8. r.pc = pc /\ r.who = signin[s].who /\ r.pending = rest
    BY <1>b DEF Request
  <2>9. UNCHANGED <<tenants, member, invite>> /\ signin' = [signin EXCEPT ![s] = r]
    BY <1>3 DEF ReadInvites, AfterInvites
  <2>10. pc \notin {"mark", "staff", "queue", "owner"}
    OBVIOUS
  <2> HIDE DEF r, rest, pc
  <2>11. Moved(s, r)
    BY <2>1, <2>5, <2>7, <2>8, <2>9, <2>10
  <2> QED BY <1>a, <2>11
<1>6. ASSUME NEW s \in SignIns, CountMemberships(s) PROVE AccountsInv'
  BY <1>6, <1>c, <1>d DEF CountMemberships
<1>8. ASSUME NEW s \in SignIns, InsertQueue(s) PROVE AccountsInv'
  <2> DEFINE r == [signin[s] EXCEPT !.pc = "owner"]
  <2>0. r \in Request
    BY <1>b DEF SignInPcs
  <2>1. r.pc = "owner" /\ r.who = signin[s].who /\ r.pending = signin[s].pending /\ r.at = signin[s].at
    BY <1>b DEF Request
  <2>2. Moved(s, r)
    BY <1>8, <1>b, <2>0, <2>1 DEF InsertQueue, Goto, Creating
  <2> QED BY <1>a, <2>2
<1>10. ASSUME NEW s \in SignIns, StaffQueue(s) PROVE AccountsInv'
  BY <1>10, <1>c DEF StaffQueue
<1>11. ASSUME NEW s \in SignIns, Crash(s) PROVE AccountsInv'
  BY <1>11, <1>c DEF Crash
<1>12. ASSUME NEW s \in SignIns, NEW u \in People, SignIn(s, u) PROVE AccountsInv'
  <2> DEFINE r == [Idle EXCEPT !.pc = "find", !.who = u]
  <2>1. r \in Request
    BY <1>b, RequestUpdates DEF SignInPcs
  <2>2. r.pc = "find" /\ r.who = u /\ r.pending = {}
    BY DEF Idle
  <2>3. Moved(s, r)
    BY <1>12, <2>1, <2>2 DEF SignIn
  <2> QED BY <1>a, <2>3
<1>13. ASSUME NEW s \in SignIns, NEW u \in People, PostTenant(s, u) PROVE AccountsInv'
  <2> DEFINE r == [Idle EXCEPT !.pc = "tenant", !.who = u, !.own = TRUE]
  <2>1. r \in Request
    BY <1>b, RequestUpdates DEF SignInPcs
  <2>2. r.pc = "tenant" /\ r.who = u /\ r.pending = {}
    BY DEF Idle
  <2>3. Moved(s, r)
    BY <1>13, <2>1, <2>2 DEF PostTenant
  <2> QED BY <1>a, <2>3
\* JoinTenant: the tenant had members, the new member has a role.
<1>4. ASSUME NEW s \in SignIns, JoinTenant(s) PROVE AccountsInv'
  <2>1. PICK row \in signin[s].pending :
          /\ member' = [member EXCEPT ![row.tenant][signin[s].who] = IF @ = Nobody THEN row.role ELSE @]
          /\ signin' = [signin EXCEPT ![s].at = row.tenant, ![s].pc = "mark"]
    BY <1>4 DEF JoinTenant
  <2>2. row.tenant \in Tenants /\ row.role \in Roles /\ ~Memberless(row.tenant)
    BY PendingHaveMembers
  <2>3. signin[s].who \in People
    BY <1>4, <1>b DEF JoinTenant
  <2>4. \A x \in SignIns : /\ signin'[x].pending = signin[x].pending /\ signin'[x].who = signin[x].who
                           /\ x # s => signin'[x] = signin[x]
    BY <2>1 DEF AccountsInv, AccountsTypeOK, Request
  <2>5. signin'[s].at = row.tenant /\ signin'[s].pc = "mark"
    BY <2>1, <1>b DEF AccountsInv, AccountsTypeOK, Request
  <2>6. \A t \in Tenants, u \in People : member'[t][u] =
          IF t = row.tenant /\ u = signin[s].who /\ member[t][u] = Nobody THEN row.role ELSE member[t][u]
    BY <2>1, <2>2, <2>3 DEF AccountsInv, AccountsTypeOK
  <2>7. UNCHANGED <<tenants, invite>>
    BY <1>4 DEF JoinTenant
  <2>8. \A t \in Tenants, u \in People : member[t][u] # Nobody => member'[t][u] # Nobody
    BY <2>6
  <2>9. \A t \in Tenants : t # row.tenant => (Memberless(t)' <=> Memberless(t))
    BY <2>6 DEF Memberless
  <2>10. ~Memberless(row.tenant)'
    BY <2>2, <2>8 DEF Memberless
  <2>11. ASSUME NEW x \in SignIns PROVE RequestOK(x)'
    <3>1. CASE x = s
      BY <3>1, <2>2, <2>3, <2>4, <2>5, <2>6, NobodyIsNoRole DEF RequestOK
    <3>2. CASE x # s
      BY <3>2, <2>4, <2>8 DEF AccountsInv, RequestOK
    <3> QED BY <3>1, <3>2
  <2>12. OpenHasRole' /\ AcceptedIsMember'
    BY <2>7, <2>8 DEF AccountsInv, OpenHasRole, AcceptedIsMember
  <2>13. \A x \in SignIns : Creating(x)' => x # s /\ Creating(x) /\ signin'[x].at # row.tenant
    BY <2>2, <2>4, <2>5 DEF Creating, AccountsInv, CreationOK
  <2>14. \A x \in SignIns : Creating(x) => signin[x].at \in Tenants
    BY DEF Creating, AccountsInv, RequestOK
  <2>15. \A t \in Tenants : Uninvited(t)' <=> Uninvited(t)
    BY <2>4, <2>7 DEF Uninvited
  <2>16. CreationOK'
    BY <2>2, <2>4, <2>7, <2>9, <2>10, <2>13, <2>14, <2>15 DEF AccountsInv, CreationOK
  <2> QED BY <1>0, <2>11, <2>12, <2>16 DEF AccountsInv
\* MarkAccepted: of an invite whose person is a member.
<1>5. ASSUME NEW s \in SignIns, MarkAccepted(s) PROVE AccountsInv'
  <2>1. /\ signin[s].at \in Tenants /\ signin[s].who \in People
        /\ member[signin[s].at][signin[s].who] # Nobody
    BY <1>5 DEF MarkAccepted, AccountsInv, RequestOK
  <2>2. UNCHANGED <<tenants, member>> /\ invite' = MarkedAt(signin[s].at, signin[s].who)
    BY <1>5 DEF MarkAccepted, MarkedAt
  <2>3. /\ \A x \in Tenants, y \in People :
             x # signin[s].at \/ y # signin[s].who => invite'[x][y] = invite[x][y]
        /\ ~invite'[signin[s].at][signin[s].who].open
    BY <2>1, <2>2, Marking DEF AccountsInv, AccountsTypeOK
  <2> DEFINE rest == {row \in signin[s].pending : row.tenant # signin[s].at}
  <2> DEFINE pc == IF rest = {} THEN "count" ELSE "join"
  <2>4. signin' = [signin EXCEPT ![s].pending = rest, ![s].at = Nobody, ![s].pc = pc]
    BY <1>5 DEF MarkAccepted, AfterInvites
  <2>5. /\ \A x \in SignIns : x # s => signin'[x] = signin[x]
        /\ signin'[s].pc \notin {"mark", "queue", "owner", "staff"} /\ signin'[s].who = signin[s].who
        /\ signin'[s].pending = rest
    <3> HIDE DEF rest
    <3>1. signin' = [signin EXCEPT ![s] = [signin[s] EXCEPT !.pending = rest, !.at = Nobody, !.pc = pc]]
      BY <2>4
    <3> QED BY <3>1, <1>b DEF AccountsInv, AccountsTypeOK, Request
  <2>6. OpenHasRole' /\ AcceptedIsMember'
    BY <2>1, <2>2, <2>3 DEF AccountsInv, OpenHasRole, AcceptedIsMember
  <2>7. ASSUME NEW x \in SignIns PROVE RequestOK(x)'
    BY <2>1, <2>2, <2>5, <1>b DEF AccountsInv, RequestOK
  <2>8. \A x \in SignIns : Creating(x)' => Creating(x) /\ signin'[x] = signin[x]
    BY <2>5 DEF Creating
  <2>9. \A t : Memberless(t)' <=> Memberless(t)
    BY <2>2 DEF Memberless
  <2>10. ~Memberless(signin[s].at)
    BY <2>1 DEF Memberless
  <2>11. \A t \in Tenants : Memberless(t) => Uninvited(t)'
    BY <2>3, <2>5, <2>10 DEF AccountsInv, CreationOK, Uninvited
  <2>12. CreationOK'
    BY <2>2, <2>8, <2>9, <2>11 DEF AccountsInv, CreationOK
  <2> QED BY <1>0, <2>6, <2>7, <2>12 DEF AccountsInv
\* InsertTenant: the new tenant is nobody else's.
<1>7. ASSUME NEW s \in SignIns, InsertTenant(s) PROVE AccountsInv'
  <2>1. PICK t \in Tenants : /\ tenants[t] = Nobody
                             /\ tenants' = [tenants EXCEPT ![t] = signin[s].who]
                             /\ signin' = [signin EXCEPT ![s].at = t, ![s].pc = "queue"]
    BY <1>7 DEF InsertTenant
  <2>2. signin[s].who \in People
    BY <1>7, <1>b DEF InsertTenant
  <2>3. UNCHANGED <<member, invite>>
    BY <1>7 DEF InsertTenant
  <2>4. /\ \A x \in SignIns : /\ signin'[x].pending = signin[x].pending
                              /\ x # s => signin'[x] = signin[x]
        /\ signin'[s].pc = "queue" /\ signin'[s].at = t /\ signin'[s].who = signin[s].who
    BY <2>1, <1>b DEF AccountsInv, AccountsTypeOK, Request
  <2>5. \A x \in Tenants : tenants'[x] = IF x = t THEN signin[s].who ELSE tenants[x]
    BY <2>1 DEF AccountsInv, AccountsTypeOK
  <2>6. \A x \in Tenants : Memberless(x)' <=> Memberless(x)
    BY <2>3 DEF Memberless
  <2>7. \A x \in Tenants : Uninvited(x)' <=> Uninvited(x)
    BY <2>3, <2>4 DEF Uninvited
  <2>8. \A x \in SignIns : x # s /\ Creating(x)' =>
          Creating(x) /\ signin'[x].at = signin[x].at /\ signin[x].at \in Tenants /\ signin[x].at # t
    BY <2>1, <2>4 DEF Creating, AccountsInv, RequestOK, CreationOK
  <2>9. Memberless(t)
    BY <2>1 DEF AccountsInv, CreationOK
  <2>10. CreationOK'
    BY <2>2, <2>4, <2>5, <2>6, <2>7, <2>8, <2>9, NobodyIsNoRole DEF AccountsInv, CreationOK
  <2>11. OpenHasRole' /\ AcceptedIsMember'
    BY <2>3 DEF AccountsInv, OpenHasRole, AcceptedIsMember
  <2>12. ASSUME NEW x \in SignIns PROVE RequestOK(x)'
    BY <2>2, <2>3, <2>4 DEF AccountsInv, RequestOK
  <2> QED BY <1>0, <2>10, <2>11, <2>12 DEF AccountsInv
\* InsertOwner: the first member of the tenant.
<1>9. ASSUME NEW s \in SignIns, InsertOwner(s) PROVE AccountsInv'
  <2> DEFINE t == signin[s].at
  <2>1. t \in Tenants /\ signin[s].who \in People /\ Creating(s)
    BY <1>9 DEF InsertOwner, Creating, AccountsInv, RequestOK
  <2>2. UNCHANGED <<tenants, invite>> /\ signin' = [signin EXCEPT ![s].pc = "staff"]
    BY <1>9 DEF InsertOwner, Goto
  <2>3. \A x \in Tenants, u \in People : member'[x][u] =
          IF x = t /\ u = signin[s].who THEN "supervisor" ELSE member[x][u]
    BY <1>9, <2>1 DEF InsertOwner, AccountsInv, AccountsTypeOK
  <2>4. /\ \A x \in SignIns : /\ signin'[x].pending = signin[x].pending
                              /\ x # s => signin'[x] = signin[x]
        /\ signin'[s].pc = "staff" /\ signin'[s].at = t /\ signin'[s].who = signin[s].who
    BY <2>2, <1>b DEF AccountsInv, AccountsTypeOK, Request
  <2>5. "supervisor" # Nobody
    BY NobodyIsNoRole DEF Roles
  <2>6. \A x \in Tenants, u \in People : member[x][u] # Nobody => member'[x][u] # Nobody
    BY <2>3, <2>5
  <2>7. \A x \in Tenants : x # t => (Memberless(x)' <=> Memberless(x))
    BY <2>3 DEF Memberless
  <2>8. ~Memberless(t)'
    BY <2>1, <2>3, <2>4, <2>5 DEF Memberless
  <2>14. tenants[t] # Nobody
    BY <2>1 DEF AccountsInv, CreationOK
  <2>9. \A x \in SignIns : Creating(x)' =>
          x # s /\ Creating(x) /\ signin'[x] = signin[x] /\ signin[x].at \in Tenants /\ signin[x].at # t
    BY <2>1, <2>4 DEF Creating, AccountsInv, RequestOK, CreationOK
  <2>10. \A x \in Tenants : Uninvited(x)' <=> Uninvited(x)
    BY <2>2, <2>4 DEF Uninvited
  <2>11. CreationOK'
    BY <2>2, <2>7, <2>8, <2>14, <2>9, <2>10 DEF AccountsInv, CreationOK
  <2>12. OpenHasRole' /\ AcceptedIsMember'
    BY <2>2, <2>6 DEF AccountsInv, OpenHasRole, AcceptedIsMember
  <2>13. ASSUME NEW x \in SignIns PROVE RequestOK(x)'
    BY <2>1, <2>4, <2>6 DEF AccountsInv, RequestOK
  <2> QED BY <1>0, <2>11, <2>12, <2>13 DEF AccountsInv
\* Invite: the tenant has a supervisor.
<1>14. ASSUME NEW t \in Tenants, NEW by \in People, NEW u \in People, NEW role \in Roles,
              Invite(t, by, u, role) PROVE AccountsInv'
  <2> DEFINE row == [role |-> role, open |-> TRUE]
  <2>1. ~Memberless(t)
    BY <1>14, NobodyIsNoRole DEF Invite, Authorized, Memberless, Roles
  <2>2. UNCHANGED <<tenants, member, signin>>
    BY <1>14 DEF Invite
  <2>3. \A x \in Tenants, y \in People : invite'[x][y] = IF x = t /\ y = u THEN row ELSE invite[x][y]
    BY <1>14 DEF Invite, CreateInvite, AccountsInv, AccountsTypeOK
  <2>4. row.role = role /\ row.open = TRUE
    OBVIOUS
  <2>5. OpenHasRole'
    BY <2>3, <2>4 DEF AccountsInv, OpenHasRole
  <2>6. AcceptedIsMember'
    BY <2>2, <2>3, <2>4 DEF AccountsInv, AcceptedIsMember
  <2>7. \A x : Memberless(x)' <=> Memberless(x)
    BY <2>2 DEF Memberless
  <2>8. \A x \in Tenants : Memberless(x) => Uninvited(x)'
    BY <2>1, <2>2, <2>3 DEF AccountsInv, CreationOK, Uninvited
  <2>9. \A x \in SignIns : Creating(x)' <=> Creating(x)
    BY <2>2 DEF Creating
  <2>10. CreationOK'
    BY <2>2, <2>7, <2>8, <2>9 DEF AccountsInv, CreationOK
  <2>11. ASSUME NEW x \in SignIns PROVE RequestOK(x)'
    BY <2>2 DEF AccountsInv, RequestOK
  <2> QED BY <1>0, <2>5, <2>6, <2>10, <2>11 DEF AccountsInv
<1>15. CASE UNCHANGED accountVars
  <2>1. UNCHANGED <<tenants, member, invite, signin>>
    BY <1>15 DEF accountVars
  <2>2. (\A t : Memberless(t)' <=> Memberless(t)) /\ (\A t : Uninvited(t)' <=> Uninvited(t))
    BY <2>1 DEF Memberless, Uninvited
  <2>3. CreationOK'
    BY <2>1, <2>2 DEF AccountsInv, CreationOK, Creating
  <2> QED BY <1>0, <2>1, <2>3 DEF AccountsInv, OpenHasRole, RequestOK, AcceptedIsMember
<1> QED BY <1>1, <1>2, <1>3, <1>4, <1>5, <1>6, <1>7, <1>8, <1>9, <1>10, <1>11, <1>12, <1>13,
          <1>14, <1>15 DEF AccountsNext, Statement

-----------------------------------------------------------------------------
\* Every reachable state of Accounts is well typed, and what AccountsInv says of tenants
\* under creation holds.
THEOREM AccountsInvariant == AccountsSpec => []AccountsInv
<1>1. AccountsInv /\ [AccountsNext]_accountVars => AccountsInv'
  BY AccountsStep
<1> QED BY AccountsInitInv, <1>1, PTL DEF AccountsSpec

\* An invite that counts as accepted has made its person a member, whatever dies between
\* the two statements of bootstrapUser and whoever is invited again (tenants.ts:108-112).
THEOREM AcceptedIsMemberHolds == AccountsSpec => []AcceptedIsMember
<1>1. AccountsInv => AcceptedIsMember
  BY DEF AccountsInv
<1> QED BY AccountsInvariant, <1>1, PTL

\* A membership keeps its role: the only INSERT that does not look at the row first meets
\* an empty tenant (tenants.ts, createTenant).
THEOREM RoleIsStableHolds == AccountsSpec => RoleIsStable
<1> DEFINE Kept == \A t \in Tenants, u \in People : member[t][u] # Nobody => member'[t][u] = member[t][u]
<1>1. ASSUME AccountsInv, [AccountsNext]_accountVars PROVE Kept
  <2>1. ASSUME NEW s \in SignIns, JoinTenant(s) PROVE Kept
    <3>1. PICK row \in signin[s].pending : member' = [member EXCEPT ![row.tenant][signin[s].who] =
                                                        IF @ = Nobody THEN row.role ELSE @]
      BY <2>1 DEF JoinTenant
    <3>2. row.tenant \in Tenants
      BY <1>1, PendingHaveMembers
    <3> QED BY <1>1, <3>1, <3>2 DEF AccountsInv, AccountsTypeOK
  <2>2. ASSUME NEW s \in SignIns, InsertOwner(s) PROVE Kept
    <3>1. signin[s].at \in Tenants /\ Creating(s)
      BY <1>1, <2>2 DEF InsertOwner, Creating, AccountsInv, RequestOK
    <3>2. Memberless(signin[s].at)
      BY <1>1, <3>1 DEF AccountsInv, CreationOK
    <3> QED BY <1>1, <2>2, <3>1, <3>2 DEF InsertOwner, Memberless, AccountsInv, AccountsTypeOK
  <2>3. CASE UNCHANGED member
    BY <2>3
  <2> QED BY <1>1, <2>1, <2>2, <2>3 DEF AccountsNext, Statement, FindUser, InsertUser, ReadInvites,
       MarkAccepted, CountMemberships, InsertTenant, InsertQueue, StaffQueue, Crash, SignIn,
       PostTenant, Invite, accountVars
<1>2. AccountsInv /\ [AccountsNext]_accountVars => [Kept]_accountVars
  BY <1>1
<1> QED BY AccountsInvariant, <1>2, PTL DEF AccountsSpec, RoleIsStable

-----------------------------------------------------------------------------
(***************************************************************************)
(* Settings.  A queue is found, looked at and deleted in statements of their *)
(* own: the invariant says that a statement is about a queue there is, and *)
(* that the one that deletes looks at the calls itself.                    *)
(***************************************************************************)
\* A request whose users, lists, patches and copies are among V.
RequestWith(V) ==
  [pc: {"idle", "merge", "write", "find", "clear", "enlist", "unskill", "skill", "active",
        "used", "drop", "unstaff", "archive", "create"},
   queue: Queues \cup {Absent}, who: V, list: V, patch: V, copy: V]

\* The statements about a queue.
OnQueue == {"find", "clear", "enlist", "active", "used", "drop", "unstaff", "archive", "create"}

\* A statement that is about a queue names one, and so does a page.  No row that a call
\* refers to is deleted, whatever the requests in flight read of the queues and calls.
HistoryInv ==
  /\ queue \in [Queues -> {"absent", "active", "archived"}]
  /\ called \subseteq Queues
  /\ \E V : req \in [Requests -> RequestWith(V)]
  /\ \A s \in Requests : req[s].pc \in OnQueue => req[s].queue \in Queues
  /\ \A p \in Pages : page[p].queues \subseteq Queues
  /\ HistoryKept

LEMMA ActiveAreQueues == Active \subseteq Queues
  BY DEF Active

LEMMA FreeIsRequest == Free \in RequestWith({Absent, {}, <<>>}) /\ Free.pc \notin OnQueue
  BY DEF Free, RequestWith, OnQueue

LEMMA HistoryInit == SettingsInit => HistoryInv
<1> SUFFICES ASSUME SettingsInit PROVE HistoryInv
  OBVIOUS
<1>1. req \in [Requests -> RequestWith({Absent, {}, <<>>})]
      /\ \A s \in Requests : req[s].pc \notin OnQueue
  BY FreeIsRequest DEF SettingsInit
<1>2. queue \in [Queues -> {"absent", "active", "archived"}]
  BY DEF SettingsInit
<1>3. \A p \in Pages : page[p].queues \subseteq Queues
  BY ActiveAreQueues DEF SettingsInit, Snapshot
<1> QED
  BY <1>1, <1>2, <1>3 DEF SettingsInit, HistoryInv, HistoryKept

\* What a request that starts or moves on leaves of the others.
LEMMA RequestSet ==
  ASSUME HistoryInv, NEW s \in Requests, NEW V, NEW r \in RequestWith(V),
         req' = [req EXCEPT ![s] = r], r.pc \in OnQueue => r.queue \in Queues
  PROVE  /\ \E W : req' \in [Requests -> RequestWith(W)]
         /\ \A t \in Requests : req'[t].pc \in OnQueue => req'[t].queue \in Queues
<1>1. PICK U : req \in [Requests -> RequestWith(U)]
  BY DEF HistoryInv
<1> DEFINE W == U \cup V
<1>2. r \in RequestWith(W) /\ \A t \in Requests : req[t] \in RequestWith(W)
  BY <1>1 DEF RequestWith
<1> HIDE DEF W
<1>3. req' \in [Requests -> RequestWith(W)]
  BY <1>1, <1>2
<1>4. ASSUME NEW t \in Requests PROVE req'[t] = IF t = s THEN r ELSE req[t]
  BY <1>1
<1> QED
  BY <1>3, <1>4 DEF HistoryInv

LEMMA RequestFrees ==
  ASSUME HistoryInv, NEW s \in Requests, Done(s)
  PROVE  /\ \E W : req' \in [Requests -> RequestWith(W)]
         /\ \A t \in Requests : req'[t].pc \in OnQueue => req'[t].queue \in Queues
  BY FreeIsRequest, RequestSet DEF Done

LEMMA RequestProceeds ==
  ASSUME HistoryInv, NEW s \in Requests,
         NEW pc \in {"write", "clear", "enlist", "skill", "used", "drop", "unstaff", "archive"},
         Proceed(s, pc), pc \in OnQueue => req[s].pc \in OnQueue
  PROVE  /\ \E W : req' \in [Requests -> RequestWith(W)]
         /\ \A t \in Requests : req'[t].pc \in OnQueue => req'[t].queue \in Queues
<1>1. PICK U : req \in [Requests -> RequestWith(U)]
  BY DEF HistoryInv
<1> DEFINE r == [req[s] EXCEPT !.pc = pc]
<1>2. r \in RequestWith(U) /\ r.pc = pc /\ r.queue = req[s].queue
  BY <1>1 DEF RequestWith
<1>3. req' = [req EXCEPT ![s] = r]
  BY <1>1 DEF Proceed
<1> HIDE DEF r
<1> QED
  BY <1>2, <1>3, RequestSet DEF HistoryInv

\* A request that starts.
LEMMA RequestStarts ==
  ASSUME HistoryInv, NEW s \in Requests, NEW op, NEW V, NEW r \in RequestWith(V), Start(s, op, r),
         r.pc \in OnQueue => r.queue \in Queues, UNCHANGED <<queue, called, page>>
  PROVE  HistoryInv'
  BY RequestSet DEF Start, HistoryInv, HistoryKept

LEMMA NewRequests ==
  ASSUME NEW x, NEW y, NEW q \in Queues
  PROVE  LET V == {Absent, {}, <<>>, x, y}
         IN  /\ [Free EXCEPT !.pc = "merge", !.patch = x] \in RequestWith(V)
             /\ [Free EXCEPT !.pc = "find", !.queue = q, !.list = x] \in RequestWith(V)
             /\ [Free EXCEPT !.pc = "unskill", !.who = y, !.list = x] \in RequestWith(V)
             /\ [Free EXCEPT !.pc = "active", !.queue = q] \in RequestWith(V)
             /\ [Free EXCEPT !.pc = "create", !.queue = q] \in RequestWith(V)
  BY DEF Free, RequestWith

LEMMA StartSteps ==
  ASSUME HistoryInv, NEW s \in Requests, NEW p \in Pages,
         \/ \E k \in RoutingKeys : \E v \in SettingValues(k) : SaveRouting(s, p, k, v)
         \/ \E hours \in SettingValues("hours") : SaveHours(s, p, hours)
         \/ \E sound \in SettingValues("sounds") : SaveSounds(s, p, sound)
         \/ \E q \in Queues : DeleteQueue(s, p, q)
         \/ \E q \in Queues, u \in Members : ToggleMember(s, p, q, u)
         \/ \E u \in Members, k \in Skills : SaveSkills(s, p, u, k)
  PROVE  HistoryInv'
<1>1. ASSUME NEW patch, PatchSettings(s, patch) PROVE HistoryInv'
  <2> DEFINE r == [Free EXCEPT !.pc = "merge", !.patch = ParsePartial(patch)]
  <2>1. r \in RequestWith({Absent, {}, <<>>, ParsePartial(patch), Absent})
    BY NewRequests, SettingsAssumption
  <2>2. r.pc = "merge"
    BY DEF Free
  <2>3. Start(s, "save", r) /\ UNCHANGED <<queue, called, page>>
    BY <1>1 DEF PatchSettings
  <2> HIDE DEF r
  <2> QED
    BY <2>1, <2>2, <2>3, RequestStarts DEF OnQueue
<1>2. ASSUME NEW q \in Queues, DeleteQueue(s, p, q) PROVE HistoryInv'
  <2> DEFINE r == [Free EXCEPT !.pc = "active", !.queue = q]
  <2>1. r \in RequestWith({Absent, {}, <<>>, Absent, Absent})
    BY NewRequests
  <2>2. r.queue = q
    BY DEF Free
  <2>3. Start(s, "queues", r) /\ UNCHANGED <<queue, called, page>>
    BY <1>2 DEF DeleteQueue
  <2> HIDE DEF r
  <2> QED
    BY <2>1, <2>2, <2>3, RequestStarts
<1>3. ASSUME NEW q \in Queues, NEW u \in Members, ToggleMember(s, p, q, u) PROVE HistoryInv'
  <2> DEFINE list == Toggle(page[p].staff[q], u)
             r == [Free EXCEPT !.pc = "find", !.queue = q, !.list = list]
  <2>1. r \in RequestWith({Absent, {}, <<>>, list, Absent})
    BY NewRequests
  <2>2. r.queue = q
    BY DEF Free
  <2>3. Start(s, "members", r) /\ UNCHANGED <<queue, called, page>>
    BY <1>3 DEF ToggleMember
  <2> HIDE DEF r
  <2> QED
    BY <2>1, <2>2, <2>3, RequestStarts
<1>4. ASSUME NEW u \in Members, NEW k \in Skills, SaveSkills(s, p, u, k) PROVE HistoryInv'
  <2> DEFINE list == Toggle(page[p].skilled[u], k)
             r == [Free EXCEPT !.pc = "unskill", !.who = u, !.list = list]
  <2>1. r \in RequestWith({Absent, {}, <<>>, list, u})
    BY NewRequests, SettingsAssumption
  <2>2. r.pc = "unskill"
    BY DEF Free
  <2>3. Start(s, "skills", r) /\ UNCHANGED <<queue, called, page>>
    BY <1>4 DEF SaveSkills
  <2> HIDE DEF r
  <2> QED
    BY <2>1, <2>2, <2>3, RequestStarts DEF OnQueue
<1> QED
  BY <1>1, <1>2, <1>3, <1>4 DEF SaveRouting, SaveHours, SaveSounds

LEMMA StatementStep ==
  ASSUME HistoryInv, NEW s \in Requests, ServiceStatement(s) PROVE HistoryInv'
<1>1. CASE ReadSettings(s)
  <2>1. PICK U : req \in [Requests -> RequestWith(U)]
    BY DEF HistoryInv
  <2> DEFINE r == [req[s] EXCEPT !.copy = settings, !.pc = "write"]
  <2>2. r \in RequestWith(U \cup {settings}) /\ r.pc = "write"
    BY <2>1 DEF RequestWith
  <2>3. req' = [req EXCEPT ![s] = r]
    BY <1>1, <2>1 DEF ReadSettings
  <2> HIDE DEF r
  <2>4. /\ \E W : req' \in [Requests -> RequestWith(W)]
        /\ \A t \in Requests : req'[t].pc \in OnQueue => req'[t].queue \in Queues
    BY <2>2, <2>3, RequestSet DEF OnQueue
  <2> QED
    BY <1>1, <2>4 DEF ReadSettings, HistoryInv, HistoryKept
<1>2. CASE WriteSettings(s) \/ InsertStaff(s) \/ InsertSkills(s)
  BY <1>2, RequestFrees DEF WriteSettings, InsertStaff, InsertSkills, HistoryInv, HistoryKept
<1>3. CASE FindQueue(s) \/ ClearStaff(s) \/ ClearSkills(s) \/ CountActive(s) \/ LookForCalls(s)
             \/ UnstaffQueue(s)
  <2>1. UNCHANGED <<queue, called, page>>
    BY <1>3 DEF FindQueue, ClearStaff, ClearSkills, CountActive, LookForCalls, UnstaffQueue
  <2>2. \/ Done(s)
        \/ \E pc \in {"clear", "enlist", "skill", "used", "drop", "unstaff", "archive"} :
             Proceed(s, pc) /\ (pc \in OnQueue => req[s].pc \in OnQueue)
    BY <1>3 DEF FindQueue, ClearStaff, ClearSkills, CountActive, LookForCalls, UnstaffQueue, OnQueue
  <2>3. /\ \E W : req' \in [Requests -> RequestWith(W)]
        /\ \A t \in Requests : req'[t].pc \in OnQueue => req'[t].queue \in Queues
    BY <2>2, RequestFrees, RequestProceeds
  <2> QED
    BY <2>1, <2>3 DEF HistoryInv, HistoryKept
<1>4. CASE DropQueue(s)
  <2>1. req[s].queue \in Queues /\ UNCHANGED <<called, page>>
    BY <1>4 DEF DropQueue, HistoryInv, OnQueue
  <2>2. \/ UNCHANGED queue
        \/ req[s].queue \notin called /\ queue' = [queue EXCEPT ![req[s].queue] = "absent"]
    BY <1>4 DEF DropQueue
  <2>3. queue' \in [Queues -> {"absent", "active", "archived"}] /\ HistoryKept'
    BY <2>1, <2>2 DEF HistoryInv, HistoryKept
  <2> QED
    BY <1>4, <2>1, <2>3, RequestFrees DEF DropQueue, HistoryInv
<1>5. CASE ArchiveQueue(s)
  <2>1. req[s].queue \in Queues /\ UNCHANGED <<called, page>>
    BY <1>5 DEF ArchiveQueue, HistoryInv, OnQueue
  <2>2. queue' \in [Queues -> {"absent", "active", "archived"}] /\ HistoryKept'
    BY <1>5, <2>1 DEF ArchiveQueue, HistoryInv, HistoryKept
  <2> QED
    BY <1>5, <2>1, <2>2, RequestFrees DEF ArchiveQueue, HistoryInv
<1>6. CASE InsertCall(s)
  <2>1. req[s].queue \in Queues /\ UNCHANGED <<queue, page>>
    BY <1>6 DEF InsertCall, HistoryInv, OnQueue
  <2>2. called' \subseteq Queues /\ HistoryKept'
    BY <1>6, <2>1 DEF InsertCall, HistoryInv, HistoryKept
  <2> QED
    BY <1>6, <2>1, <2>2, RequestFrees DEF InsertCall, HistoryInv
<1> QED
  BY <1>1, <1>2, <1>3, <1>4, <1>5, <1>6 DEF ServiceStatement

LEMMA HistoryStep == HistoryInv /\ [SettingsNext]_settingsVars => HistoryInv'
<1> SUFFICES ASSUME HistoryInv, [SettingsNext]_settingsVars PROVE HistoryInv'
  OBVIOUS
<1>1. ASSUME NEW q \in Queues, CreateQueue(q) PROVE HistoryInv'
  <2>1. UNCHANGED <<called, page, req>>
    BY <1>1 DEF CreateQueue
  <2>2. queue' \in [Queues -> {"absent", "active", "archived"}] /\ HistoryKept'
    BY <1>1, <2>1 DEF CreateQueue, NewQueue, HistoryInv, HistoryKept
  <2> QED
    BY <2>1, <2>2 DEF HistoryInv
<1>2. ASSUME NEW s \in Requests, NEW k \in EmbedKeys, NEW name, NEW origin \in Origins,
             NEW now \in Instant, StartCall(s, k, name, origin, now)
      PROVE  HistoryInv'
  <2>1. PICK q \in Queues : Start(s, "call", [Free EXCEPT !.pc = "create", !.queue = q])
    BY <1>2, ActiveAreQueues DEF StartCall, ResolveEmbedKey
  <2> DEFINE r == [Free EXCEPT !.pc = "create", !.queue = q]
  <2>2. r \in RequestWith({Absent, {}, <<>>, Absent, Absent})
    BY NewRequests
  <2>3. r.queue = q
    BY DEF Free
  <2>4. Start(s, "call", r) /\ UNCHANGED <<queue, called, page>>
    BY <1>2, <2>1 DEF StartCall
  <2> HIDE DEF r
  <2> QED
    BY <2>2, <2>3, <2>4, RequestStarts
<1>3. ASSUME NEW p \in Pages, Reload(p) PROVE HistoryInv'
  <2>1. UNCHANGED <<queue, called, req>> /\ page' = [page EXCEPT ![p] = Snapshot]
    BY <1>3 DEF Reload
  <2>2. Snapshot.queues \subseteq Queues
    BY ActiveAreQueues DEF Snapshot
  <2>3. \A x \in Pages : page'[x].queues \subseteq Queues
    BY <2>1, <2>2 DEF HistoryInv
  <2> QED
    BY <2>1, <2>3 DEF HistoryInv, HistoryKept
<1>4. ASSUME \/ \E p \in Pages, q \in Queues, cfg \in Configs : SaveQueueRouting(p, q, cfg)
             \/ \E a \in Assets : UploadSound(a) \/ DeleteSound(a)
             \/ \E k \in EmbedKeys : AddKey(k) \/ RemoveKey(k)
             \/ UNCHANGED settingsVars
      PROVE  HistoryInv'
  <2>1. UNCHANGED <<queue, called, page, req>>
    BY <1>4 DEF SaveQueueRouting, UploadSound, DeleteSound, AddKey, RemoveKey, settingsVars
  <2> QED
    BY <2>1 DEF HistoryInv, HistoryKept
<1> QED
  BY <1>1, <1>2, <1>3, <1>4, StartSteps, StatementStep DEF SettingsNext


-----------------------------------------------------------------------------
\* Every statement about a queue names one, and no queue a call refers to is deleted.
THEOREM HistoryInvariant == SettingsSpec => []HistoryInv
  BY HistoryInit, HistoryStep, PTL DEF SettingsSpec

\* A queue that calls refer to is archived, never deleted, whatever requests and calls
\* come between the statements of the DELETE route (admin.ts).
THEOREM HistoryKeptHolds == SettingsSpec => []HistoryKept
<1>1. HistoryInv => HistoryKept
  BY DEF HistoryInv
<1> QED
  BY <1>1, HistoryInvariant, PTL

\* The opening hours of any list of windows are, minute by minute, the union of the
\* windows of that day, and nothing on a holiday (shared: openState), for a day of any
\* length.
THEOREM ScheduleCovers ==
  ASSUME NEW days, days \subseteq 0..6, NEW windows, windows \subseteq Window
  PROVE  ScheduleIsCover(days, windows)
<1> SUFFICES ASSUME NEW cfg \in [mode: {"auto"}, open: SUBSET windows, holidays: SUBSET Dates],
                    NEW d \in days, NEW date \in Dates
             PROVE  {m \in Minutes : OpenState(cfg, [dow |-> d, date |-> date, minutes |-> m]) = "open"}
                      = IF date \in cfg.holidays THEN {} ELSE OpenMinutes(cfg.open, d)
  BY DEF ScheduleIsCover
<1>1. cfg.mode = "auto" /\ cfg.open \subseteq Window
  OBVIOUS
<1>2. ASSUME NEW m \in Minutes
      PROVE  OpenState(cfg, [dow |-> d, date |-> date, minutes |-> m]) = "open"
               <=> date \notin cfg.holidays /\ \E w \in cfg.open : w.dow = d /\ w.from <= m /\ m < w.to
  BY <1>1 DEF OpenState, InWindow
<1>3. ASSUME NEW m
      PROVE  m \in OpenMinutes(cfg.open, d)
               <=> m \in Minutes /\ \E w \in cfg.open : w.dow = d /\ w.from <= m /\ m < w.to
  <2>1. ASSUME NEW w \in cfg.open
        PROVE  /\ w.from \in 0..DayLength /\ w.to \in 0..DayLength
               /\ m \in w.from..(w.to - 1) <=> m \in Minutes /\ w.from <= m /\ m < w.to
    <3>1. w.from \in 0..DayLength /\ w.to \in 0..DayLength
      BY <1>1 DEF Window
    <3> QED
      BY <3>1, HoursAssumption DEF Minutes
  <2>2. m \in OpenMinutes(cfg.open, d)
          <=> \E w \in cfg.open : w.dow = d /\ w.to > 0 /\ m \in w.from..(w.to - 1)
    BY DEF OpenMinutes
  <2>3. ASSUME NEW w \in cfg.open, m \in w.from..(w.to - 1) PROVE w.to > 0
    BY <2>1, <2>3
  <2> QED
    BY <2>1, <2>2, <2>3
<1> QED
  BY <1>2, <1>3
-----------------------------------------------------------------------------
(***************************************************************************)
(* The two side by side, as the run has them: each keeps its own           *)
(* specification.                                                          *)
(***************************************************************************)
\* What the admin run explores are behaviours of the sign-in and of the settings: the part
\* that rests is none the wiser.
THEOREM AdminRefines == AdminSpec => AccountsSpec /\ SettingsSpec
<1>1. AdminInit => AccountsInit /\ SettingsInit
  BY DEF AdminInit
<1>2. [AdminNext]_adminVars => [AccountsNext]_accountVars /\ [SettingsNext]_settingsVars
  BY DEF AdminNext, adminVars
<1> QED
  BY <1>1, <1>2, PTL DEF AdminSpec, AccountsSpec, SettingsSpec

\* What the sign-in and the settings promise, of the admin run: accepted invites are
\* memberships, roles stay, and queues that calls refer to are not deleted.
THEOREM AdminSafety == AdminSpec => []AcceptedIsMember /\ RoleIsStable /\ []HistoryKept
  BY AdminRefines, AcceptedIsMemberHolds, RoleIsStableHolds, HistoryKeptHolds, PTL

\* The windows of the run cover what they should in every state: on any day of at least
\* three minutes, in which the windows fit (hours.ts, openState).
THEOREM ScheduleAgreesHolds ==
  ASSUME DayLength >= 3 PROVE AdminSpec => []ScheduleAgrees
<1> DEFINE windows == [dow: {0}, from: {0, 1, 2}, to: {0, 2, 3}]
<1>1. windows \subseteq Window
  <2>1. 0 \in 0..6 /\ {0, 1, 2} \subseteq 0..DayLength /\ {0, 2, 3} \subseteq 0..DayLength
    BY HoursAssumption
  <2> QED
    BY <2>1 DEF Window
<1>2. ScheduleIsCover({0, 1}, windows)
  <2>1. {0, 1} \subseteq 0..6
    OBVIOUS
  <2> QED
    BY <1>1, <2>1, ScheduleCovers
<1>3. ScheduleAgrees
  BY <1>2 DEF ScheduleAgrees
<1> QED
  BY <1>3, PTL
==============================================================================
