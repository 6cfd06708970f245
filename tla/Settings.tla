------------------------------- MODULE Settings -------------------------------
(***************************************************************************)
(* The configuration of one tenant while several supervisors edit it: the  *)
(* settings cards of the web desk, each with what it last loaded, the      *)
(* routes (routes/admin.ts), and the services that read and write the rows *)
(* (services/tenants.ts, services/mediaAssets.ts).  The public endpoint    *)
(* that creates calls (routes/public.ts) reads the same rows.              *)
(*                                                                         *)
(* No service function is in a transaction: a request in flight is a       *)
(* record `req[s]` of its local variables, `pc` names its next statement,  *)
(* and requests interleave between statements.  The SELECTs of             *)
(* resolveEmbedKey are one step: nothing that changes between them matters.*)
(*                                                                         *)
(* Left out: names, labels and time zones, the bytes of the sounds, and    *)
(* the permission checks in front of the routes (Accounts has them).       *)
(***************************************************************************)
EXTENDS Hours, FiniteSets

CONSTANTS
  Members,     \* user ids of the tenant's members
  Skills,      \* skill keys
  Queues,      \* ids of queue rows
  KeyOf,       \* the key each row is created with
  Support,     \* the row createTenant inserts
  Assets,      \* ids of uploaded sounds
  EmbedKeys,   \* ids of embed keys
  Allowed,     \* the origins each of them is created with; none means any
  Origins,     \* origins of websites
  Configs,     \* routing configurations of a queue;
  Plain,       \* the one a row is created with
  Hourly,      \* the opening-hours configurations supervisors choose from
  Pages,       \* browsers with the settings open
  Requests,    \* slots for requests in flight
  Absent,      \* SQL null: no sound, no page, no queue
  Edits,       \* bound: the operations of a run
  MaxEdits     \* bound: requests in a run

ASSUME SettingsAssumption ==
  /\ Support \in Queues /\ DOMAIN KeyOf = Queues
  /\ Absent \notin Assets \cup Pages \cup Queues
  /\ Hourly \subseteq HoursConfig /\ MaxEdits \in Nat
  /\ Allowed \in [EmbedKeys -> SUBSET Origins] /\ Plain \in Configs

VARIABLES
  settings,  \* the JSON on the tenant row
  queue,     \* per queue id: absent, active, or archived
  staff,     \* rows of queue_member
  skilled,   \* rows of user_skill
  called,    \* queues that some call row refers to
  assets,    \* rows of media_asset
  embedKey,  \* rows of embed_key
  config,    \* per queue id, its routing configuration
  page,      \* per browser: what its settings cards were loaded with
  req,       \* per slot, the request in flight
  edits      \* requests so far

settingsVars == <<settings, queue, staff, skilled, called, assets, embedKey, config, page, req, edits>>

-----------------------------------------------------------------------------
\* TenantSettings, by the keys that cards edit.

SettingValues(k) ==
  CASE k = "routingMode" -> {"ai-first", "human-first"}
    [] k = "acwSec" -> {0, 30}
    [] k = "hours" -> Hourly
    [] k = "sounds" -> Assets \cup {Absent}

SettingKeys == {"routingMode", "acwSec", "hours", "sounds"}

TenantSettings == [routingMode: SettingValues("routingMode"), acwSec: SettingValues("acwSec"),
                   hours: SettingValues("hours"), sounds: SettingValues("sounds")]

\* The keys the routing card owns and sends (OWN_KEYS).
RoutingKeys == {"routingMode", "acwSec"}

Defaults == CHOOSE f \in TenantSettings :
              f.routingMode = "ai-first" /\ f.acwSec = 30 /\ f.hours.mode = "off" /\ f.sounds = Absent

\* What the route hands on: TenantSettings.partial() makes each key optional around
\* its default, and Zod 4 applies the default of an optional key the body leaves out.
ParsePartial(body) ==
  [k \in SettingKeys |-> IF k \in DOMAIN body THEN body[k] ELSE Defaults[k]]

Merge(current, patch) ==
  [k \in SettingKeys |-> IF k \in DOMAIN patch THEN patch[k] ELSE current[k]]

-----------------------------------------------------------------------------
Active == {q \in Queues : queue[q] = "active"}

Free == [pc |-> "idle", queue |-> Absent, who |-> Absent, list |-> {},
         patch |-> <<>>, copy |-> <<>>]

\* What the queries of the settings page return now.
Snapshot == [settings |-> settings, queues |-> Active, staff |-> staff, skilled |-> skilled]

SettingsInit ==
  /\ settings = Defaults
  /\ \E also \in {{q} : q \in Queues} : \* the support queue, and perhaps a second one
       /\ \A q \in also : KeyOf[q] = KeyOf[Support] => q = Support
       /\ queue = [q \in Queues |-> IF q \in {Support} \cup also THEN "active" ELSE "absent"]
  /\ \E u \in Members : staff = [q \in Queues |-> IF q = Support THEN {u} ELSE {}]
  /\ skilled = [u \in Members |-> {}]
  /\ called = {} /\ assets = {} /\ embedKey = EmbedKeys
  /\ config = [q \in Queues |-> Plain]
  /\ page = [p \in Pages |-> Snapshot]
  /\ req = [s \in Requests |-> Free]
  /\ edits = 0

Start(s, op, r) ==
  /\ op \in Edits /\ req[s] = Free /\ edits < MaxEdits
  /\ edits' = edits + 1
  /\ req' = [req EXCEPT ![s] = r]

\* A request of a single statement.
Single(op) == op \in Edits /\ edits < MaxEdits /\ edits' = edits + 1

Done(s) == req' = [req EXCEPT ![s] = Free]
Proceed(s, pc) == req' = [req EXCEPT ![s].pc = pc]

-----------------------------------------------------------------------------
\* PATCH /tenant/settings: updateSettings reads the row, merges the patch over it,
\* and writes the whole object back.
PatchSettings(s, patch) ==
  /\ Start(s, "save", [Free EXCEPT !.pc = "merge", !.patch = ParsePartial(patch)])
  /\ UNCHANGED <<settings, queue, staff, skilled, called, assets, embedKey, config, page>>

\* A card sends its draft, which began as what the page had loaded: the routing card
\* all of its keys, the others the one they edit.
Draft(p, keys, k, v) == [x \in keys |-> IF x = k THEN v ELSE page[p].settings[x]]

SaveRouting(s, p, k, v) == PatchSettings(s, Draft(p, RoutingKeys, k, v))

SaveHours(s, p, hours) == PatchSettings(s, Draft(p, {"hours"}, "hours", hours))

\* A sound is a file that was uploaded, or none.
SaveSounds(s, p, sound) ==
  sound \in assets \cup {Absent} /\ PatchSettings(s, Draft(p, {"sounds"}, "sounds", sound))

ReadSettings(s) ==
  /\ req[s].pc = "merge"
  /\ req' = [req EXCEPT ![s].copy = settings, ![s].pc = "write"]
  /\ UNCHANGED <<settings, queue, staff, skilled, called, assets, embedKey, config, page, edits>>

WriteSettings(s) ==
  /\ req[s].pc = "write"
  /\ settings' = Merge(req[s].copy, req[s].patch) /\ Done(s)
  /\ UNCHANGED <<queue, staff, skilled, called, assets, embedKey, config, page, edits>>

-----------------------------------------------------------------------------
\* PUT /queues/:id/members: a checkbox sends the list the page knows, with or
\* without the member; setQueueMembers replaces the rows.

Toggle(set, x) == IF x \in set THEN set \ {x} ELSE set \cup {x}

ToggleMember(s, p, q, u) ==
  /\ q \in page[p].queues
  /\ Start(s, "members", [Free EXCEPT !.pc = "find", !.queue = q,
                                      !.list = Toggle(page[p].staff[q], u)])
  /\ UNCHANGED <<settings, queue, staff, skilled, called, assets, embedKey, config, page>>

\* An archived queue is found too.
FindQueue(s) ==
  /\ req[s].pc = "find"
  /\ IF queue[req[s].queue] = "absent" THEN Done(s) ELSE Proceed(s, "clear")
  /\ UNCHANGED <<settings, queue, staff, skilled, called, assets, embedKey, config, page, edits>>

ClearStaff(s) ==
  /\ req[s].pc = "clear"
  /\ staff' = [staff EXCEPT ![req[s].queue] = {}]
  /\ IF req[s].list = {} THEN Done(s) ELSE Proceed(s, "enlist")
  /\ UNCHANGED <<settings, queue, skilled, called, assets, embedKey, config, page, edits>>

\* One INSERT of all rows: a row that exists already or a queue that is gone fails
\* it as a whole (primary and foreign key), and the request ends in a 500.
InsertStaff(s) ==
  /\ req[s].pc = "enlist"
  /\ staff' = [staff EXCEPT ![req[s].queue] =
                 IF queue[req[s].queue] = "absent" \/ @ \cap req[s].list # {}
                 THEN @ ELSE @ \cup req[s].list]
  /\ Done(s)
  /\ UNCHANGED <<settings, queue, skilled, called, assets, embedKey, config, page, edits>>

\* PUT /members/:userId/skills: likewise, for the skills of a member.
SaveSkills(s, p, u, k) ==
  /\ Start(s, "skills", [Free EXCEPT !.pc = "unskill", !.who = u,
                                     !.list = Toggle(page[p].skilled[u], k)])
  /\ UNCHANGED <<settings, queue, staff, skilled, called, assets, embedKey, config, page>>

ClearSkills(s) ==
  /\ req[s].pc = "unskill"
  /\ skilled' = [skilled EXCEPT ![req[s].who] = {}]
  /\ IF req[s].list = {} THEN Done(s) ELSE Proceed(s, "skill")
  /\ UNCHANGED <<settings, queue, staff, called, assets, embedKey, config, page, edits>>

InsertSkills(s) ==
  /\ req[s].pc = "skill"
  /\ skilled' = [skilled EXCEPT ![req[s].who] =
                   IF @ \cap req[s].list # {} THEN @ ELSE @ \cup req[s].list]
  /\ Done(s)
  /\ UNCHANGED <<settings, queue, staff, called, assets, embedKey, config, page, edits>>

-----------------------------------------------------------------------------
\* POST /queues.  The index allows one active queue per key; archived ones do not count.
KeyFree(q) == \A r \in Active : KeyOf[r] # KeyOf[q]

NewQueue(q) ==
  /\ queue[q] = "absent" /\ KeyFree(q)
  /\ queue' = [queue EXCEPT ![q] = "active"]
  /\ config' = [config EXCEPT ![q] = Plain]

CreateQueue(q) ==
  /\ Single("queues") /\ NewQueue(q)
  /\ UNCHANGED <<settings, staff, skilled, called, assets, embedKey, page, req>>

\* PUT /queues/:id/config, one UPDATE: of an archived queue too.
SetQueueConfig(q, cfg) ==
  config' = IF queue[q] = "absent" THEN config ELSE [config EXCEPT ![q] = cfg]

SaveQueueRouting(p, q, cfg) ==
  /\ q \in page[p].queues /\ Single("config") /\ SetQueueConfig(q, cfg)
  /\ UNCHANGED <<settings, queue, staff, skilled, called, assets, embedKey, page, req>>

\* DELETE /queues/:id: deleteQueue looks at the active queues, then for calls, and
\* drops the row or archives it.
DeleteQueue(s, p, q) ==
  /\ q \in page[p].queues
  /\ Start(s, "queues", [Free EXCEPT !.pc = "active", !.queue = q])
  /\ UNCHANGED <<settings, queue, staff, skilled, called, assets, embedKey, config, page>>

CountActive(s) ==
  /\ req[s].pc = "active"
  /\ IF req[s].queue \notin Active \/ Active = {req[s].queue} THEN Done(s)
     ELSE Proceed(s, "used")
  /\ UNCHANGED <<settings, queue, staff, skilled, called, assets, embedKey, config, page, edits>>

LookForCalls(s) ==
  /\ req[s].pc = "used"
  /\ Proceed(s, IF req[s].queue \in called THEN "unstaff" ELSE "drop")
  /\ UNCHANGED <<settings, queue, staff, skilled, called, assets, embedKey, config, page, edits>>

\* Mutant: the foreign key of call cascades.
DropQueueCascade(s) ==
  /\ req[s].pc = "drop" /\ Done(s)
  /\ queue' = [queue EXCEPT ![req[s].queue] = "absent"]
  /\ staff' = [staff EXCEPT ![req[s].queue] = {}]
  /\ UNCHANGED <<settings, skilled, called, assets, embedKey, config, page, edits>>

\* The foreign key of a call that came in meanwhile refuses the DELETE (a 500).
DropQueue(s) ==
  /\ req[s].pc = "drop" /\ Done(s)
  /\ IF req[s].queue \in called THEN UNCHANGED <<queue, staff>>
     ELSE /\ queue' = [queue EXCEPT ![req[s].queue] = "absent"]
          /\ staff' = [staff EXCEPT ![req[s].queue] = {}]
  /\ UNCHANGED <<settings, skilled, called, assets, embedKey, config, page, edits>>

UnstaffQueue(s) ==
  /\ req[s].pc = "unstaff" /\ Proceed(s, "archive")
  /\ staff' = [staff EXCEPT ![req[s].queue] = {}]
  /\ UNCHANGED <<settings, queue, skilled, called, assets, embedKey, config, page, edits>>

ArchiveQueue(s) ==
  /\ req[s].pc = "archive" /\ Done(s)
  /\ queue' = [queue EXCEPT ![req[s].queue] = IF @ = "absent" THEN @ ELSE "archived"]
  /\ UNCHANGED <<settings, staff, skilled, called, assets, embedKey, config, page, edits>>

-----------------------------------------------------------------------------
\* Sounds, embed keys, and what a browser reloads.

CreateMediaAsset(a) == a \notin assets /\ assets' = assets \cup {a}
DeleteMediaAsset(a) == a \in assets /\ assets' = assets \ {a}

\* POST /media-assets, of a file that is audio of at most 5 MiB, and RIFF if it says WAV.
UploadSound(a) ==
  /\ Single("sounds") /\ CreateMediaAsset(a)
  /\ UNCHANGED <<settings, queue, staff, skilled, called, embedKey, config, page, req>>

\* DELETE /media-assets/:id: settings that name the sound stay as they are.
DeleteSound(a) ==
  /\ Single("sounds") /\ DeleteMediaAsset(a)
  /\ UNCHANGED <<settings, queue, staff, skilled, called, embedKey, config, page, req>>

CreateEmbedKey(k) == k \notin embedKey /\ embedKey' = embedKey \cup {k}
DeleteEmbedKey(k) == k \in embedKey /\ embedKey' = embedKey \ {k}

\* POST and DELETE /embed-keys.
AddKey(k) ==
  /\ Single("keys") /\ CreateEmbedKey(k)
  /\ UNCHANGED <<settings, queue, staff, skilled, called, assets, config, page, req>>

RemoveKey(k) ==
  /\ Single("keys") /\ DeleteEmbedKey(k)
  /\ UNCHANGED <<settings, queue, staff, skilled, called, assets, config, page, req>>

Reload(p) ==
  /\ page[p] # Snapshot
  /\ page' = [page EXCEPT ![p] = Snapshot]
  /\ UNCHANGED <<settings, queue, staff, skilled, called, assets, embedKey, config, req, edits>>

\* POST /api/public/calls, as far as the configuration goes: the key, the origin, the
\* active queue of that name and the opening hours decide; the row is inserted afterwards.
OriginAllowed(allowed, origin) == allowed = {} \/ origin \in allowed

ResolveEmbedKey(k, name) ==
  {q \in Active : k \in embedKey /\ KeyOf[q] = name}

StartCall(s, k, name, origin, now) ==
  /\ OriginAllowed(Allowed[k], origin) /\ OpenState(settings.hours, now) = "open"
  /\ \E q \in ResolveEmbedKey(k, name) :
       Start(s, "call", [Free EXCEPT !.pc = "create", !.queue = q])
  /\ UNCHANGED <<settings, queue, staff, skilled, called, assets, embedKey, config, page>>

\* The foreign key refuses a call in a queue that was deleted meanwhile.
InsertCall(s) ==
  /\ req[s].pc = "create" /\ Done(s)
  /\ called' = IF queue[req[s].queue] = "absent" THEN called ELSE called \cup {req[s].queue}
  /\ UNCHANGED <<settings, queue, staff, skilled, assets, embedKey, config, page, edits>>

ServiceStatement(s) ==
  \/ ReadSettings(s) \/ WriteSettings(s) \/ FindQueue(s) \/ ClearStaff(s) \/ InsertStaff(s)
  \/ ClearSkills(s) \/ InsertSkills(s) \/ CountActive(s) \/ LookForCalls(s) \/ DropQueue(s)
  \/ UnstaffQueue(s) \/ ArchiveQueue(s) \/ InsertCall(s)

SettingsNext ==
  \/ \E s \in Requests : ServiceStatement(s)
  \/ \E s \in Requests, p \in Pages :
       \/ \E k \in RoutingKeys : \E v \in SettingValues(k) : SaveRouting(s, p, k, v)
       \/ \E hours \in SettingValues("hours") : SaveHours(s, p, hours)
       \/ \E sound \in SettingValues("sounds") : SaveSounds(s, p, sound)
       \/ \E q \in Queues : DeleteQueue(s, p, q)
       \/ \E q \in Queues, u \in Members : ToggleMember(s, p, q, u)
       \/ \E u \in Members, k \in Skills : SaveSkills(s, p, u, k)
  \/ \E s \in Requests, k \in EmbedKeys, q \in Queues, origin \in Origins, now \in Instant :
       StartCall(s, k, KeyOf[q], origin, now)
  \/ \E q \in Queues : CreateQueue(q)
  \/ \E p \in Pages, q \in Queues, cfg \in Configs : SaveQueueRouting(p, q, cfg)
  \/ \E a \in Assets : UploadSound(a) \/ DeleteSound(a)
  \/ \E k \in EmbedKeys : AddKey(k) \/ RemoveKey(k)
  \/ \E p \in Pages : Reload(p)

SettingsSpec == SettingsInit /\ [][SettingsNext]_settingsVars

-----------------------------------------------------------------------------
SettingsTypeOK ==
  /\ settings \in TenantSettings
  /\ queue \in [Queues -> {"absent", "active", "archived"}]
  /\ staff \in [Queues -> SUBSET Members]
  /\ skilled \in [Members -> SUBSET Skills]
  /\ called \subseteq Queues /\ assets \subseteq Assets
  /\ embedKey \subseteq EmbedKeys /\ config \in [Queues -> Configs] /\ edits \in Nat

\* A queue a call went through stays a row, so the history keeps its name, however a
\* call being created, a deletion and the edits of its members interleave
\* (services/tenants.ts, deleteQueue: "call.queue_id keeps pointing at it").
HistoryKept == \A q \in called : queue[q] # "absent"

==============================================================================
