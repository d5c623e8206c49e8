------------------------------ MODULE Projects ------------------------------
(***************************************************************************)
(* The projects: requests of the admin page that add, change and remove    *)
(* them (each in a thread of the server), the registry with its file and   *)
(* the secrets, in the file or in the OS keyring, the bots that the webhook *)
(* routes to, and the webhooks set at Telegram; ends, and the start of     *)
(* the server with the migration of the secrets.                           *)
(*                                                                         *)
(* The registry's lock makes a change of the projects and its write one    *)
(* step, which a crash or a refusing keyring can cut short.                *)
(***************************************************************************)
EXTENDS Naturals, SequencesExt, NoneValue

CONSTANTS
  Names,        \* names of projects
  Tokens,       \* tokens of bots, each with a hash of its own
  Secrets,      \* webhook secrets,
  Strip,        \*   and each without the blanks around it
  Requests,     \* threads of admin requests
  AllowPlaintext, \* REMOTE_CODER_ALLOW_PLAINTEXT_SECRETS
  Legacy,       \* a file of before the keyring: a sequence of records
  MaxRequests,  \* bound: admin requests
  MaxEnds       \* bound: crashes and stops of the server

VARIABLES
  projects, default,  \* ProjectRegistry._payload
  disk,      \* projects.json
  keyring,   \* token and webhook secret of each project in the OS keyring
  usable,    \* whether there is a usable keyring
  boot,      \* how far the start of the server is
  backend,   \* the secret store of the running server
  byName, byHash,  \* BotInstanceManager
  hook,      \* secret_token of the webhook of each token at Telegram
  change,    \* what each admin request is at
  served,    \* how many there were
  ends,
  failed,    \* history: the keyring refused a write
  crowded,   \* history: projects of requests that got in each other's way
  unhooked   \* history: tokens whose last setWebhook failed, or never was

registry == <<projects, default>>
stored == <<disk, keyring>>
bots == <<byName, byHash>>
mishaps == <<failed, crowded, unhooked>>
registryVars ==
  <<registry, stored, usable, boot, backend, bots, hook, change, served, ends, mishaps>>

ProjectRecord == [name : Names, token : Tokens, secret : Secrets \cup {None}, enabled : BOOLEAN]
NoBot == [name |-> None, token |-> None, secret |-> None, enabled |-> FALSE]
Empty == [token |-> None, secret |-> None]
Idle == [pc |-> "idle", rec |-> NoBot]
File(marker, d, ps) == [state |-> "ok", marker |-> marker, default |-> d, projects |-> ps]
Absent == [File("plaintext", None, <<>>) EXCEPT !.state = "absent"]

NamesOf(rs) == {r.name : r \in rs}
TokensOf(rs) == {r.token : r \in rs}
RecordOf(rs, n) == CHOOSE r \in rs : r.name = n
Registered == NamesOf(Range(projects))
Distinct(ps) ==
  \A i, k \in DOMAIN ps : i # k => ps[i].name # ps[k].name /\ ps[i].token # ps[k].token

(* The names are distinct: one record goes.                                *)
WithoutProject(ps, n) == RemoveAt(ps, CHOOSE i \in DOMAIN ps : ps[i].name = n)

(* The legacy file was written by a version that refused the same collisions. *)
ASSUME ProjectsAssumption ==
  /\ AllowPlaintext \in BOOLEAN /\ {MaxRequests, MaxEnds} \subseteq Nat
  /\ Strip \in [Secrets -> Secrets] /\ None \notin Names \cup Tokens \cup Secrets
  /\ Legacy \in Seq(ProjectRecord) /\ Distinct(Legacy)

RegistryInit ==
  /\ disk \in {Absent} \cup (IF Legacy = <<>> THEN {} ELSE {File("plaintext", Head(Legacy).name, Legacy)})
  /\ projects = <<>> /\ default = None /\ keyring = [n \in Names |-> Empty] /\ usable = TRUE
  /\ boot = "down" /\ backend = "none"
  /\ byName = [n \in Names |-> NoBot] /\ byHash = [t \in Tokens |-> NoBot]
  /\ hook = [t \in Tokens |-> None] /\ change = [q \in Requests |-> Idle] /\ served = 0
  /\ ends = 0 /\ failed = FALSE /\ crowded = {} /\ unhooked = Tokens

-----------------------------------------------------------------------------
(* Secrets and the file.                                                   *)

(* Every start of the server probes the keyring anew.                      *)
FindsKeyring == usable' \in BOOLEAN

(* The keyring after the secrets of the first k projects are stored in it. *)
StoredSecrets(ps, k) ==
  [n \in Names |-> IF n \in NamesOf(Range(SubSeq(ps, 1, k)))
                   THEN LET r == RecordOf(Range(ps), n) IN [token |-> r.token, secret |-> r.secret]
                   ELSE keyring[n]]

StripSecrets(r) == [r EXCEPT !.token = None, !.secret = None]
HasInline == disk.state = "ok" /\ \E r \in Range(disk.projects) : r.token # None

Storable(ps) == IF backend = "keyring" THEN [i \in DOMAIN ps |-> StripSecrets(ps[i])] ELSE ps

(* A faulty variant: the secrets of a project are stored once.             *)
WrittenOnce(ps, d) ==
  [disk |-> File(backend, d, Storable(ps)),
   keyring |-> IF backend = "keyring"
               THEN [n \in Names |-> IF keyring[n] = Empty THEN StoredSecrets(ps, Len(ps))[n] ELSE keyring[n]]
               ELSE keyring]

(* The secrets of a project that is no more.                               *)
Deleted(ring, n) == IF backend = "keyring" THEN [ring EXCEPT ![n] = Empty] ELSE ring

(* What a write may come to.  Every project's secrets are stored, then the *)
(* file is overwritten in place.  A refusal is one of the keyring; a file  *)
(* that cannot be written after it (OSError) is left out.                  *)
Written(ps, d) ==
  [disk |-> File(backend, d, Storable(ps)),
   keyring |-> IF backend = "keyring" THEN StoredSecrets(ps, Len(ps)) ELSE keyring]
Refused(ps) ==
  IF backend = "keyring"
  THEN {[disk |-> disk, keyring |-> StoredSecrets(ps, k)] : k \in 0 .. Len(ps) - 1} \cup
       {[disk |-> disk, keyring |-> [StoredSecrets(ps, k - 1) EXCEPT ![ps[k].name].token = ps[k].token]] :
          k \in DOMAIN ps}
  ELSE {}
CutShort(ps, d) ==
  {[Written(ps, d) EXCEPT !.disk = disk], [Written(ps, d) EXCEPT !.disk.state = "torn"]} \cup Refused(ps)

(* _inject_secrets: the record as read, without a token if there is none.  *)
Inject(r) == IF disk.marker = "keyring"
             THEN [r EXCEPT !.token = keyring[r.name].token, !.secret = keyring[r.name].secret] ELSE r
Loaded == [i \in DOMAIN disk.projects |-> Inject(disk.projects[i])]
Loads ==
  /\ disk.state # "torn" /\ None \notin TokensOf(Range(Loaded))
  /\ disk.marker = "keyring" /\ disk.projects # <<>> => usable

-----------------------------------------------------------------------------
(* Admin requests.                                                         *)

Up == boot = "up"
InFlight(q) == change[q].pc # "idle"
Advances(q, pc, r) == change' = [change EXCEPT ![q] = [pc |-> pc, rec |-> r]]
Responds(q) == change' = [change EXCEPT ![q] = Idle]
Arrives(q) == Up /\ ~InFlight(q) /\ served < MaxRequests /\ served' = served + 1
Collides(ps, r) == r.token \in TokensOf(Range(ps))

(* A change of a project crowds one in flight about the same project, or one *)
(* whose bot, the former or the new, has its token; so does a bot that such *)
(* requests left behind.                                                   *)
Holds(m, tok) == tok \in {byName[m].token} \cup {change[u].rec.token : u \in {u \in Requests : change[u].rec.name = m}}
InTheWay(q, n, tok) ==
  {m \in crowded \cup {change[u].rec.name : u \in {u \in Requests \ {q} : InFlight(u)}} :
     m = n \/ (tok # None /\ Holds(m, tok))}
Crowds(q, n, tok) == crowded' = IF InTheWay(q, n, tok) = {} THEN crowded
                                ELSE crowded \cup {n} \cup InTheWay(q, n, tok)

Dies ==
  /\ boot' = "down" /\ backend' = "none" /\ projects' = <<>> /\ default' = None
  /\ byName' = [n \in Names |-> NoBot] /\ byHash' = [t \in Tokens |-> NoBot]
  /\ change' = [q \in Requests |-> Idle] /\ ends < MaxEnds /\ ends' = ends + 1
  /\ UNCHANGED <<failed, crowded>> /\ FindsKeyring
  /\ unhooked' = unhooked \cup ({change[q].rec.token : q \in Requests} \ {None}) /\ UNCHANGED hook
Lives == UNCHANGED <<boot, backend, bots, hook, ends, usable, unhooked>>

(* The registry keeps the projects ps, then writes them; what follows is   *)
(* `next` after a write, nothing after a refused one.                      *)
Saves(q, ps, d, next, r) ==
  \/ /\ projects' = ps /\ default' = d /\ Lives
     /\ \/ disk' = Written(ps, d).disk /\ keyring' = Written(ps, d).keyring
           /\ Advances(q, next, r) /\ UNCHANGED failed
        \/ \E w \in Refused(ps) : disk' = w.disk /\ keyring' = w.keyring
           /\ Responds(q) /\ failed' = TRUE
     /\ Crowds(q, r.name, r.token)
  \/ Dies /\ \E w \in CutShort(ps, d) : disk' = w.disk /\ keyring' = w.keyring

(* POST /api/projects: add_project.                                        *)
Create(q) ==
  /\ Arrives(q)
  /\ \E r \in {x \in ProjectRecord : x.secret # None /\ x.secret = Strip[x.secret]} :
       IF r.name \in Registered \/ Collides(projects, r)
       THEN Responds(q) /\ Lives /\ UNCHANGED <<registry, stored, failed, crowded>>
       ELSE Saves(q, Append(projects, r), IF default = None THEN r.name ELSE default, "sync", r)

(* PUT /api/projects/{name}: what the body omits is kept from the record as *)
(* it is now; 404 if there is none.                                        *)
Update(q) ==
  /\ Arrives(q) /\ Lives /\ UNCHANGED <<registry, stored, failed>>
  /\ \E n \in Registered :
       \E tok \in Tokens, secret \in Secrets \cup {None}, on \in BOOLEAN :
         /\ Advances(q, "save", [name |-> n, token |-> tok, secret |-> secret, enabled |-> on])
         /\ crowded' = crowded \cup InTheWay(q, n, None)

(* update_project: the record goes to the end.                             *)
UpdateProject(q) ==
  /\ change[q].pc = "save" /\ UNCHANGED served
  /\ LET r == change[q].rec
         others == WithoutProject(projects, r.name)
     IN  IF r.name \notin Registered \/ Collides(others, r)
         THEN Responds(q) /\ Lives /\ UNCHANGED <<registry, stored, failed, crowded>>
         ELSE Saves(q, Append(others, r), default, "sync", r)

(* DELETE /api/projects/{name}: remove_project, which drops the secrets once *)
(* the file is written.                                                    *)
RemoveProject(q) ==
  /\ Arrives(q)
  /\ \E n \in Registered :
       LET ps == WithoutProject(projects, n)
           d == IF ps = <<>> THEN None ELSE IF n = default THEN Head(ps).name ELSE default
           r == RecordOf(Range(projects), n)
           w == Written(ps, d)
       IN  \/ /\ projects' = ps /\ default' = d /\ Lives /\ Crowds(q, n, None)
              /\ \/ /\ disk' = w.disk /\ Advances(q, "unregister", r) /\ UNCHANGED failed
                    /\ keyring' = Deleted(w.keyring, n)
                 \/ \E x \in Refused(ps) : disk' = x.disk /\ keyring' = x.keyring
                    /\ Responds(q) /\ failed' = TRUE
           \/ Dies /\ \E x \in CutShort(ps, d) \cup {w} : disk' = x.disk /\ keyring' = x.keyring

(* POST /api/projects/default.                                             *)
SetDefault(q) ==
  /\ Arrives(q)
  /\ \E r \in Range(projects) : Saves(q, projects, r.name, "idle", NoBot)

-----------------------------------------------------------------------------
(* Bots and webhooks.                                                      *)

(* A faulty variant: the old hash goes on routing.                         *)
RegisterOnly(r) ==
  /\ byName' = [byName EXCEPT ![r.name] = r]
  /\ byHash' = [byHash EXCEPT ![r.token] = r]

(* BotInstanceManager: the hash of the former bot goes, whosever it is.    *)
Register(r) ==
  /\ byName' = [byName EXCEPT ![r.name] = r]
  /\ byHash' = [t \in Tokens |-> IF t = r.token THEN r
                                 ELSE IF t = byName[r.name].token THEN NoBot ELSE byHash[t]]
Unregister(n) ==
  /\ byName' = [byName EXCEPT ![n] = NoBot]
  /\ byHash' = [t \in Tokens |-> IF t = byName[n].token THEN NoBot ELSE byHash[t]]

(* _sync_bot_instance.                                                     *)
SyncBot(q) ==
  /\ change[q].pc = "sync"
  /\ LET r == change[q].rec IN
     IF r.enabled THEN Register(r) /\ Advances(q, "hook", r) ELSE Unregister(r.name) /\ Responds(q)
  /\ UNCHANGED <<registry, stored, usable, boot, backend, hook, served, ends, mishaps>>
UnregisterBot(q) ==
  /\ change[q].pc = "unregister" /\ Unregister(change[q].rec.name) /\ Responds(q)
  /\ UNCHANGED <<registry, stored, usable, boot, backend, hook, served, ends, mishaps>>

SecretToken(r) == IF r.secret = None THEN None ELSE Strip[r.secret]

(* Faulty variant: the webhook is set as it was.                           *)
SetWebhookStale(r) == unhooked' = unhooked \ {r.token} /\ UNCHANGED hook

(* sync_project: Telegram takes the webhook, or the request fails.         *)
SetWebhook(r) ==
  \/ hook' = [hook EXCEPT ![r.token] = SecretToken(r)] /\ unhooked' = unhooked \ {r.token}
  \/ UNCHANGED hook /\ unhooked' = unhooked \cup {r.token}

(* The webhook passes an update on: the hash names a bot, whose secret, if it *)
(* has one, is the one that Telegram sends.                                *)
Accepted(t) ==
  byHash[t] # NoBot /\ (byHash[t].secret # None => hook[t] = byHash[t].secret)

SyncWebhook(q) ==
  /\ change[q].pc = "hook" /\ SetWebhook(change[q].rec) /\ Responds(q)
  /\ UNCHANGED <<registry, stored, usable, boot, backend, bots, served, ends, failed, crowded>>

-----------------------------------------------------------------------------
(* Crash and start.                                                        *)

ServerCrash == Up /\ Dies /\ UNCHANGED <<stored, served>>

Starting == UNCHANGED <<registry, backend, bots, change, served, failed, crowded>>

(* Faulty variant: the marker is written before the secrets are moved.     *)
MigrateMarked ==
  /\ boot = "down" /\ usable /\ HasInline /\ UNCHANGED <<hook, unhooked>> /\ Starting
  /\ disk' = [disk EXCEPT !.marker = "keyring"] /\ UNCHANGED <<keyring, boot, usable, ends>>

(* migrate_plaintext_to_keyring: each secret is stored and read back, then *)
(* the file is replaced at once.  A failure restores the keyring; a crash  *)
(* does not.                                                               *)
Migrate ==
  /\ boot = "down" /\ usable /\ HasInline /\ UNCHANGED <<hook, unhooked>> /\ Starting
  /\ LET ps == disk.projects IN
     \/ /\ keyring' = StoredSecrets(ps, Len(ps)) /\ boot' = "migrated"
        /\ disk' = [disk EXCEPT !.marker = "keyring",
                                !.projects = [i \in DOMAIN ps |-> StripSecrets(ps[i])]]
        /\ UNCHANGED <<usable, ends>>
     \/ /\ UNCHANGED <<stored, boot>> /\ FindsKeyring
        /\ ends < MaxEnds /\ ends' = ends + 1
     \/ /\ \E k \in 1 .. Len(ps) : keyring' = StoredSecrets(ps, k)
        /\ ends < MaxEnds /\ ends' = ends + 1 /\ FindsKeyring
        /\ UNCHANGED <<disk, boot>>

(* mark_secret_backend, which replaces the file at once.                   *)
MarkBackend == disk' = [disk EXCEPT !.state = "ok", !.marker = "keyring"]

(* build_secret_store, mark_secret_backend: the keyring if it can be used; *)
(* otherwise plaintext if the file has it or the user allows it.           *)
Prepare ==
  /\ boot \in {"down", "migrated"} /\ boot' = "prepared" /\ ~(usable /\ HasInline)
  /\ IF usable
     THEN disk.state # "torn" /\ MarkBackend
     ELSE (HasInline \/ AllowPlaintext) /\ UNCHANGED disk
  /\ Starting /\ UNCHANGED <<keyring, usable, hook, ends, unhooked>>

(* register_all_enabled_projects, when there is a tunnel: each may fail.   *)
RegisterAll ==
  /\ boot = "prepared" /\ boot' = "registered" /\ Loads
  /\ LET on == {r \in Range(Loaded) : r.enabled} IN
     \E ok \in SUBSET on :
       /\ hook' = [t \in Tokens |-> IF \E r \in ok : r.token = t
                                    THEN SecretToken(CHOOSE r \in ok : r.token = t) ELSE hook[t]]
       /\ unhooked' = (unhooked \ TokensOf(ok)) \cup TokensOf(on \ ok)
  /\ Starting /\ UNCHANGED <<stored, usable, ends>>

(* The bots of the enabled projects.                                       *)
RegisterBots(on) ==
  /\ byName' = [n \in Names |-> IF n \in NamesOf(on) THEN RecordOf(on, n) ELSE NoBot]
  /\ byHash' = [t \in Tokens |-> IF t \in TokensOf(on) THEN CHOOSE r \in on : r.token = t ELSE NoBot]

(* The server starts, from `up` or by itself: it reads the file with the   *)
(* store that its marker names, and registers the bots.                    *)
StartServer ==
  /\ boot \in {"down", "prepared", "registered"} /\ Loads
  /\ boot' = "up" /\ backend' = disk.marker
  /\ projects' = Loaded /\ default' = disk.default
  /\ disk' = [disk EXCEPT !.state = "ok"]
  /\ RegisterBots({r \in Range(Loaded) : r.enabled})
  /\ UNCHANGED <<keyring, usable, hook, change, served, ends, mishaps>>

(* Nothing is asked any more, or the server cannot start.                  *)
AtRest == (\A q \in Requests : ~InFlight(q)) /\ UNCHANGED registryVars

RegistryNext ==
  \/ \E q \in Requests : \/ Create(q) \/ Update(q) \/ UpdateProject(q) \/ RemoveProject(q) \/ SetDefault(q)
                         \/ SyncBot(q) \/ UnregisterBot(q) \/ SyncWebhook(q)
  \/ ServerCrash \/ Migrate \/ Prepare \/ RegisterAll \/ StartServer \/ AtRest

RegistrySpec == RegistryInit /\ [][RegistryNext]_registryVars

-----------------------------------------------------------------------------
(* Properties.                                                             *)

(* The hash of a token never routes to a bot that was replaced or          *)
(* unregistered, whatever requests overlap.                                *)
NoStaleBot ==
  \A t \in Tokens : byHash[t] # NoBot => byHash[t].token = t /\ byName[byHash[t].name] = byHash[t]

(* At rest an update of Telegram for an enabled project reaches the bot of *)
(* its record and passes its secret; unless requests crowded each other, or *)
(* the keyring or Telegram refused, or the secret has blanks around it.    *)
UpdatesReachTheirBot ==
  Up /\ ~failed /\ (\A q \in Requests : ~InFlight(q)) =>
    \A r \in Range(projects) : r.enabled /\ r.name \notin crowded =>
      /\ byName[r.name] = r /\ byHash[r.token] = r
      /\ r.token \notin unhooked /\ r.secret = SecretToken(r) => Accepted(r.token)

(* A server with a keyring can start again with what it has on disk, at any *)
(* moment of any write and of the migration, but for the instant in which  *)
(* the file is overwritten; and a restart brings back the projects as they *)
(* are, unless the keyring refused a write.                                *)
StartsAgain == None \notin TokensOf(Range(Loaded))

RestartKeepsProjects ==
  disk.state = "ok" =>
    StartsAgain /\ (Up /\ ~failed => Loaded = projects /\ disk.default = default)
=============================================================================
