----------------------------- MODULE AdminProofs -----------------------------
(***************************************************************************)
(* What the files of an administrator lead to: the modes that add-ons      *)
(* declare, and the projects with their secrets, bots and webhooks; and    *)
(* what the page of the log shows an administrator.                        *)
(***************************************************************************)
EXTENDS Modes, Projects, LogBuffer, SubsequenceProofs

(***************************************************************************)
(* What no add-on, prompt or restart changes about the modes of jobs, for  *)
(* any add-on files, words, jobs and restarts.                             *)
(***************************************************************************)
Name ==
  BuiltinNames \cup {f.name : f \in UNION {Range(d) : d \in Directories}}

(* Every keyword and name has one mode, and the modes of add-ons only read. *)
Sound(modes) ==
  /\ Builtins \subseteq modes
  /\ \A a, b \in modes :
       a.name = b.name \/ Keywords(a) \cap Keywords(b) # {} => a = b
  /\ \A a \in modes \ Builtins : a.readOnly = TRUE /\ a.name \in Name \ BuiltinNames

(* A file that can be read, or None.                                       *)
IsFile(f) == f # None => f.readOnly \in BOOLEAN /\ f.name \in Name

LEMMA BuiltinsSound == Sound(Builtins)
<1>1. \A a \in Builtins :
        \/ a.name = "agent" /\ Keywords(a) = {} /\ a = Mode("agent", FALSE, FALSE, {})
        \/ a.name = "plan" /\ Keywords(a) = {"plan", "plan_ko"}
             /\ a = Mode("plan", TRUE, TRUE, {"plan_ko"})
        \/ a.name = "ask" /\ Keywords(a) = {"ask", "ask_ko"}
             /\ a = Mode("ask", TRUE, TRUE, {"ask_ko"})
        \/ a.name = "research" /\ Keywords(a) = {"research", "research_ko"}
             /\ a = Mode("research", TRUE, TRUE, {"research_ko"})
        \/ a.name = "agent_fix" /\ Keywords(a) = {"fix", "fix_ko"}
             /\ a = Mode("agent_fix", FALSE, FALSE, {"fix", "fix_ko"})
  BY DEF Builtins, Mode, Keywords
<1>2. \A a, b \in Builtins : a.name = b.name => a = b
  BY <1>1
<1>3. \A a, b \in Builtins : Keywords(a) \cap Keywords(b) # {} => a = b
  BY <1>1
<1> QED
  BY <1>2, <1>3 DEF Sound

LEMMA RegisterSound ==
  ASSUME NEW modes, Sound(modes), NEW file, IsFile(file)
  PROVE  Sound(RegisterMode(modes, file))
<1>1. CASE RegisterMode(modes, file) = modes
  BY <1>1
<1>2. CASE RegisterMode(modes, file) # modes
  <2>1. /\ RegisterMode(modes, file) = modes \cup {file}
        /\ file.readOnly = TRUE /\ file.name \in Name \ BuiltinNames
        /\ \A a \in modes :
             a.name # file.name /\ Keywords(a) \cap Keywords(file) = {}
    BY <1>2 DEF RegisterMode, IsFile
  <2> QED
    BY <2>1 DEF Sound
<1> QED
  BY <1>1, <1>2

(* The registries after the first files, by the least number of files for  *)
(* which there would be none.                                              *)
After(d, f, n) ==
  f = [m \in 0 .. n |-> IF m = 0 THEN Builtins ELSE RegisterMode(f[m - 1], d[m])]

LEMMA AfterExists ==
  ASSUME NEW d, Len(d) \in Nat
  PROVE  \E f : After(d, f, Len(d))
<1> DEFINE Bad == {n \in 0 .. Len(d) : ~ \E f : After(d, f, n)}
<1>1. CASE Bad = {}
  BY <1>1
<1>2. CASE Bad # {}
  <2>1. PICK b \in Bad : \A m \in Bad : b <= m
    <3>1. Bad \in SUBSET Nat
      OBVIOUS
    <3> HIDE DEF Bad
    <3> QED BY <1>2, <3>1, LeastNumber
  <2>2. b # 0
    <3>1. After(d, [m \in 0 .. 0 |-> Builtins], 0)
      BY DEF After
    <3> QED BY <2>1, <3>1
  <2>3. b \in 1 .. Len(d) /\ b - 1 \in 0 .. Len(d) /\ b - 1 \notin Bad
    BY <2>1, <2>2
  <2>4. PICK f : After(d, f, b - 1)
    BY <2>3
  <2> DEFINE g == [m \in 0 .. b |-> IF m = b THEN RegisterMode(f[b - 1], d[b]) ELSE f[m]]
  <2>5. \A m \in 0 .. b - 1 : g[m] = f[m]
    BY <2>3
  <2>6. \A m \in 0 .. b - 1 :
          f[m] = IF m = 0 THEN Builtins ELSE RegisterMode(f[m - 1], d[m])
    BY <2>4, <2>3 DEF After
  <2>7. \A m \in 0 .. b :
          g[m] = IF m = 0 THEN Builtins ELSE RegisterMode(g[m - 1], d[m])
    BY <2>2, <2>3, <2>5, <2>6
  <2>8. g = [m \in 0 .. b |-> g[m]]
    OBVIOUS
  <2>9. After(d, g, b)
    <3> HIDE DEF g
    <3> QED BY <2>7, <2>8 DEF After
  <2> QED
    BY <2>1, <2>9
<1> QED
  BY <1>1, <1>2

LEMMA LoadedSound ==
  ASSUME NEW d, Len(d) \in Nat, \A n \in 1 .. Len(d) : IsFile(d[n])
  PROVE  Sound(LoadedModes(d))
<1> DEFINE f == CHOOSE f : After(d, f, Len(d))
<1>1. After(d, f, Len(d))
  BY AfterExists
<1>2. LoadedModes(d) = f[Len(d)]
  BY DEF LoadedModes, After
<1> HIDE DEF f
<1>3. \A m \in 0 .. Len(d) :
        f[m] = IF m = 0 THEN Builtins ELSE RegisterMode(f[m - 1], d[m])
  BY <1>1 DEF After
<1> DEFINE Bad == {n \in 0 .. Len(d) : ~ Sound(f[n])}
<1>4. ASSUME Bad # {} PROVE FALSE
  <2>1. PICK b \in Bad : \A m \in Bad : b <= m
    <3>1. Bad \in SUBSET Nat
      OBVIOUS
    <3> HIDE DEF Bad
    <3> QED BY <1>4, <3>1, LeastNumber
  <2>2. b # 0
    BY <1>3, BuiltinsSound, <2>1
  <2>3. b \in 1 .. Len(d) /\ b - 1 \in 0 .. Len(d) /\ Sound(f[b - 1])
    BY <2>1, <2>2
  <2>4. f[b] = RegisterMode(f[b - 1], d[b])
    BY <1>3, <2>2, <2>3
  <2> QED
    BY <2>1, <2>3, <2>4, RegisterSound
<1> QED
  BY <1>2, <1>4

LEMMA FilesAreFiles ==
  ASSUME NEW d \in Directories
  PROVE  Len(d) \in Nat /\ \A n \in 1 .. Len(d) : IsFile(d[n])
<1>1. d \in Seq(Range(d))
  BY ModesAssumption
<1>2. \A n \in 1 .. Len(d) : d[n] \in Range(d)
  BY <1>1
<1> QED
  BY <1>1, <1>2, ModesAssumption DEF IsFile, Name

-----------------------------------------------------------------------------
(* The jobs.                                                               *)

JobRecord ==
  [mode : Name, asked : Name, addon : BOOLEAN, branch : BOOLEAN, commit : BOOLEAN,
   status : {"queued", "running", "succeeded", "failed"}, known : BOOLEAN,
   tree : {"detached", "branch", "none"}, sandboxed : BOOLEAN, branched : BOOLEAN,
   pushed : BOOLEAN]

(* What holds of a job in any life of the server: an add-on's job asks for *)
(* neither a branch nor a commit, so that it gets none. While its server   *)
(* knows the mode, it is read-only.                                        *)
JobKept(r) ==
  /\ r.mode = r.asked
  /\ r.addon <=> r.mode \notin BuiltinNames
  /\ r.addon => ~ r.branch /\ ~ r.commit /\ r.tree # "branch" /\ ~ r.pushed
  /\ r.addon /\ r.tree # "none" /\ r.known => r.sandboxed /\ ~ r.branched

(* A queued job has left no branch, and the registry still has the mode of *)
(* a running job that it had.                                              *)
JobRuns(r) ==
  /\ r.status = "queued" => ~ r.branched
  /\ r.status = "running" => (r.known <=> Named(r.mode) # {})

ModesInv ==
  /\ Sound(specs)
  /\ prompt # None => prompt \in SlashNames
  /\ jobs \in Seq(JobRecord)
  /\ \A n \in DOMAIN jobs : JobKept(jobs[n]) /\ JobRuns(jobs[n])

(* An add-on that is registered is read-only.                              *)
LEMMA AddonReads ==
  ASSUME Sound(specs), NEW name \in {s.name : s \in specs}
  PROVE  name \in Name /\ (name \notin BuiltinNames => ReadOnlyJob(name))
BY DEF Sound, ReadOnlyJob, IsReadOnly, Named, Name, BuiltinNames

LEMMA ModeIsRegistered ==
  ASSUME Sound(specs), NEW shape, NEW head
  PROVE  ModeOf(shape, head) \in {s.name : s \in specs}
<1>1. "agent" \in {s.name : s \in specs}
  <2>1. Mode("agent", FALSE, FALSE, {}) \in specs
    BY DEF Sound, Builtins
  <2> QED
    BY <2>1 DEF Mode
<1>2. Resolved("fix") # {}
  <2>1. Mode("agent_fix", FALSE, FALSE, {"fix", "fix_ko"}) \in specs
    BY DEF Sound, Builtins
  <2> QED
    BY <2>1 DEF Mode, Resolved, Keywords
<1>3. head \in SlashNames => Resolved(head) # {}
  BY DEF SlashNames, Resolved, Keywords
<1>4. ModeOf(shape, head) = "agent" \/ ModeOf(shape, head) \in Resolved(head)
  BY <1>2, <1>3 DEF ModeOf
<1> QED
  BY <1>1, <1>4 DEF Resolved

(* The mode that is prompted for is the one that its name leads to.        *)
LEMMA PromptLeads ==
  ASSUME Sound(specs), prompt \in SlashNames
  PROVE  ModeOf("slash", prompt) = prompt
<1>1. PICK a \in specs : a.slash /\ a.name = prompt
  BY DEF SlashNames
<1>2. prompt \in Keywords(a)
  BY <1>1 DEF Keywords
<1>3. \A b \in specs : prompt \in Keywords(b) => b = a
  BY <1>2 DEF Sound
<1>4. Resolved(prompt) = {prompt}
  BY <1>1, <1>2, <1>3 DEF Resolved
<1> QED
  BY <1>4 DEF ModeOf

LEMMA SubmitKept ==
  ASSUME ModesInv, NEW name \in {s.name : s \in specs}, SubmitJob(name, name), UNCHANGED specs,
         prompt' = None \/ prompt' = prompt
  PROVE  ModesInv'
<1>1. PICK branch \in IF ReadOnlyJob(name) THEN {FALSE} ELSE BOOLEAN,
           commit \in IF ReadOnlyJob(name) THEN {FALSE} ELSE BOOLEAN :
        jobs' = Append(jobs, NewJob(name, name, branch, commit))
  BY DEF SubmitJob
<1> DEFINE r == NewJob(name, name, branch, commit)
<1>2. /\ name \in Name /\ (name \notin BuiltinNames => branch = FALSE /\ commit = FALSE)
      /\ branch \in BOOLEAN /\ commit \in BOOLEAN
  BY <1>1, AddonReads DEF ModesInv
<1>3. r \in JobRecord
  BY <1>2 DEF JobRecord, NewJob
<1>4. JobKept(r) /\ r.status = "queued" /\ ~ r.branched
  BY <1>2 DEF JobKept, NewJob
<1>5. jobs' = Append(jobs, r)
  BY <1>1
<1> HIDE DEF r
<1>6. /\ jobs' \in Seq(JobRecord) /\ DOMAIN jobs' = 1 .. Len(jobs) + 1
      /\ \A n \in 1 .. Len(jobs) : jobs'[n] = jobs[n]
      /\ jobs'[Len(jobs) + 1] = r
  BY <1>3, <1>5 DEF ModesInv
<1>7. \A n \in DOMAIN jobs' : JobKept(jobs'[n]) /\ JobRuns(jobs'[n])
  <2>1. JobKept(r) /\ JobRuns(r)
    BY <1>4 DEF JobRuns
  <2>2. ASSUME NEW n \in DOMAIN jobs' PROVE n \in DOMAIN jobs \/ n = Len(jobs) + 1
    BY <1>6 DEF ModesInv
  <2> QED
    BY <1>6, <2>1, <2>2 DEF ModesInv
<1>8. SlashNames' = SlashNames /\ (\A x : Named(x)' = Named(x))
  BY DEF SlashNames, Named
<1>9. \A n \in DOMAIN jobs' : JobRuns(jobs[n])'
  BY <1>7, <1>8 DEF JobRuns
<1> QED
  BY <1>6, <1>7, <1>8, <1>9 DEF ModesInv

LEMMA ModesStep ==
  ASSUME ModesInv, [ModesNext]_modeVars
  PROVE  ModesInv'
<1>1. ASSUME NEW shape \in Forms, NEW head \in Heads, AskInstruction(shape, head)
      PROVE  ModesInv'
  <2>1. prompt' \in SlashNames /\ UNCHANGED <<specs, jobs>>
    BY <1>1 DEF AskInstruction, PromptFor
  <2>2. SlashNames' = SlashNames /\ (\A x : Named(x)' = Named(x))
    BY <2>1 DEF SlashNames, Named
  <2> QED
    BY <2>1, <2>2 DEF ModesInv, JobRuns
<1>2. ASSUME NEW shape \in Forms, NEW head \in Heads, Natural(shape, head)
      PROVE  ModesInv'
  BY <1>2, ModeIsRegistered, SubmitKept DEF Natural, ModesInv
<1>3. CASE GiveInstruction
  <2>1. prompt \in SlashNames /\ prompt \in {s.name : s \in specs}
    BY <1>3 DEF GiveInstruction, ModesInv, SlashNames
  <2>2. SubmitJob(prompt, prompt)
    BY <1>3, <2>1, PromptLeads DEF GiveInstruction, ModesInv
  <2> QED
    BY <1>3, <2>1, <2>2, SubmitKept DEF GiveInstruction
<1>4. CASE Restart
  <2>1. PICK d \in Directories : specs' = LoadedModes(d)
    BY <1>4 DEF Restart
  <2>2. Sound(specs')
    BY <2>1, FilesAreFiles, LoadedSound
  <2>3. jobs' = [n \in DOMAIN jobs |->
                   IF jobs[n].status = "running" THEN [jobs[n] EXCEPT !.status = "failed"]
                   ELSE jobs[n]]
    BY <1>4 DEF Restart
  <2>4. \A n \in DOMAIN jobs :
          /\ jobs'[n] \in JobRecord /\ JobKept(jobs'[n])
          /\ jobs'[n].status # "running" /\ (jobs'[n].status = "queued" => ~ jobs'[n].branched)
    <3>1. \A j \in JobRecord :
            JobKept(j) => LET x == [j EXCEPT !.status = "failed"]
                          IN  x \in JobRecord /\ JobKept(x) /\ x.status = "failed"
      BY DEF JobRecord, JobKept
    <3>2. \A n \in DOMAIN jobs :
            /\ jobs[n] \in JobRecord /\ JobKept(jobs[n])
            /\ jobs[n].status = "queued" => ~ jobs[n].branched
      BY DEF ModesInv, JobRuns
    <3> QED
      BY <2>3, <3>1, <3>2
  <2>5. jobs' \in Seq(JobRecord) /\ DOMAIN jobs' = DOMAIN jobs
    BY <2>3, <2>4 DEF ModesInv
  <2> QED
    BY <1>4, <2>2, <2>4, <2>5 DEF Restart, ModesInv, JobRuns
<1>5. ASSUME NEW n \in DOMAIN jobs, NEW r \in JobRecord, JobKept(r), JobRuns(r),
             jobs' = [jobs EXCEPT ![n] = r], UNCHANGED <<specs, prompt>>
      PROVE  ModesInv'
  <2>1. jobs' \in Seq(JobRecord) /\ \A m \in DOMAIN jobs' : JobKept(jobs'[m]) /\ JobRuns(jobs'[m])
    BY <1>5 DEF ModesInv
  <2>2. SlashNames' = SlashNames /\ (\A x : Named(x)' = Named(x))
    BY <1>5 DEF SlashNames, Named
  <2>3. \A m \in DOMAIN jobs' : JobRuns(jobs[m])'
    BY <2>1, <2>2 DEF JobRuns
  <2> QED
    BY <1>5, <2>1, <2>2, <2>3 DEF ModesInv
<1>6. ASSUME NEW n \in DOMAIN jobs, RunJob(n) PROVE ModesInv'
  <2>1. PICK tree \in PlannedTrees(jobs[n]) :
          jobs' = [jobs EXCEPT ![n].status = "running", ![n].tree = tree,
                               ![n].sandboxed = ReadOnlyJob(jobs[n].mode),
                               ![n].known = Named(jobs[n].mode) # {}]
    BY <1>6 DEF RunJob
  <2> DEFINE r == [jobs[n] EXCEPT !.status = "running", !.tree = tree,
                                  !.sandboxed = ReadOnlyJob(jobs[n].mode),
                                  !.known = Named(jobs[n].mode) # {}]
  <2>2. /\ jobs[n] \in JobRecord /\ JobKept(jobs[n])
        /\ jobs[n].status = "queued" /\ ~ jobs[n].branched
    BY <1>6 DEF ModesInv, RunJob, JobRuns
  <2>3. /\ ReadOnlyJob(jobs[n].mode) \in BOOLEAN /\ tree \in {"detached", "branch"}
        /\ ~ jobs[n].branch => tree = "detached"
    BY DEF ReadOnlyJob, IsReadOnly, PlannedTrees
  <2>4. jobs[n].addon /\ Named(jobs[n].mode) # {} => ReadOnlyJob(jobs[n].mode)
    BY <2>2, AddonReads DEF ModesInv, JobKept, Named
  <2>5. r \in JobRecord /\ JobKept(r) /\ JobRuns(r)
    BY <2>2, <2>3, <2>4 DEF JobRecord, JobKept, JobRuns
  <2>6. jobs' = [jobs EXCEPT ![n] = r] /\ UNCHANGED <<specs, prompt>>
    BY <1>6, <2>1 DEF RunJob
  <2> HIDE DEF r
  <2> QED
    BY <1>5, <2>5, <2>6
<1>7. ASSUME NEW n \in DOMAIN jobs, FinishJob(n) PROVE ModesInv'
  <2>1. PICK branched \in BOOLEAN, pushed \in BOOLEAN, status \in {"succeeded", "failed"} :
          /\ branched => ~ ReadOnlyJob(jobs[n].mode)
          /\ pushed => branched /\ jobs[n].commit
          /\ jobs' = [jobs EXCEPT ![n].status = status, ![n].branched = branched,
                                  ![n].pushed = pushed]
    BY <1>7 DEF FinishJob
  <2> DEFINE r == [jobs[n] EXCEPT !.status = status, !.branched = branched, !.pushed = pushed]
  <2>2. /\ jobs[n] \in JobRecord /\ JobKept(jobs[n]) /\ JobRuns(jobs[n])
        /\ jobs[n].status = "running"
    BY <1>7 DEF ModesInv, FinishJob
  <2>3. jobs[n].addon /\ jobs[n].known => ReadOnlyJob(jobs[n].mode)
    BY <2>2, AddonReads DEF ModesInv, JobKept, JobRuns, Named
  <2>4. r \in JobRecord /\ JobKept(r) /\ JobRuns(r)
    BY <2>1, <2>2, <2>3 DEF JobRecord, JobKept, JobRuns
  <2>5. jobs' = [jobs EXCEPT ![n] = r] /\ UNCHANGED <<specs, prompt>>
    BY <1>7, <2>1 DEF FinishJob
  <2> HIDE DEF r
  <2> QED
    BY <1>5, <2>4, <2>5
<1>8. CASE UNCHANGED modeVars
  <2>1. SlashNames' = SlashNames /\ (\A x : Named(x)' = Named(x)) /\ UNCHANGED <<specs, prompt, jobs>>
    BY <1>8 DEF modeVars, SlashNames, Named
  <2>2. \A n \in DOMAIN jobs' : JobRuns(jobs[n])'
    BY <2>1 DEF JobRuns, ModesInv
  <2> QED
    BY <2>1, <2>2 DEF ModesInv
<1> QED
  BY <1>1, <1>2, <1>3, <1>4, <1>6, <1>7, <1>8 DEF ModesNext

LEMMA ModesInvariant == ModesSpec => []ModesInv
<1>1. ModesInit => ModesInv
  <2> SUFFICES ASSUME ModesInit PROVE ModesInv
    OBVIOUS
  <2>1. Sound(specs)
    BY LoadedSound DEF ModesInit
  <2> QED
    BY <2>1 DEF ModesInit, ModesInv
<1> QED
  BY <1>1, ModesStep, PTL DEF ModesSpec

(* Whatever add-on files come and go, every keyword has one mode, the      *)
(* built-in ones theirs; a job gets the mode it was asked an instruction   *)
(* for; and the job of an add-on works beside the branches and pushes nothing, *)
(* and only reads while the server knows the mode.                         *)
THEOREM ModesAreKept == ModesSpec => []ModesKept
<1>1. ASSUME ModesInv PROVE KeywordsKept
  <2>1. ASSUME NEW a \in specs, NEW k \in Keywords(a) PROVE Resolved(k) = {a.name}
    <3>1. \A b \in specs : k \in Keywords(b) => b = a
      BY <1>1 DEF ModesInv, Sound
    <3> QED
      BY <3>1 DEF Resolved
  <2> QED
    BY <1>1, <2>1 DEF ModesInv, Sound, KeywordsKept
<1>2. ModesInv => PromptedModeRuns /\ AddonJobsReadOnly
  BY DEF ModesInv, JobKept, PromptedModeRuns, AddonJobsReadOnly
<1> QED
  BY <1>1, <1>2, ModesInvariant, PTL DEF ModesKept

-----------------------------------------------------------------------------
(***************************************************************************)
(* What the projects, their secrets, bots and webhooks keep up, for any    *)
(* number of projects, tokens, requests and crashes, and any legacy file.  *)
(*                                                                         *)
(* What can be read from the disk always has a token for each project      *)
(* (Readable); while no write has been refused it is what the registry has *)
(* (Synced), with distinct tokens (OneToken).  A project that no other     *)
(* request crowded has one request at most (OneRequest); no other project's *)
(* bot or request has its token (OwnToken); its bot is that of its record, or *)
(* the request that changed it is about to see to that (OwnBot, Requested). *)
(***************************************************************************)
USE DEF registryVars, registry, stored, bots, mishaps

Backends == {"plaintext", "keyring"}
Entry ==
  [name : Names, token : Tokens \cup {None}, secret : Secrets \cup {None}, enabled : BOOLEAN]
Bot == ProjectRecord \cup {NoBot}
Secret == [token : Tokens \cup {None}, secret : Secrets \cup {None}]
File_ ==
  [state : {"ok", "absent", "torn"}, marker : Backends, default : Names \cup {None},
   projects : Seq(Entry)]
Steps == {"idle", "save", "sync", "hook", "unregister"}

RegistryTypes ==
  /\ projects \in Seq(ProjectRecord) /\ default \in Names \cup {None}
  /\ disk \in File_ /\ keyring \in [Names -> Secret]
  /\ boot \in {"down", "migrated", "prepared", "registered", "up"}
  /\ backend \in Backends \cup {"none"}
  /\ byName \in [Names -> Bot] /\ byHash \in [Tokens -> Bot] /\ hook \in [Tokens -> Secrets \cup {None}]
  /\ change \in [Requests -> [pc : Steps, rec : Bot]]
  /\ \A q \in Requests : InFlight(q) => change[q].rec \in ProjectRecord
  /\ failed \in BOOLEAN /\ crowded \subseteq Names /\ unhooked \subseteq Tokens

OneName(ps) == \A i, k \in DOMAIN ps : i # k => ps[i].name # ps[k].name
OneToken(ps) == \A i, k \in DOMAIN ps : i # k => ps[i].token # ps[k].token

(* The file has the secrets of an entry, or the keyring has them.          *)
InPlace(r) ==
  IF disk.marker = "keyring"
  THEN r.token = None /\ r.secret = None /\ keyring[r.name].token # None
  ELSE r.token # None

Readable ==
  disk.state # "torn" =>
    /\ OneName(disk.projects)
    /\ \A i \in DOMAIN disk.projects : InPlace(disk.projects[i])
    /\ disk.state = "absent" => disk.projects = <<>>

Running ==
  IF Up THEN disk.state = "ok" /\ backend = disk.marker /\ OneName(projects)
  ELSE (\A q \in Requests : ~InFlight(q)) /\ byName = [n \in Names |-> NoBot]

Synced == Up /\ ~failed => Loaded = projects /\ disk.default = default

(* Requests past the change of the registry.                               *)
About(u, n) == change[u].rec.name = n
Late(u) == change[u].pc \in {"sync", "hook"}

OneRequest(n) ==
  \A u, v \in Requests : InFlight(u) /\ InFlight(v) /\ About(u, n) /\ About(v, n) => u = v

OwnToken(r) ==
  /\ \A m \in Names : m # r.name => byName[m].token # r.token
  /\ \A u \in Requests : Late(u) /\ ~About(u, r.name) => change[u].rec.token # r.token

Requested(r) ==
  \A u \in Requests : InFlight(u) /\ About(u, r.name) =>
    /\ Late(u) => change[u].rec = r
    /\ change[u].pc = "hook" => r.enabled /\ byName[r.name] = r /\ byHash[r.token] = r
    /\ change[u].pc # "unregister"

OwnBot(r) ==
  (\A u \in Requests : ~(Late(u) /\ About(u, r.name))) =>
    /\ Up => byName[r.name] = IF r.enabled THEN r ELSE NoBot
    /\ r.enabled =>
         /\ Up => byHash[r.token] = r
         /\ r.token \notin unhooked /\ r.secret # None /\ r.secret = SecretToken(r) =>
              hook[r.token] = r.secret

(* A project that is no more has no bot, or a request that unregisters it. *)
NoBotLeft(n) ==
  n \notin {Loaded[i].name : i \in DOMAIN Loaded} =>
    /\ \A u \in Requests : ~(Late(u) /\ About(u, n))
    /\ byName[n] = NoBot \/ \E u \in Requests : change[u].pc = "unregister" /\ About(u, n)

Uncrowded ==
  ~failed /\ disk.state # "torn" =>
    /\ OneToken(Loaded)
    /\ \A n \in Names \ crowded : OneRequest(n) /\ NoBotLeft(n)
    /\ \A i \in DOMAIN Loaded : Loaded[i].name \notin crowded =>
         OwnToken(Loaded[i]) /\ Requested(Loaded[i]) /\ OwnBot(Loaded[i])

RegistryInv ==
  RegistryTypes /\ Readable /\ Running /\ Synced /\ NoStaleBot /\ Uncrowded

-----------------------------------------------------------------------------
(* Lemmas about lists of projects.                                         *)

LEMMA RangeIs ==
  ASSUME NEW ps, NEW S, ps \in Seq(S)
  PROVE  /\ DOMAIN ps = 1 .. Len(ps) /\ Len(ps) \in Nat
         /\ \A i \in DOMAIN ps : ps[i] \in S
         /\ \A x : x \in Range(ps) <=> \E i \in DOMAIN ps : ps[i] = x
         /\ \A n : n \in NamesOf(Range(ps)) <=> \E i \in DOMAIN ps : ps[i].name = n
         /\ \A t : t \in TokensOf(Range(ps)) <=> \E i \in DOMAIN ps : ps[i].token = t
BY DEF Range, NamesOf, TokensOf

LEMMA RecordAt ==
  ASSUME NEW ps, OneName(ps), NEW i \in DOMAIN ps
  PROVE  RecordOf(Range(ps), ps[i].name) = ps[i]
BY DEF RecordOf, Range, OneName

(* Without the project n, the others stay, in their order.                 *)
LEMMA Removed ==
  ASSUME NEW S, NEW ps \in Seq(S), OneName(ps), NEW n \in NamesOf(Range(ps))
  PROVE  /\ WithoutProject(ps, n) \in Seq(S) /\ OneName(WithoutProject(ps, n))
         /\ OneToken(ps) => OneToken(WithoutProject(ps, n))
         /\ \A i \in DOMAIN WithoutProject(ps, n) :
              /\ WithoutProject(ps, n)[i].name # n
              /\ \E j \in DOMAIN ps : WithoutProject(ps, n)[i] = ps[j]
         /\ \A j \in DOMAIN ps : ps[j].name # n =>
              \E i \in DOMAIN WithoutProject(ps, n) : WithoutProject(ps, n)[i] = ps[j]
<1> DEFINE k == CHOOSE i \in DOMAIN ps : ps[i].name = n
<1>1. /\ DOMAIN ps = 1 .. Len(ps) /\ Len(ps) \in Nat
      /\ \A i \in 1 .. Len(ps) : ps[i] \in S
      /\ \E i \in DOMAIN ps : ps[i].name = n
  BY RangeIs
<1>2. k \in 1 .. Len(ps) /\ ps[k].name = n
  BY <1>1
<1>3. WithoutProject(ps, n) = SubSeq(ps, 1, k - 1) \o SubSeq(ps, k + 1, Len(ps))
  BY DEF WithoutProject, RemoveAt
<1> HIDE DEF k
<1> DEFINE head == SubSeq(ps, 1, k - 1)
           tail == SubSeq(ps, k + 1, Len(ps))
           qs == head \o tail
<1>4. /\ head \in Seq(S) /\ Len(head) = k - 1
      /\ \A i \in 1 .. k - 1 : head[i] = ps[i]
  <2>1. \A i \in 1 .. k - 1 : ps[i] \in S
    BY <1>1, <1>2
  <2>2. QED
    BY <1>1, <1>2, <2>1, SubSeqProperties
<1>5. /\ tail \in Seq(S) /\ Len(tail) = Len(ps) - k
      /\ \A i \in 1 .. Len(ps) - k : tail[i] = ps[k + i]
  <2>1. \A i \in k + 1 .. Len(ps) : ps[i] \in S
    BY <1>1, <1>2
  <2>2. k + 1 \in Int /\ Len(ps) \in Int
    BY <1>1, <1>2
  <2>3. /\ tail \in Seq(S) /\ Len(tail) = IF k + 1 <= Len(ps) THEN Len(ps) - (k + 1) + 1 ELSE 0
        /\ \A i \in 1 .. Len(ps) - (k + 1) + 1 : tail[i] = ps[(k + 1) + i - 1]
    BY <2>1, <2>2, SubSeqProperties
  <2>4. /\ Len(ps) - (k + 1) + 1 = Len(ps) - k
        /\ (IF k + 1 <= Len(ps) THEN Len(ps) - (k + 1) + 1 ELSE 0) = Len(ps) - k
        /\ \A i \in 1 .. Len(ps) - k : (k + 1) + i - 1 = k + i
    <3>1. k \in Nat /\ Len(ps) \in Nat /\ k <= Len(ps)
      BY <1>1, <1>2
    <3>2. QED
      BY <3>1
  <2> HIDE DEF tail
  <2>5. \A i \in 1 .. Len(ps) - k : tail[i] = ps[k + i]
    BY <2>3, <2>4
  <2>6. QED
    BY <2>3, <2>4, <2>5
<1> HIDE DEF head, tail
<1>6. /\ qs \in Seq(S) /\ Len(qs) = Len(ps) - 1
      /\ \A i \in 1 .. Len(qs) : qs[i] = ps[IF i < k THEN i ELSE i + 1]
  <2>1. /\ qs \in Seq(S) /\ Len(qs) = Len(head) + Len(tail)
        /\ \A i \in 1 .. Len(head) + Len(tail) :
             qs[i] = IF i <= Len(head) THEN head[i] ELSE tail[i - Len(head)]
    BY <1>4, <1>5, ConcatProperties
  <2>2. QED
    BY <1>1, <1>2, <1>4, <1>5, <2>1
<1>7. DOMAIN qs = 1 .. Len(ps) - 1
  BY <1>6, LenProperties
<1> HIDE DEF qs
<1>8. \A i \in DOMAIN qs : (IF i < k THEN i ELSE i + 1) \in DOMAIN ps \ {k}
  BY <1>1, <1>2, <1>7
<1>9. OneName(qs) /\ (OneToken(ps) => OneToken(qs))
  <2>1. ASSUME NEW i \in DOMAIN qs, NEW j \in DOMAIN qs, i # j
        PROVE  (IF i < k THEN i ELSE i + 1) # (IF j < k THEN j ELSE j + 1)
    BY <2>1, <1>2, <1>7
  <2>2. ASSUME NEW i \in DOMAIN qs, NEW j \in DOMAIN qs, i # j
        PROVE  /\ qs[i].name # qs[j].name
               /\ OneToken(ps) => qs[i].token # qs[j].token
    <3> DEFINE at(x) == IF x < k THEN x ELSE x + 1
    <3>1. /\ at(i) \in DOMAIN ps /\ at(j) \in DOMAIN ps /\ at(i) # at(j)
          /\ qs[i] = ps[at(i)] /\ qs[j] = ps[at(j)]
      BY <1>6, <1>7, <1>8, <2>1, <2>2
    <3> HIDE DEF at
    <3>2. QED
      BY <3>1 DEF OneName, OneToken
  <2>3. QED
    BY <2>2 DEF OneName, OneToken
<1>10. \A i \in DOMAIN qs : qs[i].name # n /\ \E j \in DOMAIN ps : qs[i] = ps[j]
  BY <1>1, <1>2, <1>6, <1>7, <1>8 DEF OneName
<1>11. ASSUME NEW j \in DOMAIN ps, ps[j].name # n
       PROVE  \E i \in DOMAIN qs : qs[i] = ps[j]
  <2>1. j # k
    BY <1>11, <1>2
  <2>2. CASE j < k
    <3>1. j \in DOMAIN qs /\ qs[j] = ps[j]
      BY <1>1, <1>2, <1>6, <1>7, <2>2
    <3>2. QED
      BY <3>1
  <2>3. CASE j > k
    <3>1. j - 1 \in DOMAIN qs /\ qs[j - 1] = ps[j]
      BY <1>1, <1>2, <1>6, <1>7, <2>3
    <3>2. QED
      BY <3>1
  <2>4. QED
    BY <1>1, <1>2, <2>1, <2>2, <2>3
<1>12. QED
  BY <1>3, <1>6, <1>9, <1>10, <1>11 DEF qs, head, tail

(* A record that collides with none goes to the end.                       *)
LEMMA Appended ==
  ASSUME NEW S, NEW ps \in Seq(S), NEW r \in S
  PROVE  /\ Append(ps, r) \in Seq(S) /\ Len(Append(ps, r)) = Len(ps) + 1
         /\ \A i \in DOMAIN ps : i \in DOMAIN Append(ps, r) /\ Append(ps, r)[i] = ps[i]
         /\ Len(ps) + 1 \in DOMAIN Append(ps, r) /\ Append(ps, r)[Len(ps) + 1] = r
         /\ \A i \in DOMAIN Append(ps, r) : i \in DOMAIN ps \/ i = Len(ps) + 1
         /\ OneName(ps) /\ r.name \notin NamesOf(Range(ps)) => OneName(Append(ps, r))
         /\ OneToken(ps) /\ ~Collides(ps, r) => OneToken(Append(ps, r))
<1>1. /\ Append(ps, r) \in Seq(S) /\ Len(Append(ps, r)) = Len(ps) + 1
      /\ \A i \in 1 .. Len(ps) : Append(ps, r)[i] = ps[i]
      /\ Append(ps, r)[Len(ps) + 1] = r
  OBVIOUS
<1>2. DOMAIN ps = 1 .. Len(ps) /\ DOMAIN Append(ps, r) = 1 .. Len(ps) + 1 /\ Len(ps) \in Nat
  BY <1>1
<1>3. /\ \A i \in DOMAIN ps : i \in DOMAIN Append(ps, r) /\ Append(ps, r)[i] = ps[i]
      /\ Len(ps) + 1 \in DOMAIN Append(ps, r)
      /\ \A i \in DOMAIN Append(ps, r) : i \in DOMAIN ps \/ i = Len(ps) + 1
  BY <1>1, <1>2
<1>4. OneName(ps) /\ r.name \notin NamesOf(Range(ps)) => OneName(Append(ps, r))
  BY <1>1, <1>2, <1>3, RangeIs DEF OneName
<1>5. OneToken(ps) /\ ~Collides(ps, r) => OneToken(Append(ps, r))
  BY <1>1, <1>2, <1>3, RangeIs DEF OneToken, Collides
<1>6. QED
  BY <1>1, <1>3, <1>4, <1>5

-----------------------------------------------------------------------------
(* Lemmas about the secrets.                                               *)

LEMMA StoredKeeps ==
  ASSUME RegistryTypes, NEW S, S \subseteq Entry, NEW ps \in Seq(S), OneName(ps), NEW k \in 0 .. Len(ps)
  PROVE  /\ StoredSecrets(ps, k) \in [Names -> Secret]
         /\ \A i \in 1 .. k : StoredSecrets(ps, k)[ps[i].name] = [token |-> ps[i].token, secret |-> ps[i].secret]
         /\ \A n \in Names : (\A i \in 1 .. k : ps[i].name # n) => StoredSecrets(ps, k)[n] = keyring[n]
<1>1. /\ DOMAIN ps = 1 .. Len(ps) /\ Len(ps) \in Nat
      /\ \A i \in 1 .. Len(ps) : ps[i] \in Entry
  BY RangeIs
<1>2. NamesOf(Range(SubSeq(ps, 1, k))) = {ps[i].name : i \in 1 .. k}
  <2>1. \A i \in 1 .. k : ps[i] \in Entry
    BY <1>1
  <2>2. /\ SubSeq(ps, 1, k) \in Seq(Entry) /\ Len(SubSeq(ps, 1, k)) = k
        /\ \A i \in 1 .. k : SubSeq(ps, 1, k)[i] = ps[i]
    BY <1>1, <2>1, SubSeqProperties
  <2>3. DOMAIN SubSeq(ps, 1, k) = 1 .. k
    BY <1>1, <2>2
  <2>4. QED
    BY <2>2, <2>3 DEF NamesOf, Range
<1>3. \A i \in 1 .. k : RecordOf(Range(ps), ps[i].name) = ps[i]
  BY <1>1, RecordAt
<1>4. ASSUME NEW n \in Names
      PROVE  /\ StoredSecrets(ps, k)[n] \in Secret
             /\ \A i \in 1 .. k : ps[i].name = n =>
                  StoredSecrets(ps, k)[n] = [token |-> ps[i].token, secret |-> ps[i].secret]
             /\ (\A i \in 1 .. k : ps[i].name # n) => StoredSecrets(ps, k)[n] = keyring[n]
  <2>1. CASE \E i \in 1 .. k : ps[i].name = n
    <3>1. PICK i \in 1 .. k : ps[i].name = n
      BY <2>1
    <3>2. StoredSecrets(ps, k)[n] = [token |-> ps[i].token, secret |-> ps[i].secret]
      BY <1>2, <1>3, <3>1 DEF StoredSecrets
    <3>3. ps[i] \in Entry
      BY <1>1
    <3>4. \A j \in 1 .. k : ps[j].name = n => j = i
      BY <1>1, <3>1 DEF OneName
    <3>5. QED
      BY <3>1, <3>2, <3>3, <3>4 DEF Entry, Secret
  <2>2. CASE \A i \in 1 .. k : ps[i].name # n
    BY <1>2, <2>2 DEF StoredSecrets, RegistryTypes
  <2>3. QED
    BY <2>1, <2>2
<1>5. \A i \in 1 .. k : ps[i].name \in Names
  BY <1>1 DEF Entry
<1>6. QED
  BY <1>4, <1>5 DEF StoredSecrets

(* A record gets back the secrets that were taken out of it.               *)
LEMMA Restored ==
  ASSUME NEW r \in Entry
  PROVE  /\ StripSecrets(r) \in Entry /\ StripSecrets(r).name = r.name
         /\ StripSecrets(r).token = None /\ StripSecrets(r).secret = None
         /\ [StripSecrets(r) EXCEPT !.token = r.token, !.secret = r.secret] = r
BY DEF StripSecrets, Entry

LEMMA NoneIsNothing == None \notin Names \cup Tokens \cup Secrets
BY ProjectsAssumption

LEMMA RecordIsEntry == ProjectRecord \subseteq Entry
BY DEF ProjectRecord, Entry

(* What can be read after a file with the projects ps is written.          *)
LEMMA WrittenLoads ==
  ASSUME NEW S, S \subseteq Entry, NEW ps \in Seq(S), NEW marker \in Backends, disk'.marker = marker,
         disk'.projects = IF marker = "keyring" THEN [i \in DOMAIN ps |-> StripSecrets(ps[i])] ELSE ps,
         marker = "keyring" =>
           \A i \in DOMAIN ps : keyring'[ps[i].name] = [token |-> ps[i].token, secret |-> ps[i].secret]
  PROVE  /\ Loaded' = ps /\ disk'.projects \in Seq(Entry)
         /\ OneName(ps) => OneName(disk'.projects)
         /\ (\A i \in DOMAIN ps : ps[i].token # None) =>
              \A i \in DOMAIN disk'.projects : InPlace(disk.projects[i])'
<1>1. /\ DOMAIN ps = 1 .. Len(ps) /\ Len(ps) \in Nat
      /\ \A i \in 1 .. Len(ps) : ps[i] \in Entry
  BY RangeIs
<1>2. CASE marker = "keyring"
  <2>1. disk'.projects = [i \in DOMAIN ps |-> StripSecrets(ps[i])]
    BY <1>2
  <2>2. ASSUME NEW i \in DOMAIN ps
        PROVE  disk'.projects[i] \in Entry /\ disk'.projects[i].name = ps[i].name
    <3>1. ps[i] \in Entry /\ disk'.projects[i] = StripSecrets(ps[i])
      BY <1>1, <2>1
    <3>2. QED
      BY <3>1, Restored
  <2>3. disk'.projects \in Seq(Entry)
    BY <1>1, <2>1, <2>2
  <2>4. OneName(ps) => OneName(disk'.projects)
    BY <2>1, <2>2 DEF OneName
  <2>5. ASSUME NEW i \in DOMAIN ps
        PROVE  /\ Inject(disk.projects[i])' = ps[i]
               /\ ps[i].token # None => InPlace(disk.projects[i])'
    <3>1. /\ ps[i] \in Entry /\ disk'.projects[i] = StripSecrets(ps[i])
          /\ keyring'[ps[i].name] = [token |-> ps[i].token, secret |-> ps[i].secret]
      BY <1>1, <1>2, <2>1
    <3>2. /\ StripSecrets(ps[i]).name = ps[i].name
          /\ StripSecrets(ps[i]).token = None /\ StripSecrets(ps[i]).secret = None
          /\ [StripSecrets(ps[i]) EXCEPT !.token = ps[i].token, !.secret = ps[i].secret] = ps[i]
      BY <3>1, Restored
    <3>3. /\ keyring'[StripSecrets(ps[i]).name].token = ps[i].token
          /\ keyring'[StripSecrets(ps[i]).name].secret = ps[i].secret
      BY <3>1, <3>2
    <3>4. Inject(disk.projects[i])' = ps[i]
      BY <1>2, <3>1, <3>2, <3>3 DEF Inject
    <3>5. QED
      BY <1>2, <3>1, <3>2, <3>3, <3>4 DEF InPlace
  <2>6. Loaded' = [i \in DOMAIN ps |-> ps[i]]
    BY <2>1, <2>5 DEF Loaded
  <2>7. QED
    BY <1>1, <2>1, <2>3, <2>4, <2>5, <2>6
<1>3. CASE marker # "keyring"
  BY <1>1, <1>3 DEF Loaded, Inject, InPlace
<1>4. QED
  BY <1>2, <1>3

(* What can be read has a token for every project.                         *)
LoadsWell ==
  /\ Loaded \in Seq(Entry) /\ DOMAIN Loaded = DOMAIN disk.projects
  /\ DOMAIN Loaded = 1 .. Len(Loaded) /\ Len(Loaded) \in Nat
  /\ \A i \in DOMAIN Loaded : Loaded[i] \in Entry /\ Loaded[i].name = disk.projects[i].name
  /\ Readable /\ disk.state # "torn" =>
       OneName(Loaded) /\ \A i \in DOMAIN Loaded : Loaded[i].token # None

LEMMA LoadedIs == RegistryTypes => LoadsWell
<1> SUFFICES ASSUME RegistryTypes PROVE LoadsWell
  OBVIOUS
<1>1. /\ DOMAIN disk.projects = 1 .. Len(disk.projects) /\ Len(disk.projects) \in Nat
      /\ \A i \in 1 .. Len(disk.projects) : disk.projects[i] \in Entry
  BY DEF RegistryTypes, File_
<1>2. ASSUME NEW r \in Entry
      PROVE  /\ Inject(r) \in Entry /\ Inject(r).name = r.name
             /\ InPlace(r) => Inject(r).token # None
  <2>1. keyring[r.name] \in Secret
    BY DEF RegistryTypes, Entry
  <2>2. QED
    BY <2>1 DEF Inject, InPlace, Entry, Secret
<1>3. /\ DOMAIN Loaded = 1 .. Len(disk.projects)
      /\ \A i \in DOMAIN Loaded : Loaded[i] = Inject(disk.projects[i])
  BY <1>1 DEF Loaded
<1>4. \A i \in DOMAIN Loaded : Loaded[i] \in Entry /\ Loaded[i].name = disk.projects[i].name
  BY <1>1, <1>2, <1>3
<1>5. Loaded \in Seq(Entry)
  BY <1>1, <1>2 DEF Loaded
<1>6. ASSUME Readable, disk.state # "torn"
      PROVE  OneName(Loaded) /\ \A i \in DOMAIN Loaded : Loaded[i].token # None
  BY <1>1, <1>2, <1>3, <1>4, <1>6 DEF Readable, OneName
<1>7. QED
  BY <1>1, <1>3, <1>4, <1>5, <1>6 DEF LoadsWell

LEMMA LoadedThen == RegistryTypes' => LoadsWell'
BY LoadedIs, PTL

(* What a write, refused or cut short, leaves of the keyring.              *)
Touched(ring, ps, n) ==
  \/ ring[n] = keyring[n]
  \/ \E i \in DOMAIN ps :
       /\ ps[i].name = n /\ ring[n].token = ps[i].token
       /\ ring[n].secret \in {ps[i].secret, keyring[n].secret}

LEMMA StoredTouches ==
  ASSUME RegistryTypes, NEW ps \in Seq(Entry), OneName(ps), NEW k \in 0 .. Len(ps), NEW n \in Names
  PROVE  Touched(StoredSecrets(ps, k), ps, n)
<1>1. DOMAIN ps = 1 .. Len(ps) /\ Len(ps) \in Nat
  OBVIOUS
<1>2. /\ \A i \in 1 .. k : StoredSecrets(ps, k)[ps[i].name] = [token |-> ps[i].token, secret |-> ps[i].secret]
      /\ (\A i \in 1 .. k : ps[i].name # n) => StoredSecrets(ps, k)[n] = keyring[n]
  BY StoredKeeps
<1>3. CASE \E i \in 1 .. k : ps[i].name = n
  <2>1. PICK i \in 1 .. k : ps[i].name = n
    BY <1>3
  <2>2. StoredSecrets(ps, k)[n] = [token |-> ps[i].token, secret |-> ps[i].secret]
    BY <1>2, <2>1
  <2>3. QED
    BY <1>1, <2>1, <2>2 DEF Touched
<1>4. QED
  BY <1>2, <1>3 DEF Touched

LEMMA StoredUpTo ==
  ASSUME RegistryTypes, NEW ps \in Seq(Entry), OneName(ps), NEW k \in DOMAIN ps, NEW n \in Names
  PROVE  LET ring == [StoredSecrets(ps, k - 1) EXCEPT ![ps[k].name].token = ps[k].token]
         IN  ring \in [Names -> Secret] /\ Touched(ring, ps, n)
<1> DEFINE old == StoredSecrets(ps, k - 1)
           ring == [old EXCEPT ![ps[k].name].token = ps[k].token]
<1>1. DOMAIN ps = 1 .. Len(ps) /\ Len(ps) \in Nat /\ ps[k] \in Entry /\ k - 1 \in 0 .. Len(ps)
  OBVIOUS
<1>2. /\ old \in [Names -> Secret] /\ Touched(old, ps, n)
      /\ (\A i \in 1 .. k - 1 : ps[i].name # ps[k].name) => old[ps[k].name] = keyring[ps[k].name]
  BY <1>1, StoredKeeps, StoredTouches DEF Entry
<1>3. old[ps[k].name] = keyring[ps[k].name]
  BY <1>1, <1>2 DEF OneName
<1> HIDE DEF old
<1>4. /\ ring[ps[k].name] = [old[ps[k].name] EXCEPT !.token = ps[k].token]
      /\ \A m \in Names : m # ps[k].name => ring[m] = old[m]
  BY <1>1, <1>2 DEF Entry
<1>5. [old[ps[k].name] EXCEPT !.token = ps[k].token] \in Secret
  BY <1>1, <1>2 DEF Entry, Secret
<1>6. ring \in [Names -> Secret]
  BY <1>2, <1>5
<1>7. Touched(ring, ps, n)
  <2>1. CASE n = ps[k].name
    <3>1. ring[n].token = ps[k].token /\ ring[n].secret = keyring[n].secret
      BY <1>1, <1>2, <1>3, <1>4, <2>1 DEF Secret, Entry
    <3>2. QED
      BY <2>1, <3>1 DEF Touched
  <2>2. CASE n # ps[k].name
    BY <1>2, <1>4, <2>2 DEF Touched
  <2>3. QED
    BY <2>1, <2>2
<1>8. QED
  BY <1>6, <1>7 DEF old

LEMMA RefusedTouches ==
  ASSUME RegistryTypes, NEW ps \in Seq(Entry), OneName(ps), NEW w \in Refused(ps)
  PROVE  /\ w.disk = disk /\ w.keyring \in [Names -> Secret]
         /\ \A n \in Names : Touched(w.keyring, ps, n)
<1>1. Len(ps) \in Nat
  OBVIOUS
<1>2. CASE \E k \in 0 .. Len(ps) - 1 : w = [disk |-> disk, keyring |-> StoredSecrets(ps, k)]
  <2>1. PICK k \in 0 .. Len(ps) - 1 : w = [disk |-> disk, keyring |-> StoredSecrets(ps, k)]
    BY <1>2
  <2>2. k \in 0 .. Len(ps)
    BY <1>1
  <2>3. QED
    BY <2>1, <2>2, StoredKeeps, StoredTouches
<1>3. CASE \E k \in DOMAIN ps :
             w = [disk |-> disk, keyring |-> [StoredSecrets(ps, k - 1) EXCEPT ![ps[k].name].token = ps[k].token]]
  <2>1. PICK k \in DOMAIN ps :
          w = [disk |-> disk, keyring |-> [StoredSecrets(ps, k - 1) EXCEPT ![ps[k].name].token = ps[k].token]]
    BY <1>3
  <2>2. \A n \in Names : w.keyring \in [Names -> Secret] /\ Touched(w.keyring, ps, n)
    BY <2>1, StoredUpTo
  <2>3. ps[k] \in Entry
    OBVIOUS
  <2>4. ps[k].name \in Names
    BY <2>3 DEF Entry
  <2>5. QED
    BY <2>1, <2>2, <2>4
<1>4. QED
  BY <1>2, <1>3 DEF Refused

(* What a write that was cut short leaves on the disk.                     *)
LEMMA WrittenIs ==
  ASSUME RegistryTypes, backend \in Backends, NEW ps \in Seq(ProjectRecord), OneName(ps), NEW d \in Names \cup {None}
  PROVE  /\ Written(ps, d).disk \in File_ /\ Written(ps, d).disk.state = "ok"
         /\ Written(ps, d).keyring \in [Names -> Secret]
         /\ \A n \in Names : Touched(Written(ps, d).keyring, ps, n)
         /\ backend = "keyring" => \A i \in DOMAIN ps :
              Written(ps, d).keyring[ps[i].name] = [token |-> ps[i].token, secret |-> ps[i].secret]
<1>1. ps \in Seq(Entry) /\ Len(ps) \in 0 .. Len(ps) /\ DOMAIN ps = 1 .. Len(ps)
  <2>1. \A i \in 1 .. Len(ps) : ps[i] \in Entry
    BY RecordIsEntry, RangeIs
  <2>2. QED
    BY <2>1
<1>2. Storable(ps) \in Seq(Entry)
  <2>1. \A i \in 1 .. Len(ps) : ps[i] \in Entry
    BY <1>1
  <2>2. \A i \in 1 .. Len(ps) : StripSecrets(ps[i]) \in Entry
    BY <2>1, Restored
  <2>3. QED
    BY <1>1, <2>2 DEF Storable
<1>3. Written(ps, d).disk \in File_ /\ Written(ps, d).disk.state = "ok"
  BY <1>2 DEF Written, File, File_
<1>4. CASE backend = "keyring"
  <2>1. Written(ps, d).keyring = StoredSecrets(ps, Len(ps))
    BY <1>4 DEF Written
  <2>2. QED
    BY <1>1, <1>3, <2>1, StoredKeeps, StoredTouches
<1>5. CASE backend # "keyring"
  BY <1>3, <1>5 DEF Written, RegistryTypes, Touched
<1>6. QED
  BY <1>4, <1>5

LEMMA CutShortIs ==
  ASSUME RegistryTypes, backend \in Backends, NEW ps \in Seq(ProjectRecord), OneName(ps),
         NEW d \in Names \cup {None}, NEW w \in CutShort(ps, d)
  PROVE  /\ w.disk \in File_ /\ w.keyring \in [Names -> Secret]
         /\ w.disk.state = "torn" \/ (w.disk = disk /\ \A n \in Names : Touched(w.keyring, ps, n))
<1> DEFINE full == Written(ps, d)
<1>1. /\ full.disk \in File_ /\ full.keyring \in [Names -> Secret]
      /\ \A n \in Names : Touched(full.keyring, ps, n)
  BY WrittenIs
<1>2. CASE w = [full EXCEPT !.disk = disk]
  <2>1. w.disk = disk /\ w.keyring = full.keyring
    BY <1>2 DEF Written
  <2>2. QED
    BY <1>1, <2>1 DEF RegistryTypes
<1>3. CASE w = [full EXCEPT !.disk.state = "torn"]
  <2>1. w.disk = [full.disk EXCEPT !.state = "torn"] /\ w.keyring = full.keyring
    BY <1>3 DEF Written
  <2>2. w.disk \in File_ /\ w.disk.state = "torn"
    BY <1>1, <2>1 DEF File_
  <2>3. QED
    BY <1>1, <2>1, <2>2
<1>4. CASE w \in Refused(ps)
  <2>1. \A i \in 1 .. Len(ps) : ps[i] \in Entry
    BY RecordIsEntry, RangeIs
  <2>2. ps \in Seq(Entry)
    BY <2>1
  <2>3. QED
    BY <1>4, <2>2, RefusedTouches DEF RegistryTypes
<1>5. QED
  BY <1>2, <1>3, <1>4 DEF CutShort

(* The file is as it was: it goes on being read.                           *)
LEMMA TouchedReadable ==
  ASSUME RegistryTypes, Readable, disk' = disk, NEW ps \in Seq(ProjectRecord),
         \A n \in Names : Touched(keyring', ps, n)
  PROVE  Readable'
<1>1. ASSUME NEW r \in Entry, InPlace(r)
      PROVE  InPlace(r)'
  <2>1. r.name \in Names
    BY DEF Entry
  <2>2. \A i \in DOMAIN ps : ps[i].token # None
    <3>1. \A i \in DOMAIN ps : ps[i] \in ProjectRecord
      BY RangeIs
    <3>2. QED
      BY <3>1, NoneIsNothing DEF ProjectRecord
  <2>3. QED
    BY <1>1, <2>1, <2>2 DEF InPlace, Touched
<1>2. \A i \in DOMAIN disk.projects : disk.projects[i] \in Entry
  BY DEF RegistryTypes, File_
<1>3. QED
  BY <1>1, <1>2 DEF Readable

(* And it has the projects there were, but for a new token of the one whose *)
(* write was cut short.                                                    *)
LEMMA TouchedLoads ==
  ASSUME RegistryTypes, Readable, Synced, Up, ~failed, disk.state = "ok", disk' = disk,
         NEW ps \in Seq(ProjectRecord), NEW r,
         \A i \in DOMAIN ps : ps[i] = r \/ \E j \in DOMAIN projects : ps[i] = projects[j],
         \A n \in Names : Touched(keyring', ps, n)
  PROVE  /\ DOMAIN Loaded' = DOMAIN Loaded
         /\ \A j \in DOMAIN Loaded :
              \/ Loaded'[j] = Loaded[j]
              \/ Loaded[j].name = r.name /\ Loaded'[j].token = r.token
<1>1. /\ DOMAIN Loaded = DOMAIN disk.projects /\ DOMAIN Loaded' = DOMAIN disk.projects
      /\ \A j \in DOMAIN Loaded : Loaded[j] = Inject(disk.projects[j]) /\ Loaded'[j] = Inject(disk.projects[j])'
  BY DEF Loaded
<1>2. OneName(Loaded) /\ Loaded = projects
  BY LoadedIs DEF LoadsWell, Synced
<1>3. ASSUME NEW j \in DOMAIN Loaded, disk.marker = "keyring", Loaded'[j] # Loaded[j]
      PROVE  Loaded[j].name = r.name /\ Loaded'[j].token = r.token
  <2> DEFINE f == disk.projects[j]
             n == f.name
  <2>1. f \in Entry /\ n \in Names /\ keyring[n] \in Secret
    <3>1. f \in Entry
      BY <1>1 DEF RegistryTypes, File_
    <3>2. QED
      BY <3>1 DEF Entry, RegistryTypes
  <2>2. /\ Loaded[j] = [f EXCEPT !.token = keyring[n].token, !.secret = keyring[n].secret]
        /\ Loaded'[j] = [f EXCEPT !.token = keyring'[n].token, !.secret = keyring'[n].secret]
    BY <1>1, <1>3 DEF Inject
  <2>3. keyring'[n] # keyring[n]
    BY <1>3, <2>2
  <2>4. PICK i \in DOMAIN ps : /\ ps[i].name = n /\ keyring'[n].token = ps[i].token
                              /\ keyring'[n].secret \in {ps[i].secret, keyring[n].secret}
    BY <2>1, <2>3 DEF Touched
  <2> HIDE DEF f, n
  <2>5. /\ Loaded[j].name = n /\ Loaded'[j].token = keyring'[n].token
        /\ Loaded[j].token = keyring[n].token /\ Loaded[j].secret = keyring[n].secret
    <3>1. f.name = n
      BY DEF n
    <3>2. QED
      BY <2>1, <2>2, <3>1 DEF Entry
  <2>6. ASSUME NEW k \in DOMAIN projects, ps[i] = projects[k]
        PROVE  FALSE
    <3>1. k = j
      BY <1>2, <2>4, <2>5, <2>6 DEF OneName
    <3>2. keyring'[n].token = keyring[n].token /\ keyring'[n].secret = keyring[n].secret
      BY <1>2, <2>4, <2>5, <2>6, <3>1
    <3>3. QED
      BY <1>3, <2>2, <3>2
  <2>7. QED
    BY <2>4, <2>5, <2>6
<1>4. CASE disk.marker # "keyring"
  BY <1>1, <1>4 DEF Inject
<1>5. QED
  BY <1>1, <1>3, <1>4

-----------------------------------------------------------------------------
(* The server dies: what is on the disk can be read, and a record that is not *)
(* as it was has the token of a request, whose webhook is not set.         *)
LEMMA DiesSafe ==
  ASSUME RegistryInv, Up, Dies, disk' \in File_, keyring' \in [Names -> Secret], Readable',
         ~failed /\ disk'.state # "torn" =>
           /\ OneToken(Loaded')
           /\ \A i \in DOMAIN Loaded' :
                \/ \E j \in DOMAIN Loaded : Loaded[j] = Loaded'[i]
                \/ \E u \in Requests : change[u].rec.token = Loaded'[i].token
  PROVE  RegistryInv'
<1>1. RegistryTypes'
  <2>1. unhooked' \subseteq Tokens
    BY DEF RegistryInv, RegistryTypes, Dies, Bot, ProjectRecord, NoBot
  <2>2. change' \in [Requests -> [pc : Steps, rec : Bot]] /\ \A q \in Requests : ~InFlight(q)'
    BY DEF Dies, Idle, Steps, Bot, InFlight
  <2>3. byName' \in [Names -> Bot] /\ byHash' \in [Tokens -> Bot]
    BY DEF Dies, Bot
  <2>4. QED
    BY <2>1, <2>2, <2>3 DEF RegistryInv, RegistryTypes, Dies
<1>2. LoadsWell'
  BY <1>1, LoadedThen
<1>3. \A u \in Requests : ~InFlight(u)' /\ ~Late(u)'
  BY DEF Dies, Idle, InFlight, Late
<1>4. Running' /\ Synced' /\ NoStaleBot'
  BY <1>3 DEF Dies, Running, Synced, NoStaleBot, Up
<1> DEFINE Hooked(r) ==
      r.token \notin unhooked' /\ r.secret # None /\ r.secret = SecretToken(r) => hook'[r.token] = r.secret
<1>7. \A r : OwnBot(r)' <=> (r.enabled => Hooked(r))
  BY <1>3 DEF Dies, Up, OwnBot, SecretToken
<1>8. /\ \A u \in Requests : change[u].rec.token # None => change[u].rec.token \in unhooked'
      /\ unhooked \subseteq unhooked' /\ hook' = hook
  BY DEF Dies
<1>5. ASSUME ~failed, disk'.state # "torn"
      PROVE  Uncrowded'
  <2>1. \A n \in Names : OneRequest(n)' /\ NoBotLeft(n)'
    BY <1>3 DEF OneRequest, NoBotLeft, Dies
  <2>2. ASSUME NEW i \in DOMAIN Loaded', Loaded'[i].name \notin crowded'
        PROVE  OwnToken(Loaded[i])' /\ Requested(Loaded[i])' /\ OwnBot(Loaded[i])'
    <3>1. PICK r \in Entry : r = Loaded'[i] /\ r.token # None
      BY <1>2, <1>5 DEF LoadsWell
    <3>2. OwnToken(r)' /\ Requested(r)'
      BY <1>3, <3>1 DEF OwnToken, Requested, Dies, NoBot
    <3>3. CASE \E u \in Requests : change[u].rec.token = r.token
      BY <3>1, <3>2, <3>3, <1>7, <1>8
    <3>4. CASE /\ \A u \in Requests : change[u].rec.token # r.token
               /\ \E j \in DOMAIN Loaded : Loaded[j] = r
      <4>1. PICK j \in DOMAIN Loaded : Loaded[j] = r
        BY <3>4
      <4>2. Requested(r) /\ OwnBot(r)
        <5>1. r.name \notin crowded
          BY <2>2, <3>1 DEF Dies
        <5>2. QED
          BY <4>1, <5>1, <1>5 DEF RegistryInv, Uncrowded, Running
      <4>3. \A u \in Requests : ~(Late(u) /\ About(u, r.name))
        BY <3>4, <4>2 DEF Requested, Late, InFlight
      <4>4. QED
        BY <3>1, <3>2, <4>2, <4>3, <1>7, <1>8 DEF OwnBot
    <3>5. QED
      BY <1>5, <3>1, <3>3, <3>4
  <2>3. QED
    BY <1>5, <2>1, <2>2 DEF Uncrowded
<1>6. QED
  BY <1>1, <1>4, <1>5 DEF RegistryInv, Uncrowded, Dies

(* The server dies in the midst of a write of the projects ps, in which only *)
(* r is new.                                                               *)
LEMMA DiesWriting ==
  ASSUME RegistryInv, Up, Dies, NEW ps \in Seq(ProjectRecord), OneName(ps), NEW d \in Names \cup {None},
         NEW w \in CutShort(ps, d), disk' = w.disk, keyring' = w.keyring, NEW r,
         \A i \in DOMAIN ps : ps[i] = r \/ \E j \in DOMAIN projects : ps[i] = projects[j],
         \A j \in DOMAIN projects :
           IF projects[j].name = r.name THEN \E u \in Requests : change[u].rec = r
           ELSE ~failed => projects[j].token # r.token
  PROVE  RegistryInv'
<1>1. RegistryTypes /\ Readable /\ Synced /\ disk.state = "ok" /\ backend \in Backends
  BY DEF RegistryInv, Running, RegistryTypes, File_
<1>2. /\ disk' \in File_ /\ keyring' \in [Names -> Secret]
      /\ disk'.state = "torn" \/ (disk' = disk /\ \A n \in Names : Touched(keyring', ps, n))
  BY <1>1, CutShortIs
<1>3. Readable'
  <2>1. CASE disk'.state = "torn"
    BY <2>1 DEF Readable
  <2>2. QED
    BY <1>1, <1>2, <2>1, TouchedReadable
<1>4. ASSUME ~failed, disk'.state # "torn"
      PROVE  /\ OneToken(Loaded')
             /\ \A i \in DOMAIN Loaded' :
                  \/ \E j \in DOMAIN Loaded : Loaded[j] = Loaded'[i]
                  \/ \E u \in Requests : change[u].rec.token = Loaded'[i].token
  <2>1. /\ DOMAIN Loaded' = DOMAIN Loaded
        /\ \A j \in DOMAIN Loaded :
             \/ Loaded'[j] = Loaded[j]
             \/ Loaded[j].name = r.name /\ Loaded'[j].token = r.token
    BY <1>1, <1>2, <1>4, TouchedLoads
  <2>2. Loaded = projects
    BY <1>4 DEF RegistryInv, Synced
  <2>3. OneName(Loaded) /\ OneToken(Loaded)
    BY <1>1, <1>4, LoadedIs DEF LoadsWell, RegistryInv, Uncrowded
  <2>4. OneToken(Loaded')
    BY <1>4, <2>1, <2>2, <2>3 DEF OneName, OneToken
  <2>5. QED
    BY <2>1, <2>2, <2>4
<1>5. QED
  BY <1>2, <1>3, <1>4, DiesSafe

(* The keyring refuses: from then on the file may lag behind the projects. *)
LEMMA RefusedSafe ==
  ASSUME RegistryInv, Up, Lives, NEW q \in Requests, Responds(q), failed' = TRUE, crowded' \subseteq Names,
         NEW ps \in Seq(ProjectRecord), OneName(ps), NEW d \in Names \cup {None}, projects' = ps, default' = d,
         NEW w \in Refused(ps), disk' = w.disk, keyring' = w.keyring
  PROVE  RegistryInv'
<1>1. RegistryTypes /\ Readable
  BY DEF RegistryInv
<1>2. disk' = disk /\ keyring' \in [Names -> Secret] /\ \A n \in Names : Touched(keyring', ps, n)
  <2>1. \A i \in 1 .. Len(ps) : ps[i] \in Entry
    BY RecordIsEntry, RangeIs
  <2>2. ps \in Seq(Entry)
    BY <2>1
  <2>3. QED
    BY <1>1, <2>2, RefusedTouches
<1>3. Readable'
  BY <1>1, <1>2, TouchedReadable
<1>4. RegistryTypes'
  <2>1. /\ change' \in [Requests -> [pc : Steps, rec : Bot]]
        /\ \A u \in Requests : InFlight(u)' => change'[u].rec \in ProjectRecord
    BY <1>1 DEF RegistryTypes, Responds, Idle, Steps, Bot, InFlight
  <2>2. QED
    BY <1>1, <1>2, <2>1 DEF RegistryTypes, Lives, bots
<1>5. Running' /\ Synced' /\ NoStaleBot' /\ Uncrowded'
  BY <1>2 DEF RegistryInv, Running, Synced, NoStaleBot, Uncrowded, Lives, bots, Up
<1>6. QED
  BY <1>3, <1>4, <1>5 DEF RegistryInv

(* The file is written; the keyring may have lost the secrets of others.   *)
Filed(ps, d) ==
  /\ disk' = Written(ps, d).disk /\ keyring' \in [Names -> Secret]
  /\ backend = "keyring" => \A i \in DOMAIN ps :
       keyring'[ps[i].name] = [token |-> ps[i].token, secret |-> ps[i].secret]

(* The registry and the file have the projects ps, which are the ones there *)
(* were but for the one of r.                                              *)
Saved(q, ps, d, next, r) ==
  /\ Up /\ Lives /\ failed' = failed /\ projects' = ps /\ default' = d /\ Filed(ps, d)
  /\ Advances(q, next, r)
  /\ Crowds(q, r.name, IF next = "unregister" THEN None ELSE r.token)

Kept(ps, n) ==
  /\ \A i \in DOMAIN ps : ps[i].name # n => \E j \in DOMAIN projects : projects[j] = ps[i]
  /\ \A j \in DOMAIN projects : projects[j].name # n => \E i \in DOMAIN ps : ps[i] = projects[j]

(* What the request is about.                                              *)
Changes(q, ps, next, r) ==
  CASE next = "sync" -> r \in ProjectRecord /\ \E i \in DOMAIN ps : ps[i] = r
    [] next = "unregister" -> r \in ProjectRecord /\ \A i \in DOMAIN ps : ps[i].name # r.name
    [] next = "idle" -> r = NoBot

LEMMA SavedFile ==
  ASSUME RegistryInv, Up, NEW ps \in Seq(ProjectRecord), OneName(ps), NEW d \in Names \cup {None}, Filed(ps, d)
  PROVE  Loaded' = ps /\ Readable' /\ disk' \in File_ /\ disk'.state = "ok" /\ disk'.marker = backend
         /\ disk'.default = d
<1>1. RegistryTypes /\ backend \in Backends
  BY DEF RegistryInv, Running, RegistryTypes, File_
<1>2. disk' \in File_ /\ disk'.state = "ok" /\ disk'.marker = backend /\ disk'.default = d
  BY <1>1, WrittenIs DEF Filed, Written, File
<1>3. disk'.projects = IF backend = "keyring" THEN [i \in DOMAIN ps |-> StripSecrets(ps[i])] ELSE ps
  BY DEF Filed, Written, File, Storable
<1>4. /\ backend = "keyring" => \A i \in DOMAIN ps :
           keyring'[ps[i].name] = [token |-> ps[i].token, secret |-> ps[i].secret]
      /\ ProjectRecord \subseteq Entry
  BY RecordIsEntry DEF Filed
<1>5. \A i \in DOMAIN ps : ps[i].token # None
  <2>1. \A i \in DOMAIN ps : ps[i] \in ProjectRecord
    BY RangeIs
  <2>2. QED
    BY <2>1, NoneIsNothing DEF ProjectRecord
<1>6. /\ Loaded' = ps /\ OneName(disk'.projects)
      /\ \A i \in DOMAIN disk'.projects : InPlace(disk.projects[i])'
  BY <1>1, <1>2, <1>3, <1>4, <1>5, WrittenLoads
<1>7. QED
  BY <1>2, <1>6 DEF Readable

LEMMA CrowdedNames ==
  ASSUME RegistryTypes, NEW q, NEW n, NEW tok, n \in Names \/ (n = None /\ tok = None), Crowds(q, n, tok)
  PROVE  crowded' \subseteq Names /\ (n = None => crowded' = crowded)
<1>1. crowded \subseteq Names /\ \A u \in Requests : InFlight(u) => change[u].rec.name \in Names
  BY DEF RegistryTypes, ProjectRecord
<1>2. InTheWay(q, n, tok) \subseteq Names
  BY <1>1 DEF InTheWay
<1>3. n = None => InTheWay(q, n, tok) = {}
  BY <1>1, NoneIsNothing DEF InTheWay
<1>4. n = None => crowded' = crowded
  BY <1>3 DEF Crowds
<1>5. n # None => crowded' \subseteq Names
  BY <1>1, <1>2 DEF Crowds
<1>6. QED
  BY <1>1, <1>4, <1>5

LEMMA SavedSafe ==
  ASSUME RegistryInv, NEW q \in Requests, NEW ps \in Seq(ProjectRecord), OneName(ps),
         ~failed => OneToken(ps), NEW d \in Names \cup {None},
         NEW next \in {"sync", "unregister", "idle"}, NEW r, Saved(q, ps, d, next, r),
         Kept(ps, r.name), Changes(q, ps, next, r),
         ~InFlight(q) \/ (change[q].pc = "save" /\ change[q].rec = r)
  PROVE  RegistryInv'
<1>1. /\ RegistryTypes /\ Readable /\ Loaded' = ps /\ Readable' /\ disk' \in File_ /\ disk'.state = "ok"
      /\ disk'.marker = backend /\ disk'.default = d /\ disk.state = "ok"
  BY SavedFile DEF RegistryInv, Running, Saved
<1>2. /\ change'[q] = [pc |-> next, rec |-> r] /\ \A u \in Requests \ {q} : change'[u] = change[u]
      /\ r \in Bot /\ (next # "idle" => r \in ProjectRecord)
  BY <1>1 DEF RegistryTypes, Saved, Advances, Changes, Bot
<1>3. RegistryTypes'
  <2>1. crowded' \subseteq Names
    BY <1>1, <1>2, CrowdedNames DEF Saved, Bot, ProjectRecord, NoBot, Changes
  <2>2. /\ change' \in [Requests -> [pc : Steps, rec : Bot]]
        /\ \A u \in Requests : InFlight(u)' => change'[u].rec \in ProjectRecord
    BY <1>1, <1>2 DEF RegistryTypes, Saved, Advances, Steps, InFlight
  <2>3. QED
    BY <1>1, <2>1, <2>2 DEF RegistryTypes, Saved, Filed, Lives, bots
<1>4. Running' /\ Synced' /\ NoStaleBot'
  BY <1>1 DEF RegistryInv, Running, Synced, NoStaleBot, Saved, Lives, bots, Up
<1>5. ASSUME ~failed
      PROVE  Uncrowded'
  <2>1. /\ Uncrowded /\ Loaded = projects /\ OneName(projects) /\ OneToken(projects) /\ OneToken(ps)
        /\ Synced /\ boot' = boot /\ boot = "up"
        /\ byName' = byName /\ byHash' = byHash /\ hook' = hook /\ unhooked' = unhooked
    BY <1>1, <1>5 DEF RegistryInv, Synced, Uncrowded, Running, Saved, Lives, bots, Up
  <2>2. /\ crowded \subseteq crowded'
        /\ r.name \notin crowded' =>
             InTheWay(q, r.name, IF next = "unregister" THEN None ELSE r.token) = {}
    BY DEF Saved, Crowds
  <2>3. ASSUME NEW n \in Names, n \notin crowded', n # r.name
        PROVE  /\ OneRequest(n)' /\ NoBotLeft(n)'
               /\ \A i \in DOMAIN ps : ps[i].name = n =>
                    OwnToken(ps[i])' /\ Requested(ps[i])' /\ OwnBot(ps[i])'
    <3>1. /\ OneRequest(n) /\ NoBotLeft(n)
          /\ \A j \in DOMAIN projects : projects[j].name = n =>
               OwnToken(projects[j]) /\ Requested(projects[j]) /\ OwnBot(projects[j])
      BY <1>1, <1>5, <2>1, <2>2, <2>3 DEF Uncrowded
    <3>2. /\ \A u \in Requests : About(u, n)' /\ InFlight(u)' => u # q /\ About(u, n) /\ InFlight(u)
          /\ \A u \in Requests : About(u, n) /\ InFlight(u) => u # q /\ About(u, n)' /\ InFlight(u)'
          /\ \A u \in Requests \ {q} : (Late(u)' <=> Late(u)) /\ (\A m : About(u, m)' <=> About(u, m))
      BY <1>2, <2>3 DEF About, InFlight, Late
    <3>3. OneRequest(n)'
      BY <3>1, <3>2 DEF OneRequest
    <3>4. NoBotLeft(n)'
      <4>1. ASSUME n \notin {ps[i].name : i \in DOMAIN ps}
            PROVE  n \notin {Loaded[i].name : i \in DOMAIN Loaded}
        BY <2>1, <2>3, <4>1 DEF Kept
      <4>2. \A u \in Requests : change[u].pc = "unregister" /\ About(u, n) =>
              change'[u].pc = "unregister" /\ About(u, n)'
        BY <1>2, <3>2 DEF InFlight
      <4>3. QED
        BY <1>1, <2>1, <3>1, <3>2, <4>1, <4>2 DEF NoBotLeft, Late, InFlight
    <3>5. ASSUME NEW i \in DOMAIN ps, ps[i].name = n
          PROVE  OwnToken(ps[i])' /\ Requested(ps[i])' /\ OwnBot(ps[i])'
      <4>1. PICK s \in ProjectRecord : s = ps[i]
        BY RangeIs
      <4>2. OwnToken(s) /\ Requested(s) /\ OwnBot(s) /\ s.name = n
        BY <2>3, <3>1, <3>5, <4>1 DEF Kept
      <4>3. next = "sync" => r.token # s.token
        BY <2>1, <2>3, <3>5, <4>1 DEF OneToken, Changes
      <4>4. OwnToken(s)'
        BY <1>2, <2>1, <3>2, <4>2, <4>3 DEF OwnToken, Late
      <4>5. Requested(s)'
        BY <1>2, <2>1, <3>2, <4>2 DEF Requested
      <4>6. OwnBot(s)'
        BY <1>2, <2>1, <3>2, <4>2 DEF OwnBot, Late, InFlight, Up, SecretToken
      <4>7. QED
        BY <4>1, <4>4, <4>5, <4>6
    <3>6. QED
      BY <3>3, <3>4, <3>5
  <2>4. ASSUME r.name \in Names, r.name \notin crowded'
        PROVE  /\ OneRequest(r.name)' /\ NoBotLeft(r.name)'
               /\ \A i \in DOMAIN ps : ps[i].name = r.name =>
                    OwnToken(ps[i])' /\ Requested(ps[i])' /\ OwnBot(ps[i])'
    <3> DEFINE n == r.name
    <3>1. next # "idle" /\ r \in ProjectRecord /\ n \in Names
      <4>1. next = "idle" => r.name = None
        BY DEF Changes, NoBot
      <4>2. QED
        BY <1>2, <2>4, <4>1, NoneIsNothing
    <3>2. InTheWay(q, n, IF next = "unregister" THEN None ELSE r.token) = {}
      BY <2>2, <2>4
    <3>3. \A u \in Requests \ {q} : InFlight(u) => ~About(u, n)
      BY <3>2 DEF InTheWay, About
    <3>4. OneRequest(n)'
      BY <1>2, <3>3 DEF OneRequest, About, InFlight
    <3>5. NoBotLeft(n)'
      <4>1. CASE next = "sync"
        BY <1>1, <4>1 DEF NoBotLeft, Changes
      <4>2. CASE next = "unregister"
        BY <1>2, <3>3, <4>2 DEF NoBotLeft, Late, InFlight, About
      <4>3. QED
        BY <3>1, <4>1, <4>2
    <3>6. ASSUME NEW i \in DOMAIN ps, ps[i].name = n
          PROVE  OwnToken(ps[i])' /\ Requested(ps[i])' /\ OwnBot(ps[i])'
      <4>1. next = "sync" /\ ps[i] = r
        BY <3>1, <3>6 DEF Changes, OneName
      <4>2. \A m \in crowded \cup {change[u].rec.name : u \in {u \in Requests \ {q} : InFlight(u)}} :
              r.token # byName[m].token /\ \A u \in Requests : change[u].rec.name = m => change[u].rec.token # r.token
        <5>1. r.token # None
          BY <3>1, NoneIsNothing DEF ProjectRecord
        <5>2. QED
          BY <3>2, <4>1, <5>1 DEF InTheWay, Holds
      <4>3. ASSUME NEW m \in Names, m # n
            PROVE  byName[m].token # r.token
        <5>1. CASE m \in crowded \cup {change[u].rec.name : u \in {u \in Requests \ {q} : InFlight(u)}}
          BY <4>2, <5>1
        <5>2. CASE m \notin crowded \cup {change[u].rec.name : u \in {u \in Requests \ {q} : InFlight(u)}}
          <6>1. \A u \in Requests : InFlight(u) => ~About(u, m)
            BY <4>3, <5>2 DEF About, InFlight
          <6>2. CASE \E j \in DOMAIN projects : projects[j].name = m
            <7>1. PICK j \in DOMAIN projects : projects[j].name = m
              BY <6>2
            <7>2. projects[j].token # r.token
              <8>1. PICK k \in DOMAIN ps : ps[k] = projects[j]
                BY <4>3, <7>1 DEF Kept
              <8>2. QED
                BY <2>1, <3>6, <4>1, <4>3, <7>1, <8>1 DEF OneToken
            <7>3. OwnBot(projects[j])
              BY <1>1, <1>5, <2>1, <5>2, <7>1 DEF Uncrowded
            <7>4. byName[m] \in {projects[j], NoBot}
              BY <2>1, <6>1, <7>1, <7>3 DEF OwnBot, Late, InFlight, Up
            <7>5. QED
              BY <3>1, <7>2, <7>4, NoneIsNothing DEF NoBot, ProjectRecord
          <6>3. CASE \A j \in DOMAIN projects : projects[j].name # m
            <7>1. NoBotLeft(m)
              BY <1>1, <1>5, <2>1, <5>2 DEF Uncrowded
            <7>2. byName[m] = NoBot
              BY <2>1, <6>1, <6>3, <7>1 DEF NoBotLeft, InFlight
            <7>3. QED
              BY <3>1, <7>2, NoneIsNothing DEF NoBot, ProjectRecord
          <6>4. QED
            BY <6>2, <6>3
        <5>3. QED
          BY <5>1, <5>2
      <4>4. OwnToken(r)'
        <5>1. ASSUME NEW u \in Requests, Late(u)', ~About(u, n)'
              PROVE  change'[u].rec.token # r.token
          <6>1. u # q /\ change'[u] = change[u]
            BY <1>2, <5>1 DEF About
          <6>2. InFlight(u)
            BY <5>1, <6>1 DEF Late, InFlight
          <6>3. QED
            BY <4>2, <6>1, <6>2
        <5>2. QED
          BY <2>1, <4>3, <5>1 DEF OwnToken
      <4>5. Requested(r)'
        BY <1>2, <3>3, <4>1 DEF Requested, About, InFlight
      <4>6. OwnBot(r)'
        BY <1>2, <4>1 DEF OwnBot, Late, About
      <4>7. QED
        BY <4>1, <4>4, <4>5, <4>6
    <3>7. QED
      BY <3>4, <3>5, <3>6
  <2>5. \A n \in Names \ crowded' : OneRequest(n)' /\ NoBotLeft(n)'
    BY <2>3, <2>4
  <2>6. \A i \in DOMAIN ps : ps[i].name \notin crowded' =>
          OwnToken(ps[i])' /\ Requested(ps[i])' /\ OwnBot(ps[i])'
    <3>1. \A i \in DOMAIN ps : ps[i] \in ProjectRecord
      BY RangeIs
    <3>2. \A i \in DOMAIN ps : ps[i].name \in Names
      BY <3>1 DEF ProjectRecord
    <3>3. QED
      BY <2>3, <2>4, <3>2
  <2>7. QED
    BY <1>1, <2>1, <2>5, <2>6 DEF Uncrowded
<1>6. QED
  BY <1>1, <1>3, <1>4, <1>5 DEF RegistryInv, Uncrowded, Saved

-----------------------------------------------------------------------------
(* The requests.                                                           *)

LEMMA SavesSafe ==
  ASSUME RegistryInv, Up, NEW q \in Requests, NEW ps \in Seq(ProjectRecord), OneName(ps),
         ~failed => OneToken(ps), NEW d \in Names \cup {None},
         NEW next \in {"sync", "unregister", "idle"}, next # "unregister", NEW r, Saves(q, ps, d, next, r),
         Kept(ps, r.name), Changes(q, ps, next, r),
         ~InFlight(q) \/ (change[q].pc = "save" /\ change[q].rec = r),
         r.name \in Registered => change[q].rec = r
  PROVE  RegistryInv'
<1>1. RegistryTypes /\ OneName(projects)
  BY DEF RegistryInv, Running
<1>2. CASE /\ projects' = ps /\ default' = d /\ Lives /\ Crowds(q, r.name, r.token)
           /\ disk' = Written(ps, d).disk /\ keyring' = Written(ps, d).keyring
           /\ Advances(q, next, r) /\ UNCHANGED failed
  <2>1. backend \in Backends
    BY DEF RegistryInv, Running, RegistryTypes, File_
  <2>2. Saved(q, ps, d, next, r)
    BY <1>1, <1>2, <2>1, WrittenIs DEF Saved, Filed
  <2>3. QED
    BY <2>2, SavedSafe
<1>3. CASE /\ projects' = ps /\ default' = d /\ Lives /\ Crowds(q, r.name, r.token)
           /\ \E w \in Refused(ps) : disk' = w.disk /\ keyring' = w.keyring
           /\ Responds(q) /\ failed' = TRUE
  <2>1. crowded' \subseteq Names
    <3>1. next = "sync" => r.name \in Names
      BY DEF Changes, ProjectRecord
    <3>2. next = "idle" => r.name = None /\ r.token = None
      BY DEF Changes, NoBot
    <3>3. QED
      BY <1>1, <1>3, <3>1, <3>2, CrowdedNames
  <2>2. QED
    BY <1>3, <2>1, RefusedSafe
<1>4. CASE Dies /\ \E w \in CutShort(ps, d) : disk' = w.disk /\ keyring' = w.keyring
  <2>1. \A i \in DOMAIN ps : ps[i] \in ProjectRecord
    BY RangeIs
  <2>2. \A j \in DOMAIN projects : projects[j] \in ProjectRecord
    BY <1>1, RangeIs DEF RegistryTypes
  <2>3. ASSUME NEW i \in DOMAIN ps
        PROVE  ps[i] = r \/ \E j \in DOMAIN projects : ps[i] = projects[j]
    <3>1. CASE ps[i].name # r.name
      BY <3>1 DEF Kept
    <3>2. CASE ps[i].name = r.name /\ next = "sync"
      BY <3>2 DEF Changes, OneName
    <3>3. CASE ps[i].name = r.name /\ next = "idle"
      BY <2>1, <3>3, NoneIsNothing DEF Changes, NoBot, ProjectRecord
    <3>4. QED
      BY <3>1, <3>2, <3>3
  <2>4. ASSUME NEW j \in DOMAIN projects
        PROVE  IF projects[j].name = r.name THEN \E u \in Requests : change[u].rec = r
               ELSE ~failed => projects[j].token # r.token
    <3>1. CASE projects[j].name = r.name
      <4>1. r.name \in Registered
        BY <1>1, <3>1, RangeIs DEF RegistryTypes, Registered
      <4>2. QED
        BY <3>1, <4>1
    <3>2. CASE projects[j].name # r.name /\ next = "sync"
      BY <3>2 DEF Changes, Kept, OneToken
    <3>3. CASE projects[j].name # r.name /\ next = "idle"
      BY <2>2, <3>3, NoneIsNothing DEF Changes, NoBot, ProjectRecord
    <3>4. QED
      BY <3>1, <3>2, <3>3
  <2>5. PICK w \in CutShort(ps, d) : disk' = w.disk /\ keyring' = w.keyring
    BY <1>4
  <2>6. QED
    BY <1>4, <2>3, <2>4, <2>5, DiesWriting
<1>5. QED
  BY <1>2, <1>3, <1>4 DEF Saves

(* What is read does not change with the rest.                             *)
LEMMA FileStays ==
  ASSUME UNCHANGED stored
  PROVE  Loaded' = Loaded /\ (Readable => Readable')
BY DEF Loaded, Inject, Readable, InPlace

(* A request comes in to change a project, or is turned away.              *)
LEMMA WaitsSafe ==
  ASSUME RegistryInv, Up, Lives, UNCHANGED <<registry, stored, failed>>, NEW q \in Requests,
         change[q].pc \in {"idle", "save"}, NEW r, Advances(q, "save", r) \/ Responds(q),
         crowded \subseteq crowded', crowded' \subseteq Names,
         Advances(q, "save", r) =>
           /\ r \in ProjectRecord
           /\ r.name \notin crowded' => \A u \in Requests \ {q} : InFlight(u) => ~About(u, r.name)
  PROVE  RegistryInv'
<1>1. /\ change'[q].pc \in {"idle", "save"} /\ \A u \in Requests \ {q} : change'[u] = change[u]
      /\ InFlight(q)' => Advances(q, "save", r) /\ r \in ProjectRecord /\ change'[q].rec = r
  BY DEF RegistryInv, RegistryTypes, Advances, Responds, Idle, InFlight
<1>2. /\ Loaded' = Loaded /\ Readable' /\ disk' = disk /\ boot' = boot /\ boot = "up" /\ byName' = byName
      /\ byHash' = byHash /\ hook' = hook /\ unhooked' = unhooked /\ projects' = projects
  BY FileStays DEF RegistryInv, Lives, bots, stored, registry, Up
<1>3. RegistryTypes'
  <2>1. /\ change' \in [Requests -> [pc : Steps, rec : Bot]]
        /\ \A u \in Requests : InFlight(u)' => change'[u].rec \in ProjectRecord
    <3>1. PICK x \in [pc : Steps, rec : Bot] :
            change' = [change EXCEPT ![q] = x] /\ (x.pc # "idle" => x.rec \in ProjectRecord)
      <4>1. CASE Advances(q, "save", r)
        <5>1. [pc |-> "save", rec |-> r] \in [pc : Steps, rec : Bot] /\ r \in ProjectRecord
          BY <4>1 DEF Steps, Bot
        <5>2. QED
          BY <4>1, <5>1 DEF Advances
      <4>2. CASE Responds(q)
        <5>1. Idle \in [pc : Steps, rec : Bot]
          BY DEF Idle, Steps, Bot
        <5>2. QED
          BY <4>2, <5>1 DEF Responds, Idle
      <4>3. QED
        BY <4>1, <4>2
    <3>2. QED
      BY <3>1 DEF RegistryInv, RegistryTypes, InFlight
  <2>2. QED
    BY <2>1 DEF RegistryInv, RegistryTypes, Lives, bots, stored, registry
<1>4. Running' /\ Synced' /\ NoStaleBot'
  BY <1>2 DEF RegistryInv, Running, Synced, NoStaleBot, Lives, Up
<1>5. ASSUME ~failed
      PROVE  Uncrowded'
  <2>1. Uncrowded /\ disk.state # "torn"
    BY <1>2 DEF RegistryInv, Running, Up
  <2>2. /\ \A u \in Requests : Late(u)' <=> Late(u)
        /\ \A u \in Requests : Late(u) \/ change[u].pc = "unregister" \/ change'[u].pc \in {"hook", "unregister"} =>
             change'[u] = change[u]
    BY <1>1 DEF Late
  <2>3. ASSUME NEW n \in Names, n \notin crowded'
        PROVE  OneRequest(n)' /\ NoBotLeft(n)'
    <3>1. OneRequest(n) /\ NoBotLeft(n)
      BY <1>5, <2>1, <2>3 DEF Uncrowded
    <3>2. OneRequest(n)'
      <4>1. InFlight(q)' /\ About(q, n)' => \A u \in Requests \ {q} : InFlight(u) => ~About(u, n)
        BY <1>1, <2>3 DEF About
      <4>2. \A u \in Requests \ {q} : (InFlight(u)' <=> InFlight(u)) /\ (About(u, n)' <=> About(u, n))
        BY <1>1 DEF About, InFlight
      <4>3. QED
        BY <3>1, <4>1, <4>2 DEF OneRequest
    <3>3. NoBotLeft(n)'
      BY <1>1, <1>2, <2>2, <3>1 DEF NoBotLeft, About
    <3>4. QED
      BY <3>2, <3>3
  <2>4. ASSUME NEW s, OwnToken(s), Requested(s), OwnBot(s)
        PROVE  OwnToken(s)' /\ Requested(s)' /\ OwnBot(s)'
    <3>1. OwnToken(s)'
      BY <1>2, <2>2, <2>4 DEF OwnToken, About
    <3>2. Requested(s)'
      BY <1>1, <1>2, <2>2, <2>4 DEF Requested, About, InFlight, Late
    <3>3. OwnBot(s)'
      BY <1>2, <2>2, <2>4 DEF OwnBot, About, Up, SecretToken
    <3>4. QED
      BY <3>1, <3>2, <3>3
  <2>5. QED
    BY <1>2, <1>5, <2>1, <2>3, <2>4 DEF Uncrowded
<1>6. QED
  BY <1>2, <1>3, <1>4, <1>5 DEF RegistryInv, Uncrowded

(* A record at the end of a list of the others.                            *)
LEMMA AppendedKeeps ==
  ASSUME NEW qs \in Seq(ProjectRecord), OneName(qs), NEW r \in ProjectRecord, NEW q,
         r.name \notin NamesOf(Range(qs)), ~Collides(qs, r), Kept(qs, r.name)
  PROVE  LET ps == Append(qs, r)
         IN  /\ ps \in Seq(ProjectRecord) /\ OneName(ps) /\ (OneToken(qs) => OneToken(ps))
             /\ Kept(ps, r.name) /\ Changes(q, ps, "sync", r)
<1> DEFINE ps == Append(qs, r)
<1>1. /\ ps \in Seq(ProjectRecord) /\ OneName(ps) /\ (OneToken(qs) => OneToken(ps))
      /\ \A i \in DOMAIN qs : i \in DOMAIN ps /\ ps[i] = qs[i]
      /\ Len(qs) + 1 \in DOMAIN ps /\ ps[Len(qs) + 1] = r
      /\ \A i \in DOMAIN ps : i \in DOMAIN qs \/ i = Len(qs) + 1
  BY Appended
<1> HIDE DEF ps
<1>2. Changes(q, ps, "sync", r)
  BY <1>1 DEF Changes
<1>3. Kept(ps, r.name)
  BY <1>1 DEF Kept
<1>4. QED
  BY <1>1, <1>2, <1>3 DEF ps

LEMMA CreateSafe == ASSUME RegistryInv, NEW q \in Requests, Create(q) PROVE RegistryInv'
<1>1. PICK r \in ProjectRecord :
        IF r.name \in Registered \/ Collides(projects, r)
        THEN Responds(q) /\ Lives /\ UNCHANGED <<registry, stored, failed, crowded>>
        ELSE Saves(q, Append(projects, r), IF default = None THEN r.name ELSE default, "sync", r)
  BY DEF Create
<1>2. Up /\ ~InFlight(q) /\ change[q].pc = "idle" /\ RegistryTypes /\ OneName(projects)
  BY DEF Create, Arrives, InFlight, RegistryInv, Running
<1>3. CASE r.name \in Registered \/ Collides(projects, r)
  <2>1. Responds(q) /\ Lives /\ UNCHANGED <<registry, stored, failed, crowded>>
    BY <1>1, <1>3
  <2>2. ~Advances(q, "save", r)
    BY <1>2, <2>1 DEF Advances, Responds, Idle, RegistryTypes
  <2>3. QED
    BY <1>2, <2>1, <2>2, WaitsSafe DEF RegistryTypes
<1>4. CASE r.name \notin Registered /\ ~Collides(projects, r)
  <2> DEFINE ps == Append(projects, r)
             d == IF default = None THEN r.name ELSE default
  <2>1. d \in Names \cup {None} /\ projects \in Seq(ProjectRecord)
    BY <1>2 DEF RegistryTypes, ProjectRecord
  <2>2. /\ ps \in Seq(ProjectRecord) /\ OneName(ps) /\ (OneToken(projects) => OneToken(ps))
        /\ Kept(ps, r.name) /\ Changes(q, ps, "sync", r)
    <3>1. r.name \notin NamesOf(Range(projects)) /\ Kept(projects, r.name)
      BY <1>4 DEF Registered, Kept
    <3>2. QED
      BY <1>2, <1>4, <2>1, <3>1, AppendedKeeps
  <2>3. ~failed => OneToken(projects)
    BY <1>2 DEF RegistryInv, Synced, Uncrowded, Running
  <2>4. QED
    BY <1>1, <1>2, <1>4, <2>1, <2>2, <2>3, SavesSafe
<1>5. QED
  BY <1>3, <1>4

(* All of a name but one that goes.                                        *)
LEMMA RemovedKeeps ==
  ASSUME RegistryTypes, OneName(projects), NEW n \in Registered
  PROVE  LET qs == WithoutProject(projects, n)
         IN  /\ qs \in Seq(ProjectRecord) /\ OneName(qs) /\ (OneToken(projects) => OneToken(qs))
             /\ Kept(qs, n) /\ n \notin NamesOf(Range(qs)) /\ \A i \in DOMAIN qs : qs[i].name # n
             /\ \A i \in DOMAIN qs : \E j \in DOMAIN projects : qs[i] = projects[j]
<1> DEFINE qs == WithoutProject(projects, n)
<1>1. /\ qs \in Seq(ProjectRecord) /\ OneName(qs) /\ (OneToken(projects) => OneToken(qs))
      /\ \A i \in DOMAIN qs : qs[i].name # n /\ \E j \in DOMAIN projects : qs[i] = projects[j]
      /\ \A j \in DOMAIN projects : projects[j].name # n => \E i \in DOMAIN qs : qs[i] = projects[j]
  BY Removed DEF RegistryTypes, Registered
<1> HIDE DEF qs
<1>2. n \notin NamesOf(Range(qs))
  BY <1>1, RangeIs
<1>3. QED
  BY <1>1, <1>2 DEF qs, Kept

LEMMA UpdateSafe == ASSUME RegistryInv, NEW q \in Requests, Update(q) PROVE RegistryInv'
<1>1. /\ Up /\ change[q].pc = "idle" /\ RegistryTypes /\ Lives /\ UNCHANGED <<registry, stored, failed>>
  BY DEF Update, Arrives, InFlight, RegistryInv
<1>2. PICK n \in Registered : \E tok \in Tokens, secret \in Secrets \cup {None}, on \in BOOLEAN :
        /\ Advances(q, "save", [name |-> n, token |-> tok, secret |-> secret, enabled |-> on])
        /\ crowded' = crowded \cup InTheWay(q, n, None)
  BY DEF Update
<1>3. PICK tok \in Tokens, secret \in Secrets \cup {None}, on \in BOOLEAN :
        /\ Advances(q, "save", [name |-> n, token |-> tok, secret |-> secret, enabled |-> on])
        /\ crowded' = crowded \cup InTheWay(q, n, None)
  BY <1>2
<1> DEFINE r == [name |-> n, token |-> tok, secret |-> secret, enabled |-> on]
<1>4. n \in Names
  <2>1. PICK j \in DOMAIN projects : projects[j].name = n
    BY <1>1, RangeIs DEF RegistryTypes, Registered
  <2>2. projects[j] \in ProjectRecord
    BY <1>1, RangeIs DEF RegistryTypes
  <2>3. QED
    BY <2>1, <2>2 DEF ProjectRecord
<1>5. r \in ProjectRecord /\ r.name = n
  BY <1>4 DEF ProjectRecord
<1>6. InTheWay(q, n, None) \subseteq Names
  <2>1. \A u \in Requests : InFlight(u) => change[u].rec.name \in Names
    BY <1>1 DEF RegistryTypes, ProjectRecord
  <2>2. QED
    BY <1>1, <2>1 DEF InTheWay, RegistryTypes
<1>7. n \notin crowded' => \A u \in Requests \ {q} : InFlight(u) => ~About(u, n)
  BY <1>3 DEF InTheWay, About
<1>8. crowded \subseteq crowded' /\ crowded' \subseteq Names
  BY <1>1, <1>3, <1>6 DEF RegistryTypes
<1> HIDE DEF r
<1>9. Advances(q, "save", r)
  BY <1>3 DEF r
<1>10. QED
  BY <1>1, <1>5, <1>7, <1>8, <1>9, WaitsSafe

LEMMA UpdateProjectSafe == ASSUME RegistryInv, NEW q \in Requests, UpdateProject(q) PROVE RegistryInv'
<1> DEFINE r == change[q].rec
           others == WithoutProject(projects, r.name)
<1>1. /\ Up /\ change[q].pc = "save" /\ RegistryTypes /\ OneName(projects) /\ r \in ProjectRecord
  BY DEF UpdateProject, InFlight, RegistryInv, Running, RegistryTypes
<1>2. CASE r.name \notin Registered \/ Collides(others, r)
  <2>1. Responds(q) /\ Lives /\ UNCHANGED <<registry, stored, failed, crowded>>
    BY <1>2 DEF UpdateProject
  <2>2. ~Advances(q, "save", r)
    BY <1>1, <2>1 DEF Advances, Responds, Idle, RegistryTypes
  <2>3. QED
    BY <1>1, <2>1, <2>2, WaitsSafe DEF RegistryTypes
<1>3. CASE r.name \in Registered /\ ~Collides(others, r)
  <2> DEFINE ps == Append(others, r)
  <2>1. Saves(q, ps, default, "sync", r)
    BY <1>3 DEF UpdateProject
  <2>2. /\ others \in Seq(ProjectRecord) /\ OneName(others) /\ (OneToken(projects) => OneToken(others))
        /\ Kept(others, r.name) /\ r.name \notin NamesOf(Range(others))
    BY <1>1, <1>3, RemovedKeeps
  <2> HIDE DEF others
  <2>3. /\ ps \in Seq(ProjectRecord) /\ OneName(ps) /\ (OneToken(others) => OneToken(ps))
        /\ Kept(ps, r.name) /\ Changes(q, ps, "sync", r)
    BY <1>1, <1>3, <2>2, AppendedKeeps
  <2>4. ~failed => OneToken(projects)
    BY <1>1 DEF RegistryInv, Synced, Uncrowded, Running
  <2>5. default \in Names \cup {None}
    BY <1>1 DEF RegistryTypes
  <2> HIDE DEF r, ps
  <2>6. change[q].rec = r
    BY DEF r
  <2>7. QED
    BY <1>1, <2>1, <2>2, <2>3, <2>4, <2>5, <2>6, SavesSafe
<1>4. QED
  BY <1>2, <1>3

LEMMA SetDefaultSafe == ASSUME RegistryInv, NEW q \in Requests, SetDefault(q) PROVE RegistryInv'
<1>1. /\ Up /\ change[q].pc = "idle" /\ RegistryTypes /\ OneName(projects)
      /\ (~failed => OneToken(projects)) /\ projects \in Seq(ProjectRecord)
  BY DEF SetDefault, Arrives, InFlight, RegistryInv, Running, Synced, Uncrowded, RegistryTypes
<1>2. PICK s \in Range(projects) : Saves(q, projects, s.name, "idle", NoBot)
  BY DEF SetDefault
<1>3. s \in ProjectRecord /\ s.name \in Names
  <2>1. s \in ProjectRecord
    BY <1>1, RangeIs
  <2>2. QED
    BY <2>1 DEF ProjectRecord
<1>4. /\ Kept(projects, NoBot.name) /\ Changes(q, projects, "idle", NoBot)
  BY DEF Kept, Changes
<1>5. NoBot.name \notin Registered
  <2>1. \A i \in DOMAIN projects : projects[i] \in ProjectRecord
    BY <1>1, RangeIs
  <2>2. QED
    BY <1>1, <2>1, RangeIs, NoneIsNothing DEF Registered, NoBot, ProjectRecord
<1>6. QED
  BY <1>1, <1>2, <1>3, <1>4, <1>5, SavesSafe DEF InFlight

LEMMA RemoveSafe == ASSUME RegistryInv, NEW q \in Requests, RemoveProject(q) PROVE RegistryInv'
<1>1. /\ Up /\ change[q].pc = "idle" /\ RegistryTypes /\ OneName(projects) /\ projects \in Seq(ProjectRecord)
      /\ (~failed => OneToken(projects)) /\ backend \in Backends
  BY DEF RemoveProject, Arrives, InFlight, RegistryInv, Running, Synced, Uncrowded, RegistryTypes, File_
<1>2. PICK n \in Registered :
        LET ps == WithoutProject(projects, n)
            d == IF ps = <<>> THEN None ELSE IF n = default THEN Head(ps).name ELSE default
            r == RecordOf(Range(projects), n)
            w == Written(ps, d)
        IN  \/ /\ projects' = ps /\ default' = d /\ Lives /\ Crowds(q, n, None)
               /\ \/ /\ disk' = w.disk /\ Advances(q, "unregister", r) /\ UNCHANGED failed
                     /\ keyring' = Deleted(w.keyring, n)
                  \/ \E x \in Refused(ps) : disk' = x.disk /\ keyring' = x.keyring
                     /\ Responds(q) /\ failed' = TRUE
            \/ Dies /\ \E x \in CutShort(ps, d) \cup {w} : disk' = x.disk /\ keyring' = x.keyring
  BY DEF RemoveProject
<1> DEFINE ps == WithoutProject(projects, n)
           d == IF ps = <<>> THEN None ELSE IF n = default THEN Head(ps).name ELSE default
           r == RecordOf(Range(projects), n)
           w == Written(ps, d)
<1>3. r \in ProjectRecord /\ r.name = n /\ n \in Names
  <2>1. PICK j \in DOMAIN projects : projects[j].name = n
    BY <1>1, RangeIs DEF Registered
  <2>2. projects[j] \in ProjectRecord
    BY <1>1, RangeIs
  <2>3. r = projects[j]
    BY <1>1, <2>1, RecordAt
  <2>4. QED
    BY <2>1, <2>2, <2>3 DEF ProjectRecord
<1>4. /\ ps \in Seq(ProjectRecord) /\ OneName(ps) /\ (OneToken(projects) => OneToken(ps))
      /\ Kept(ps, n) /\ \A i \in DOMAIN ps : ps[i].name # n
      /\ \A i \in DOMAIN ps : \E j \in DOMAIN projects : ps[i] = projects[j]
  BY <1>1, RemovedKeeps
<1>5. d \in Names \cup {None}
  <2> HIDE DEF ps
  <2>1. default \in Names \cup {None}
    BY <1>1 DEF RegistryTypes
  <2>2. ps # <<>> => Head(ps) \in ProjectRecord
    BY <1>4
  <2>3. ps # <<>> => Head(ps).name \in Names
    BY <2>2 DEF ProjectRecord
  <2>4. QED
    BY <2>1, <2>3
<1>6. \/ /\ projects' = ps /\ default' = d /\ Lives /\ Crowds(q, n, None)
         /\ \/ /\ disk' = w.disk /\ Advances(q, "unregister", r) /\ UNCHANGED failed
               /\ keyring' = Deleted(w.keyring, n)
            \/ \E x \in Refused(ps) : disk' = x.disk /\ keyring' = x.keyring
               /\ Responds(q) /\ failed' = TRUE
      \/ Dies /\ \E x \in CutShort(ps, d) \cup {w} : disk' = x.disk /\ keyring' = x.keyring
  BY <1>2
<1>7. /\ w.keyring \in [Names -> Secret]
      /\ backend = "keyring" => \A i \in DOMAIN ps :
           w.keyring[ps[i].name] = [token |-> ps[i].token, secret |-> ps[i].secret]
  BY <1>1, <1>4, <1>5, WrittenIs
<1>8. \A j \in DOMAIN projects : projects[j].name # None /\ projects[j].token # None
  <2>1. \A j \in DOMAIN projects : projects[j] \in ProjectRecord
    BY <1>1, RangeIs
  <2>2. QED
    BY <2>1, NoneIsNothing DEF ProjectRecord
<1> HIDE DEF ps, d, r
<1>9. \A i \in DOMAIN ps : ps[i].name \in Names
  <2>1. \A i \in DOMAIN ps : ps[i] \in ProjectRecord
    BY <1>4, RangeIs
  <2>2. QED
    BY <2>1 DEF ProjectRecord
<1>10. CASE /\ projects' = ps /\ default' = d /\ Lives /\ Crowds(q, n, None)
            /\ disk' = w.disk /\ Advances(q, "unregister", r) /\ UNCHANGED failed
            /\ keyring' = Deleted(w.keyring, n)
  <2>1. Filed(ps, d)
    <3>1. Empty \in Secret
      BY DEF Empty, Secret
    <3>2. /\ keyring' \in [Names -> Secret]
          /\ \A m \in Names : m # n => keyring'[m] = w.keyring[m]
      BY <1>7, <1>10, <3>1 DEF Deleted
    <3>3. QED
      BY <1>4, <1>7, <1>9, <1>10, <3>2 DEF Filed
  <2>2. Saved(q, ps, d, "unregister", r)
    BY <1>1, <1>3, <1>10, <2>1 DEF Saved
  <2>3. Changes(q, ps, "unregister", r)
    BY <1>3, <1>4 DEF Changes
  <2>4. QED
    BY <1>1, <1>3, <1>4, <1>5, <2>2, <2>3, SavedSafe DEF InFlight
<1>11. CASE /\ projects' = ps /\ default' = d /\ Lives /\ Crowds(q, n, None)
            /\ \E x \in Refused(ps) : disk' = x.disk /\ keyring' = x.keyring
            /\ Responds(q) /\ failed' = TRUE
  <2>1. crowded' \subseteq Names
    BY <1>1, <1>3, <1>11, CrowdedNames
  <2>2. QED
    BY <1>1, <1>4, <1>5, <1>11, <2>1, RefusedSafe
<1>12. CASE Dies /\ \E x \in CutShort(ps, d) : disk' = x.disk /\ keyring' = x.keyring
  <2>1. PICK x \in CutShort(ps, d) : disk' = x.disk /\ keyring' = x.keyring
    BY <1>12
  <2>2. /\ \A i \in DOMAIN ps : ps[i] = NoBot \/ \E j \in DOMAIN projects : ps[i] = projects[j]
        /\ \A j \in DOMAIN projects :
             IF projects[j].name = NoBot.name THEN \E u \in Requests : change[u].rec = NoBot
             ELSE ~failed => projects[j].token # NoBot.token
    BY <1>4, <1>8 DEF NoBot
  <2>3. QED
    BY <1>1, <1>4, <1>5, <1>12, <2>1, <2>2, DiesWriting
<1>13. CASE Dies /\ disk' = w.disk /\ keyring' = w.keyring
  <2>1. Filed(ps, d)
    BY <1>7, <1>13 DEF Filed
  <2>2. Loaded' = ps /\ Readable' /\ disk' \in File_ /\ keyring' \in [Names -> Secret]
    BY <1>1, <1>4, <1>5, <1>7, <1>13, <2>1, SavedFile
  <2>3. ~failed => OneToken(Loaded') /\ \A i \in DOMAIN Loaded' : \E j \in DOMAIN Loaded : Loaded[j] = Loaded'[i]
    BY <1>1, <1>4, <2>2 DEF RegistryInv, Synced
  <2>4. QED
    BY <1>1, <1>13, <2>2, <2>3, DiesSafe
<1>14. QED
  BY <1>6, <1>10, <1>11, <1>12, <1>13

-----------------------------------------------------------------------------
(* The bots and webhooks.                                                  *)

(* A step of request q, past its write, about the bot of r.                *)
LastStep(q, r, x) ==
  /\ UNCHANGED <<registry, stored, boot, backend, failed, crowded>>
  /\ change[q].rec = r /\ (Late(q) \/ change[q].pc = "unregister")
  /\ x \in [pc : {"idle", "hook"}, rec : Bot] /\ change' = [change EXCEPT ![q] = x]
  /\ x.pc = "hook" => change[q].pc = "sync" /\ x.rec = r
  /\ \A m \in Names : m # r.name => byName'[m] = byName[m]
  /\ byName'[r.name] \in {NoBot, byName[r.name]} \cup (IF Late(q) THEN {r} ELSE {})
  /\ \A t \in Tokens : t # byName[r.name].token /\ (Late(q) => t # r.token) =>
       byHash'[t] = byHash[t] /\ hook'[t] = hook[t] /\ (t \in unhooked' <=> t \in unhooked)

(* It leaves the bots of the others alone.                                 *)
LEMMA OthersStay ==
  ASSUME RegistryInv, ~failed, NEW q \in Requests, NEW r, NEW x, LastStep(q, r, x),
         NEW n \in Names \ crowded, ~About(q, n)
  PROVE  /\ OneRequest(n)' /\ NoBotLeft(n)'
         /\ \A i \in DOMAIN Loaded : Loaded[i].name = n =>
              OwnToken(Loaded[i])' /\ Requested(Loaded[i])' /\ OwnBot(Loaded[i])'
<1>0. /\ UNCHANGED <<registry, stored, boot, backend, failed, crowded>>
      /\ change[q].rec = r /\ (Late(q) \/ change[q].pc = "unregister")
      /\ x \in [pc : {"idle", "hook"}, rec : Bot] /\ change' = [change EXCEPT ![q] = x]
      /\ x.pc = "hook" => change[q].pc = "sync" /\ x.rec = r
      /\ \A m \in Names : m # r.name => byName'[m] = byName[m]
      /\ byName'[r.name] \in {NoBot, byName[r.name]} \cup (IF Late(q) THEN {r} ELSE {})
      /\ \A t \in Tokens : t # byName[r.name].token /\ (Late(q) => t # r.token) =>
           byHash'[t] = byHash[t] /\ hook'[t] = hook[t] /\ (t \in unhooked' <=> t \in unhooked)
      /\ n # r.name
  BY DEF LastStep, About
<1> USE <1>0
<1>1. /\ Uncrowded /\ RegistryTypes /\ r \in ProjectRecord /\ r.name \in Names /\ r.name # n
      /\ disk.state # "torn" /\ boot = "up" /\ boot' = boot /\ Loaded' = Loaded /\ disk' = disk
  <2>1. Up /\ RegistryTypes
    BY DEF RegistryInv, Running, Late, InFlight
  <2>2. r \in ProjectRecord
    BY <2>1 DEF RegistryTypes, InFlight, Late
  <2>3. r.name \in Names
    BY <2>2 DEF ProjectRecord
  <2>4. QED
    BY <2>1, <2>2, <2>3, FileStays DEF RegistryInv, Running, Up, stored, About
<1>2. /\ change'[q] = x /\ \A u \in Requests \ {q} : change'[u] = change[u]
  BY <1>1 DEF RegistryTypes
<1>3. /\ \A u \in Requests \ {q} : (Late(u)' <=> Late(u)) /\ (InFlight(u)' <=> InFlight(u))
                               /\ \A m : About(u, m)' <=> About(u, m)
      /\ InFlight(q)' => Late(q) /\ change'[q].rec = r /\ \A m : About(q, m)' <=> About(q, m)
  BY <1>2 DEF Late, InFlight, About
<1>4. /\ OneRequest(n) /\ NoBotLeft(n)
      /\ \A i \in DOMAIN Loaded : Loaded[i].name = n =>
           OwnToken(Loaded[i]) /\ Requested(Loaded[i]) /\ OwnBot(Loaded[i])
  BY <1>1 DEF Uncrowded
<1>5. byName'[n] = byName[n]
  OBVIOUS
<1>6. OneRequest(n)'
  BY <1>3, <1>4 DEF OneRequest
<1>7. NoBotLeft(n)'
  <2>1. \A u \in Requests : Late(u)' /\ About(u, n)' => Late(u) /\ About(u, n)
    BY <1>3 DEF Late, InFlight
  <2>2. \A u \in Requests : change[u].pc = "unregister" /\ About(u, n) => change'[u].pc = "unregister" /\ About(u, n)'
    BY <1>2, <1>3
  <2>3. QED
    BY <1>1, <1>4, <1>5, <2>1, <2>2 DEF NoBotLeft
<1>8. ASSUME NEW i \in DOMAIN Loaded, Loaded[i].name = n
      PROVE  OwnToken(Loaded[i])' /\ Requested(Loaded[i])' /\ OwnBot(Loaded[i])'
  <2>1. PICK s \in Entry : s = Loaded[i] /\ s.token \in Tokens /\ s.name = n
    <3>1. Loaded[i] \in Entry /\ Loaded[i].token # None
      BY <1>1, LoadedIs DEF LoadsWell, RegistryInv
    <3>2. QED
      BY <1>8, <3>1 DEF Entry
  <2>2. OwnToken(s) /\ Requested(s) /\ OwnBot(s)
    BY <1>4, <2>1
  <2>3. s.token # byName[r.name].token /\ (Late(q) => s.token # r.token)
    BY <1>1, <2>1, <2>2 DEF OwnToken
  <2>4. byHash'[s.token] = byHash[s.token] /\ hook'[s.token] = hook[s.token] /\ (s.token \in unhooked' <=> s.token \in unhooked)
    BY <2>1, <2>3
  <2>5. byName'[r.name].token # s.token
    <3>1. s.token # None
      BY <2>1, NoneIsNothing
    <3>2. QED
      BY <2>3, <3>1 DEF NoBot
  <2>6. OwnToken(s)'
    <3>1. \A m \in Names : m # s.name => byName'[m].token # s.token
      BY <1>1, <2>1, <2>2, <2>5 DEF OwnToken, About
    <3>2. \A u \in Requests : Late(u)' /\ ~About(u, s.name)' => change'[u].rec.token # s.token
      BY <1>2, <1>3, <2>2 DEF OwnToken, Late, InFlight
    <3>3. QED
      BY <3>1, <3>2 DEF OwnToken
  <2>7. Requested(s)'
    BY <1>2, <1>3, <1>5, <2>1, <2>2, <2>4 DEF Requested
  <2>8. OwnBot(s)'
    <3>1. (\A u \in Requests : ~(Late(u)' /\ About(u, s.name)')) => \A u \in Requests : ~(Late(u) /\ About(u, s.name))
      BY <1>3, <2>1
    <3>2. QED
      BY <1>1, <1>5, <2>1, <2>2, <2>4, <3>1 DEF OwnBot, Up, SecretToken
  <2>9. QED
    BY <1>1, <2>1, <2>6, <2>7, <2>8
<1>9. QED
  BY <1>6, <1>7, <1>8

(* A token routes to its bot through any change of the bots.               *)
LEMMA RegisteredIsCurrent ==
  ASSUME RegistryTypes, NoStaleBot, NEW r \in ProjectRecord, Register(r)
  PROVE  NoStaleBot' /\ byName' \in [Names -> Bot] /\ byHash' \in [Tokens -> Bot]
<1>1. r.name \in Names /\ r.token \in Tokens /\ r \in Bot
  BY DEF ProjectRecord, Bot
<1>2. byName' \in [Names -> Bot] /\ byHash' \in [Tokens -> Bot]
  BY <1>1 DEF Register, RegistryTypes, Bot
<1>3. ASSUME NEW t \in Tokens, byHash'[t] # NoBot
      PROVE  byHash'[t].token = t /\ byName'[byHash'[t].name] = byHash'[t]
  <2>1. CASE t = r.token
    BY <1>1, <2>1 DEF Register, RegistryTypes
  <2>2. CASE t # r.token
    <3>1. byHash'[t] = byHash[t] /\ t # byName[r.name].token
      BY <1>3, <2>2 DEF Register
    <3>2. byHash[t].token = t /\ byName[byHash[t].name] = byHash[t]
      BY <1>3, <3>1 DEF NoStaleBot
    <3>3. byHash[t].name \in Names
      BY <1>3, <3>1 DEF RegistryTypes, Bot, ProjectRecord
    <3>4. QED
      BY <1>1, <3>1, <3>2, <3>3 DEF Register, RegistryTypes
  <2>3. QED
    BY <2>1, <2>2
<1>4. QED
  BY <1>2, <1>3 DEF NoStaleBot

LEMMA UnregisteredIsCurrent ==
  ASSUME RegistryTypes, NoStaleBot, NEW n \in Names, Unregister(n)
  PROVE  NoStaleBot' /\ byName' \in [Names -> Bot] /\ byHash' \in [Tokens -> Bot]
<1>1. byName' \in [Names -> Bot] /\ byHash' \in [Tokens -> Bot]
  BY DEF Unregister, RegistryTypes, Bot
<1>2. ASSUME NEW t \in Tokens, byHash'[t] # NoBot
      PROVE  byHash'[t].token = t /\ byName'[byHash'[t].name] = byHash'[t]
  <2>1. byHash'[t] = byHash[t] /\ t # byName[n].token
    BY <1>2 DEF Unregister
  <2>2. byHash[t].token = t /\ byName[byHash[t].name] = byHash[t]
    BY <1>2, <2>1 DEF NoStaleBot
  <2>3. byHash[t].name \in Names
    BY <1>2, <2>1 DEF RegistryTypes, Bot, ProjectRecord
  <2>4. QED
    BY <2>1, <2>2, <2>3 DEF Unregister, RegistryTypes
<1>3. QED
  BY <1>1, <1>2 DEF NoStaleBot

(* What a request does last, for a project that no other request is about. *)
LEMMA LastStepSafe ==
  ASSUME RegistryInv, NEW q \in Requests, NEW r, NEW x, LastStep(q, r, x),
         NoStaleBot', byName' \in [Names -> Bot], byHash' \in [Tokens -> Bot],
         hook' \in [Tokens -> Secrets \cup {None}], unhooked' \subseteq Tokens,
         change[q].pc = "unregister" => byName'[r.name] = NoBot,
         Late(q) /\ Requested(r) => Requested(r)' /\ OwnBot(r)'
  PROVE  RegistryInv'
<1>0. /\ UNCHANGED <<registry, stored, boot, backend, failed, crowded>>
      /\ change[q].rec = r /\ (Late(q) \/ change[q].pc = "unregister")
      /\ x \in [pc : {"idle", "hook"}, rec : Bot] /\ change' = [change EXCEPT ![q] = x]
      /\ x.pc = "hook" => change[q].pc = "sync" /\ x.rec = r
      /\ \A m \in Names : m # r.name => byName'[m] = byName[m]
  BY DEF LastStep
<1> USE <1>0
<1>1. /\ RegistryTypes /\ r \in ProjectRecord /\ r.name \in Names /\ disk.state # "torn" /\ boot = "up"
      /\ boot' = boot /\ Loaded' = Loaded /\ Readable' /\ disk' = disk /\ projects' = projects /\ default' = default
  <2>1. Up /\ RegistryTypes
    BY DEF RegistryInv, Running, Late, InFlight
  <2>2. r \in ProjectRecord
    BY <2>1 DEF RegistryTypes, InFlight, Late
  <2>3. r.name \in Names
    BY <2>2 DEF ProjectRecord
  <2>4. QED
    BY <2>1, <2>2, <2>3, FileStays DEF RegistryInv, Running, Up, stored, registry
<1>2. /\ change'[q] = x /\ \A u \in Requests \ {q} : change'[u] = change[u]
  BY <1>1 DEF RegistryTypes
<1>7. /\ \A u \in Requests \ {q} : (Late(u)' <=> Late(u)) /\ (InFlight(u)' <=> InFlight(u))
                               /\ (change'[u].pc = change[u].pc) /\ \A m : About(u, m)' <=> About(u, m)
      /\ \A m : About(q, m) <=> m = r.name
      /\ InFlight(q)' => Late(q) /\ change'[q].rec = r /\ \A m : About(q, m)' <=> m = r.name
  BY <1>2 DEF Late, InFlight, About
<1>3. RegistryTypes'
  <2>1. x \in [pc : Steps, rec : Bot]
    BY DEF Steps
  <2>2. \A u \in Requests : InFlight(u)' => change'[u].rec \in ProjectRecord
    BY <1>1, <1>2 DEF RegistryTypes, InFlight
  <2>3. QED
    BY <2>1, <2>2 DEF RegistryInv, RegistryTypes, stored, registry
<1>4. Running' /\ Synced'
  BY <1>1 DEF RegistryInv, Running, Synced, Up
<1>5. ASSUME ~failed
      PROVE  Uncrowded'
  <2>1. \A n \in Names \ crowded : ~About(q, n) =>
          /\ OneRequest(n)' /\ NoBotLeft(n)'
          /\ \A i \in DOMAIN Loaded : Loaded[i].name = n =>
               OwnToken(Loaded[i])' /\ Requested(Loaded[i])' /\ OwnBot(Loaded[i])'
    <3>1. ASSUME NEW n \in Names \ crowded, ~About(q, n)
          PROVE  /\ OneRequest(n)' /\ NoBotLeft(n)'
                 /\ \A i \in DOMAIN Loaded : Loaded[i].name = n =>
                      OwnToken(Loaded[i])' /\ Requested(Loaded[i])' /\ OwnBot(Loaded[i])'
      BY <1>5, <3>1, OthersStay
    <3>2. QED
      BY <3>1
  <2>2. ASSUME r.name \notin crowded
        PROVE  /\ OneRequest(r.name)' /\ NoBotLeft(r.name)'
               /\ \A i \in DOMAIN Loaded : Loaded[i].name = r.name =>
                    OwnToken(Loaded[i])' /\ Requested(Loaded[i])' /\ OwnBot(Loaded[i])'
    <3>1. /\ OneRequest(r.name) /\ NoBotLeft(r.name)
          /\ \A i \in DOMAIN Loaded : Loaded[i].name = r.name =>
               OwnToken(Loaded[i]) /\ Requested(Loaded[i]) /\ OwnBot(Loaded[i])
      BY <1>1, <1>5, <2>2 DEF Uncrowded, RegistryInv
    <3>2. \A u \in Requests \ {q} : InFlight(u) => ~About(u, r.name)
      BY <3>1 DEF OneRequest, About, InFlight, Late
    <3>3. OneRequest(r.name)'
      BY <1>7, <3>2 DEF OneRequest
    <3>4. NoBotLeft(r.name)'
      <4>1. CASE Late(q)
        <5>1. r.name \in {Loaded[i].name : i \in DOMAIN Loaded}
          BY <1>7, <3>1, <4>1 DEF NoBotLeft
        <5>2. QED
          BY <1>1, <5>1 DEF NoBotLeft
      <4>2. CASE change[q].pc = "unregister"
        <5>1. \A u \in Requests : ~(Late(u)' /\ About(u, r.name)')
          BY <1>7, <3>2, <4>2 DEF Late, InFlight
        <5>2. QED
          BY <1>1, <4>2, <5>1 DEF NoBotLeft
      <4>3. QED
        BY <4>1, <4>2
    <3>5. ASSUME NEW i \in DOMAIN Loaded, Loaded[i].name = r.name
          PROVE  OwnToken(Loaded[i])' /\ Requested(Loaded[i])' /\ OwnBot(Loaded[i])'
      <4>1. Late(q) /\ Loaded[i] = r
        BY <3>1, <3>5 DEF Requested, About, InFlight, Late
      <4>2. OwnToken(r)'
        <5>1. OwnToken(r)
          BY <3>1, <3>5, <4>1
        <5>2. \A m \in Names : m # r.name => byName'[m].token # r.token
          BY <1>7, <5>1 DEF OwnToken
        <5>3. \A u \in Requests : Late(u)' /\ ~About(u, r.name)' => change'[u].rec.token # r.token
          BY <1>2, <1>7, <5>1 DEF OwnToken, Late, InFlight
        <5>4. QED
          BY <5>2, <5>3 DEF OwnToken
      <4>3. Requested(r)' /\ OwnBot(r)'
        BY <3>1, <4>1
      <4>4. QED
        BY <1>1, <4>1, <4>2, <4>3
    <3>6. QED
      BY <3>3, <3>4, <3>5
  <2>3. \A i \in DOMAIN Loaded : Loaded[i].name \in Names
    <3>1. \A i \in DOMAIN Loaded : Loaded[i] \in Entry
      BY <1>1, LoadedIs DEF LoadsWell
    <3>2. QED
      BY <3>1 DEF Entry
  <2>4. /\ \A n \in Names \ crowded' : OneRequest(n)' /\ NoBotLeft(n)'
        /\ \A i \in DOMAIN Loaded' : Loaded'[i].name \notin crowded' =>
             OwnToken(Loaded[i])' /\ Requested(Loaded[i])' /\ OwnBot(Loaded[i])'
    BY <1>1, <1>7, <2>1, <2>2, <2>3
  <2>5. OneToken(Loaded')
    BY <1>1, <1>5 DEF Uncrowded, RegistryInv
  <2>6. QED
    BY <2>4, <2>5 DEF Uncrowded
<1>6. QED
  BY <1>1, <1>3, <1>4, <1>5 DEF RegistryInv, Uncrowded

LEMMA SyncBotSafe == ASSUME RegistryInv, NEW q \in Requests, SyncBot(q) PROVE RegistryInv'
<1>1. /\ RegistryTypes /\ change[q].pc = "sync" /\ Late(q) /\ NoStaleBot
      /\ UNCHANGED <<registry, stored, usable, boot, backend, hook, served, ends, mishaps>>
  BY DEF SyncBot, RegistryInv, Late
<1>2. PICK r \in ProjectRecord : r = change[q].rec
  BY <1>1 DEF RegistryTypes, InFlight
<1>3. r.name \in Names /\ r.token \in Tokens /\ r \in Bot /\ \A m : About(q, m) <=> m = r.name
  BY <1>2 DEF ProjectRecord, Bot, About
<1>4. CASE r.enabled
  <2>1. Register(r) /\ Advances(q, "hook", r)
    BY <1>2, <1>4 DEF SyncBot
  <2>2. NoStaleBot' /\ byName' \in [Names -> Bot] /\ byHash' \in [Tokens -> Bot]
    BY <1>1, <2>1, RegisteredIsCurrent
  <2>3. /\ byName'[r.name] = r /\ byHash'[r.token] = r
        /\ \A m \in Names : m # r.name => byName'[m] = byName[m]
        /\ \A t \in Tokens : t # byName[r.name].token /\ t # r.token => byHash'[t] = byHash[t]
    BY <1>1, <1>3, <2>1 DEF Register, RegistryTypes
  <2>4. /\ [pc |-> "hook", rec |-> r] \in [pc : {"idle", "hook"}, rec : Bot]
        /\ change' = [change EXCEPT ![q] = [pc |-> "hook", rec |-> r]]
    BY <1>3, <2>1 DEF Advances
  <2>5. Late(q)' /\ About(q, r.name)' /\ change'[q].rec = r /\ \A u \in Requests \ {q} : change'[u] = change[u]
    BY <1>1, <2>4 DEF Late, About, RegistryTypes
  <2>6. Requested(r) => Requested(r)'
    BY <1>4, <2>3, <2>4, <2>5, <1>1 DEF Requested, About, Late, InFlight, RegistryTypes
  <2>7. OwnBot(r)'
    BY <2>5 DEF OwnBot
  <2>8. LastStep(q, r, [pc |-> "hook", rec |-> r])
    BY <1>1, <1>2, <2>3, <2>4 DEF LastStep
  <2>9. QED
    BY <1>1, <2>2, <2>6, <2>7, <2>8, LastStepSafe DEF RegistryTypes, Late
<1>5. CASE ~r.enabled
  <2>1. Unregister(r.name) /\ Responds(q)
    BY <1>2, <1>5 DEF SyncBot
  <2>2. NoStaleBot' /\ byName' \in [Names -> Bot] /\ byHash' \in [Tokens -> Bot]
    BY <1>1, <1>3, <2>1, UnregisteredIsCurrent
  <2>3. /\ byName'[r.name] = NoBot
        /\ \A m \in Names : m # r.name => byName'[m] = byName[m]
        /\ \A t \in Tokens : t # byName[r.name].token => byHash'[t] = byHash[t]
    BY <1>1, <1>3, <2>1 DEF Unregister, RegistryTypes
  <2>4. /\ Idle \in [pc : {"idle", "hook"}, rec : Bot] /\ Idle.pc = "idle" /\ Idle.rec = NoBot
        /\ change' = [change EXCEPT ![q] = Idle]
    BY <2>1 DEF Responds, Idle, Bot
  <2>5. change'[q] = Idle /\ \A u \in Requests \ {q} : change'[u] = change[u]
    BY <1>1, <2>4 DEF RegistryTypes
  <2>6. Requested(r) => Requested(r)'
    BY <1>5, <2>5 DEF Requested, InFlight, Late, About, Idle
  <2>7. OwnBot(r)'
    BY <1>5, <2>3 DEF OwnBot
  <2>8. LastStep(q, r, Idle)
    BY <1>1, <1>2, <2>3, <2>4 DEF LastStep
  <2>9. QED
    BY <1>1, <2>2, <2>6, <2>7, <2>8, LastStepSafe DEF RegistryTypes
<1>6. QED
  BY <1>2, <1>4, <1>5 DEF ProjectRecord

LEMMA UnregisterBotSafe == ASSUME RegistryInv, NEW q \in Requests, UnregisterBot(q) PROVE RegistryInv'
<1>1. /\ RegistryTypes /\ change[q].pc = "unregister" /\ ~Late(q) /\ NoStaleBot
      /\ UNCHANGED <<registry, stored, usable, boot, backend, hook, served, ends, mishaps>>
  BY DEF UnregisterBot, RegistryInv, Late
<1>2. PICK r \in ProjectRecord : r = change[q].rec
  BY <1>1 DEF RegistryTypes, InFlight
<1>3. r.name \in Names /\ r \in Bot /\ \A m : About(q, m) <=> m = r.name
  BY <1>2 DEF ProjectRecord, Bot, About
<1>4. Unregister(r.name) /\ Responds(q)
  BY <1>2 DEF UnregisterBot
<1>5. NoStaleBot' /\ byName' \in [Names -> Bot] /\ byHash' \in [Tokens -> Bot]
  BY <1>1, <1>3, <1>4, UnregisteredIsCurrent
<1>6. /\ byName'[r.name] = NoBot
      /\ \A m \in Names : m # r.name => byName'[m] = byName[m]
      /\ \A t \in Tokens : t # byName[r.name].token => byHash'[t] = byHash[t]
  BY <1>1, <1>3, <1>4 DEF Unregister, RegistryTypes
<1>7. /\ Idle \in [pc : {"idle", "hook"}, rec : Bot] /\ Idle.pc = "idle"
      /\ change' = [change EXCEPT ![q] = Idle]
  BY <1>4 DEF Responds, Idle, Bot
<1>8. LastStep(q, r, Idle)
  BY <1>1, <1>2, <1>6, <1>7 DEF LastStep
<1>9. QED
  BY <1>1, <1>5, <1>6, <1>8, LastStepSafe DEF RegistryTypes

LEMMA SyncWebhookSafe == ASSUME RegistryInv, NEW q \in Requests, SyncWebhook(q) PROVE RegistryInv'
<1>1. /\ RegistryTypes /\ change[q].pc = "hook" /\ Late(q) /\ NoStaleBot
      /\ UNCHANGED <<registry, stored, usable, boot, backend, bots, served, ends, failed, crowded>>
  BY DEF SyncWebhook, RegistryInv, Late
<1>2. PICK r \in ProjectRecord : r = change[q].rec
  BY <1>1 DEF RegistryTypes, InFlight
<1>3. r.name \in Names /\ r.token \in Tokens /\ \A m : About(q, m) <=> m = r.name
  BY <1>2 DEF ProjectRecord, Bot, About
<1>4. SetWebhook(r) /\ Responds(q)
  BY <1>2 DEF SyncWebhook
<1>5. SecretToken(r) \in Secrets \cup {None}
  BY <1>2, ProjectsAssumption DEF SecretToken, ProjectRecord
<1>6. /\ hook' \in [Tokens -> Secrets \cup {None}] /\ unhooked' \subseteq Tokens
      /\ \A t \in Tokens : t # r.token => hook'[t] = hook[t] /\ (t \in unhooked' <=> t \in unhooked)
      /\ r.token \in unhooked' \/ hook'[r.token] = SecretToken(r)
  BY <1>1, <1>3, <1>4, <1>5 DEF SetWebhook, RegistryTypes
<1>7. /\ Idle \in [pc : {"idle", "hook"}, rec : Bot] /\ Idle.pc = "idle"
      /\ change' = [change EXCEPT ![q] = Idle]
  BY <1>4 DEF Responds, Idle, Bot
<1>8. /\ byName' = byName /\ byHash' = byHash /\ NoStaleBot' /\ boot' = boot
  BY <1>1 DEF bots, NoStaleBot
<1>9. Requested(r) => Requested(r)' /\ OwnBot(r)'
  <2>1. Requested(r) => r.enabled /\ byName[r.name] = r /\ byHash[r.token] = r
    BY <1>1, <1>3 DEF Requested, InFlight
  <2>2. change'[q] = Idle /\ \A u \in Requests \ {q} : change'[u] = change[u]
    BY <1>1, <1>7 DEF RegistryTypes
  <2>3. Requested(r) => Requested(r)'
    BY <1>7, <1>8, <2>2 DEF Requested, InFlight, Late, About
  <2>4. Requested(r) => OwnBot(r)'
    BY <1>6, <1>8, <2>1 DEF OwnBot, SecretToken
  <2>5. QED
    BY <2>3, <2>4
<1>10. byName[r.name] \in {NoBot, byName[r.name]} \cup (IF Late(q) THEN {r} ELSE {})
  OBVIOUS
<1>11. LastStep(q, r, Idle)
  BY <1>1, <1>2, <1>3, <1>6, <1>7, <1>8, <1>10 DEF LastStep
<1>12. QED
  BY <1>1, <1>6, <1>8, <1>9, <1>11, LastStepSafe DEF RegistryTypes

-----------------------------------------------------------------------------
(* The start of the server.                                                *)

(* Nothing of the running server changes while it is down.                 *)
LEMMA DownSafe ==
  ASSUME RegistryInv, ~Up, boot' \in {"down", "migrated", "prepared", "registered"},
         UNCHANGED <<registry, backend, bots, change, failed, crowded>>,
         disk' \in File_, keyring' \in [Names -> Secret], Readable',
         hook' \in [Tokens -> Secrets \cup {None}], unhooked' \subseteq Tokens,
         ~failed /\ disk'.state # "torn" =>
           /\ disk.state # "torn" /\ Loaded' = Loaded
           /\ \A i \in DOMAIN Loaded : LET r == Loaded[i] IN
                r.enabled => \/ r.token \in unhooked' \/ hook'[r.token] = SecretToken(r)
                             \/ hook'[r.token] = hook[r.token] /\ r.token \notin unhooked
  PROVE  RegistryInv'
<1>1. RegistryTypes'
  <2>1. \A q \in Requests : InFlight(q)' => change'[q].rec \in ProjectRecord
    BY DEF RegistryInv, RegistryTypes, InFlight
  <2>2. QED
    BY <2>1 DEF RegistryInv, RegistryTypes, registry, bots
<1>2. /\ \A u \in Requests : ~InFlight(u) /\ ~InFlight(u)' /\ ~Late(u) /\ ~Late(u)'
      /\ byName' = [n \in Names |-> NoBot] /\ byName = byName' /\ byHash' = byHash /\ boot' # "up" /\ boot # "up"
  BY DEF RegistryInv, Running, InFlight, Late, bots, Up
<1>3. Running' /\ Synced' /\ NoStaleBot'
  BY <1>2 DEF RegistryInv, Running, Synced, NoStaleBot, Up
<1>4. ASSUME ~failed, disk'.state # "torn"
      PROVE  Uncrowded'
  <2>1. Uncrowded /\ Loaded' = Loaded
    BY <1>4 DEF RegistryInv
  <2>2. \A n \in Names : OneRequest(n)' /\ NoBotLeft(n)'
    BY <1>2 DEF OneRequest, NoBotLeft
  <2>3. ASSUME NEW i \in DOMAIN Loaded, Loaded[i].name \notin crowded'
        PROVE  OwnToken(Loaded[i])' /\ Requested(Loaded[i])' /\ OwnBot(Loaded[i])'
    <3>1. PICK r \in Entry : r = Loaded[i] /\ r.token # None
      BY <1>4, LoadedIs DEF LoadsWell, RegistryInv
    <3>2. OwnBot(r)
      BY <1>4, <2>1, <2>3, <3>1 DEF Uncrowded
    <3>3. OwnToken(r)' /\ Requested(r)'
      BY <1>2, <3>1 DEF OwnToken, Requested, NoBot
    <3>4. r.enabled => \/ r.token \in unhooked' \/ hook'[r.token] = SecretToken(r)
                       \/ hook'[r.token] = hook[r.token] /\ r.token \notin unhooked
      BY <1>4, <3>1
    <3>5. OwnBot(r)'
      BY <1>2, <3>2, <3>4 DEF OwnBot, Up, SecretToken
    <3>6. QED
      BY <2>1, <3>1, <3>3, <3>5
  <2>4. QED
    BY <1>4, <2>1, <2>2, <2>3 DEF Uncrowded
<1>5. QED
  BY <1>1, <1>3, <1>4 DEF RegistryInv, Uncrowded

LEMMA PrepareSafe == ASSUME RegistryInv, Prepare PROVE RegistryInv'
<1>1. /\ RegistryTypes /\ Readable /\ ~Up /\ boot' = "prepared" /\ ~(usable /\ HasInline)
      /\ UNCHANGED <<registry, backend, bots, change, failed, crowded>>
      /\ keyring' = keyring /\ hook' = hook /\ unhooked' = unhooked
  BY DEF Prepare, RegistryInv, Starting, Up
<1>2. CASE usable
  <2>1. disk.state # "torn" /\ disk' = [disk EXCEPT !.state = "ok", !.marker = "keyring"]
    BY <1>2 DEF Prepare, MarkBackend
  <2>2. disk' \in File_ /\ disk'.projects = disk.projects /\ disk'.marker = "keyring" /\ disk'.state = "ok"
    <3>1. disk \in File_
      BY <1>1 DEF RegistryTypes
    <3>2. disk' = [state |-> "ok", marker |-> "keyring", default |-> disk.default, projects |-> disk.projects]
      BY <2>1, <3>1 DEF File_
    <3>3. QED
      BY <3>1, <3>2 DEF File_, Backends
  <2>3. disk.marker # "keyring" => disk.projects = <<>>
    <3>1. /\ \A i \in DOMAIN disk.projects : InPlace(disk.projects[i])
          /\ disk.projects \in Seq(Entry) /\ disk.state \in {"ok", "absent", "torn"}
          /\ disk.state = "absent" => disk.projects = <<>>
      BY <1>1, <2>1 DEF Readable, RegistryTypes, File_
    <3>2. ASSUME disk.marker # "keyring", disk.state = "ok", disk.projects # <<>>
          PROVE  FALSE
      <4>1. 1 \in DOMAIN disk.projects
        BY <3>1, <3>2
      <4>2. disk.projects[1].token # None /\ disk.projects[1] \in Range(disk.projects)
        BY <3>1, <3>2, <4>1, RangeIs DEF InPlace
      <4>3. QED
        BY <1>1, <1>2, <3>2, <4>2 DEF HasInline
    <3>3. QED
      BY <2>1, <3>1, <3>2
  <2>4. Loaded' = Loaded /\ Readable'
    <3>1. CASE disk.marker = "keyring"
      BY <1>1, <2>1, <2>2, <3>1 DEF Loaded, Inject, Readable, InPlace
    <3>2. CASE disk.projects = <<>>
      <4>1. DOMAIN disk.projects = {}
        BY <3>2
      <4>2. QED
        BY <2>2, <4>1 DEF Loaded, Readable, OneName
    <3>3. QED
      BY <2>3, <3>1, <3>2
  <2>5. QED
    BY <1>1, <2>1, <2>2, <2>4, DownSafe DEF RegistryTypes, RegistryInv, Uncrowded, OwnBot, SecretToken
<1>3. CASE ~usable
  <2>1. disk' = disk
    BY <1>3 DEF Prepare
  <2>2. Loaded' = Loaded /\ Readable'
    BY <1>1, <2>1, FileStays DEF stored
  <2>3. QED
    BY <1>1, <2>1, <2>2, DownSafe DEF RegistryTypes
<1>4. QED
  BY <1>2, <1>3

LEMMA RegisterAllSafe == ASSUME RegistryInv, RegisterAll PROVE RegistryInv'
<1> DEFINE on == {r \in Range(Loaded) : r.enabled}
<1>1. /\ RegistryTypes /\ Readable /\ ~Up /\ boot' = "registered" /\ disk.state # "torn"
      /\ UNCHANGED <<registry, backend, bots, change, failed, crowded>> /\ disk' = disk /\ keyring' = keyring
  BY DEF RegisterAll, RegistryInv, Starting, Up, Loads, stored
<1>2. Loaded' = Loaded /\ Readable'
  BY <1>1, FileStays DEF stored
<1>3. /\ DOMAIN Loaded = 1 .. Len(Loaded) /\ Loaded \in Seq(Entry)
      /\ \A i \in DOMAIN Loaded : Loaded[i] \in Entry /\ Loaded[i].token # None
  BY <1>1, LoadedIs DEF LoadsWell
<1>4. PICK ok \in SUBSET on :
        /\ hook' = [t \in Tokens |-> IF \E r \in ok : r.token = t
                                     THEN SecretToken(CHOOSE r \in ok : r.token = t) ELSE hook[t]]
        /\ unhooked' = (unhooked \ TokensOf(ok)) \cup TokensOf(on \ ok)
  BY DEF RegisterAll
<1>5. \A r \in on : r \in Entry /\ r.token \in Tokens /\ r.enabled /\ SecretToken(r) \in Secrets \cup {None}
  <2>1. \A r \in Range(Loaded) : r \in Entry /\ r.token # None
    BY <1>3, RangeIs
  <2>2. ASSUME NEW r \in on
        PROVE  r \in Entry /\ r.token \in Tokens /\ r.enabled /\ SecretToken(r) \in Secrets \cup {None}
    <3>1. r \in Entry /\ r.token # None /\ r.enabled
      BY <2>1, <2>2
    <3>2. QED
      BY <3>1, ProjectsAssumption DEF Entry, SecretToken
  <2>3. QED
    BY <2>2
<1>6. unhooked' \subseteq Tokens
  BY <1>1, <1>4, <1>5 DEF TokensOf, RegistryTypes
<1>7. hook' \in [Tokens -> Secrets \cup {None}]
  <2>1. \A t \in Tokens : (\E r \in ok : r.token = t) =>
          SecretToken(CHOOSE r \in ok : r.token = t) \in Secrets \cup {None}
    <3>1. ASSUME NEW t \in Tokens, \E r \in ok : r.token = t
          PROVE  SecretToken(CHOOSE r \in ok : r.token = t) \in Secrets \cup {None}
      <4>1. (CHOOSE r \in ok : r.token = t) \in ok
        BY <3>1
      <4>2. QED
        BY <1>5, <4>1
    <3>2. QED
      BY <3>1
  <2>2. QED
    BY <1>1, <1>4, <2>1 DEF RegistryTypes
<1>8. ASSUME ~failed, NEW i \in DOMAIN Loaded, Loaded[i].enabled
      PROVE  Loaded[i].token \in unhooked' \/ hook'[Loaded[i].token] = SecretToken(Loaded[i])
  <2> DEFINE r == Loaded[i]
  <2>1. r \in on /\ r.token \in Tokens
    BY <1>3, <1>5, <1>8, RangeIs
  <2>2. OneToken(Loaded)
    BY <1>1, <1>8 DEF RegistryInv, Uncrowded
  <2>3. \A s \in on : s.token = r.token => s = r
    <3>1. ASSUME NEW s \in on, s.token = r.token
          PROVE  s = r
      <4>1. PICK k \in DOMAIN Loaded : Loaded[k] = s
        BY <1>3, RangeIs
      <4>2. QED
        BY <2>2, <3>1, <4>1 DEF OneToken
    <3>2. QED
      BY <3>1
  <2> HIDE DEF r, on
  <2>4. CASE r \in ok
    <3>1. (CHOOSE s \in ok : s.token = r.token) = r
      BY <2>3, <2>4
    <3>2. QED
      BY <1>4, <2>1, <2>4, <3>1 DEF r
  <2>5. CASE r \notin ok
    BY <1>4, <2>1, <2>5 DEF TokensOf, r
  <2>6. QED
    BY <2>4, <2>5
<1>9. QED
  BY <1>1, <1>2, <1>6, <1>7, <1>8, DownSafe DEF RegistryTypes

LEMMA MigrateSafe == ASSUME RegistryInv, Migrate PROVE RegistryInv'
<1> DEFINE ps == disk.projects
<1>1. /\ RegistryTypes /\ Readable /\ boot = "down" /\ ~Up /\ disk.state = "ok" /\ HasInline
      /\ UNCHANGED <<registry, backend, bots, change, failed, crowded>> /\ hook' = hook /\ unhooked' = unhooked
  BY DEF Migrate, RegistryInv, Starting, Up, HasInline
<1>2. /\ ps \in Seq(Entry) /\ DOMAIN ps = 1 .. Len(ps) /\ Len(ps) \in Nat /\ OneName(ps)
      /\ \A i \in DOMAIN ps : InPlace(ps[i])
  BY <1>1 DEF RegistryTypes, File_, Readable
<1>3. disk.marker = "plaintext"
  <2>1. PICK i \in DOMAIN ps : ps[i].token # None
    BY <1>1, <1>2, RangeIs DEF HasInline
  <2>2. QED
    BY <1>1, <1>2, <2>1 DEF InPlace, RegistryTypes, File_, Backends
<1>4. (\A i \in DOMAIN ps : ps[i].token # None) /\ Loaded = ps
  BY <1>2, <1>3 DEF InPlace, Loaded, Inject
<1>5. CASE /\ keyring' = StoredSecrets(ps, Len(ps)) /\ boot' = "migrated"
           /\ disk' = [disk EXCEPT !.marker = "keyring",
                                   !.projects = [i \in DOMAIN ps |-> StripSecrets(ps[i])]]
  <2>1. /\ StoredSecrets(ps, Len(ps)) \in [Names -> Secret]
        /\ \A i \in 1 .. Len(ps) :
             StoredSecrets(ps, Len(ps))[ps[i].name] = [token |-> ps[i].token, secret |-> ps[i].secret]
    <3>1. Len(ps) \in 0 .. Len(ps)
      BY <1>2
    <3>2. QED
      BY <1>1, <1>2, <3>1, StoredKeeps
  <2>2. /\ disk' = [state |-> disk.state, marker |-> "keyring", default |-> disk.default,
                    projects |-> [i \in DOMAIN ps |-> StripSecrets(ps[i])]]
        /\ disk.default \in Names \cup {None} /\ disk.state \in {"ok", "absent", "torn"}
    BY <1>1, <1>5 DEF RegistryTypes, File_
  <2> HIDE DEF ps
  <2>3. /\ Loaded' = ps /\ disk'.projects \in Seq(Entry) /\ OneName(disk'.projects)
        /\ \A i \in DOMAIN disk'.projects : InPlace(disk.projects[i])'
    <3>1. disk'.marker = "keyring" /\ disk'.projects = [i \in DOMAIN ps |-> StripSecrets(ps[i])]
      BY <2>2
    <3>2. \A i \in DOMAIN ps : keyring'[ps[i].name] = [token |-> ps[i].token, secret |-> ps[i].secret]
      BY <1>2, <1>5, <2>1
    <3>3. "keyring" \in Backends
      BY DEF Backends
    <3>4. QED
      BY <1>2, <1>4, <3>1, <3>2, <3>3, WrittenLoads
  <2>4. disk' \in File_ /\ disk'.state = "ok"
    BY <1>1, <2>2, <2>3 DEF File_, Backends
  <2>5. Readable'
    BY <2>3, <2>4 DEF Readable
  <2>6. QED
    BY <1>1, <1>4, <1>5, <2>1, <2>3, <2>4, <2>5, DownSafe DEF RegistryTypes
<1>6. CASE UNCHANGED <<stored, boot>>
  BY <1>1, <1>6, FileStays, DownSafe DEF RegistryTypes, stored
<1>7. CASE (\E k \in 1 .. Len(ps) : keyring' = StoredSecrets(ps, k)) /\ UNCHANGED <<disk, boot>>
  <2>1. PICK k \in 1 .. Len(ps) : keyring' = StoredSecrets(ps, k)
    BY <1>7
  <2>2. k \in 0 .. Len(ps)
    BY <1>2
  <2>3. keyring' \in [Names -> Secret]
    BY <1>1, <1>2, <2>1, <2>2, StoredKeeps
  <2>4. Loaded' = Loaded /\ Readable'
    BY <1>1, <1>3, <1>7 DEF Loaded, Inject, Readable, InPlace
  <2>5. QED
    BY <1>1, <1>7, <2>3, <2>4, DownSafe DEF RegistryTypes
<1>8. QED
  BY <1>5, <1>6, <1>7 DEF Migrate

LEMMA StartSafe == ASSUME RegistryInv, StartServer PROVE RegistryInv'
<1> DEFINE on == {r \in Range(Loaded) : r.enabled}
<1>1. /\ RegistryTypes /\ Readable /\ ~Up /\ disk.state # "torn"
      /\ boot' = "up" /\ backend' = disk.marker /\ projects' = Loaded /\ default' = disk.default
      /\ disk' = [disk EXCEPT !.state = "ok"] /\ keyring' = keyring /\ hook' = hook /\ change' = change
      /\ failed' = failed /\ crowded' = crowded /\ unhooked' = unhooked /\ RegisterBots(on)
      /\ \A u \in Requests : ~InFlight(u)
  BY DEF StartServer, RegistryInv, Running, Up, Loads
<1>2. /\ Loaded \in Seq(Entry) /\ DOMAIN Loaded = 1 .. Len(Loaded) /\ OneName(Loaded)
      /\ \A i \in DOMAIN Loaded : Loaded[i] \in Entry /\ Loaded[i].token # None
  BY <1>1, LoadedIs DEF LoadsWell
<1>3. /\ disk' \in File_ /\ disk'.state = "ok" /\ disk'.marker = disk.marker /\ disk'.default = disk.default
      /\ disk'.projects = disk.projects
  <2>1. disk \in File_
    BY <1>1 DEF RegistryTypes
  <2>2. QED
    BY <1>1, <2>1 DEF File_
<1>4. Loaded' = Loaded /\ Readable'
  <2>1. Loaded' = Loaded
    <3>1. \A r : Inject(r)' = Inject(r)
      BY <1>1, <1>3 DEF Inject
    <3>2. QED
      BY <1>3, <3>1 DEF Loaded
  <2>2. \A r : InPlace(r)' <=> InPlace(r)
    BY <1>1, <1>3 DEF InPlace
  <2>3. QED
    BY <1>1, <1>3, <2>1, <2>2 DEF Readable
<1>5. Loaded \in Seq(ProjectRecord)
  <2>1. \A i \in 1 .. Len(Loaded) : Loaded[i] \in ProjectRecord
    BY <1>2 DEF Entry, ProjectRecord
  <2>2. QED
    BY <1>2, <2>1
<1>6. /\ \A r \in on : r \in ProjectRecord /\ r.enabled /\ \E i \in DOMAIN Loaded : Loaded[i] = r
      /\ \A i \in DOMAIN Loaded : Loaded[i].enabled => Loaded[i] \in on
  BY <1>5, RangeIs
<1>7. \A r, s \in on : r.name = s.name => r = s
  BY <1>2, <1>6 DEF OneName
<1> HIDE DEF on
<1>8. ASSUME NEW n \in Names
      PROVE  /\ n \notin NamesOf(on) => byName'[n] = NoBot
             /\ \A r \in on : r.name = n => byName'[n] = r
             /\ byName'[n] \in Bot
             /\ byName'[n] = NoBot \/ (byName'[n] \in on /\ byName'[n].name = n)
  <2>1. byName'[n] = IF n \in NamesOf(on) THEN RecordOf(on, n) ELSE NoBot
    BY <1>1 DEF RegisterBots
  <2>2. n \in NamesOf(on) => RecordOf(on, n) \in on /\ RecordOf(on, n).name = n
    BY DEF NamesOf, RecordOf
  <2>3. QED
    BY <1>6, <1>7, <2>1, <2>2 DEF NamesOf, Bot
<1>9. ASSUME NEW t \in Tokens
      PROVE  byHash'[t] = NoBot \/ (byHash'[t] \in on /\ byHash'[t].token = t)
  <2>1. byHash'[t] = IF t \in TokensOf(on) THEN CHOOSE r \in on : r.token = t ELSE NoBot
    BY <1>1 DEF RegisterBots
  <2>2. QED
    BY <2>1 DEF TokensOf
<1>10. RegistryTypes'
  <2>1. byName' \in [Names -> Bot]
    BY <1>1, <1>8 DEF RegisterBots
  <2>2. byHash' \in [Tokens -> Bot]
    <3>1. \A t \in Tokens : byHash'[t] \in Bot
      BY <1>6, <1>9 DEF Bot
    <3>2. QED
      BY <1>1, <3>1 DEF RegisterBots
  <2>3. \A q \in Requests : ~InFlight(q)'
    BY <1>1 DEF InFlight
  <2>4. disk.marker \in Backends /\ disk.default \in Names \cup {None}
    BY <1>1 DEF RegistryTypes, File_
  <2>5. QED
    BY <1>1, <1>3, <1>5, <2>1, <2>2, <2>3, <2>4 DEF RegistryTypes
<1>11. Running' /\ Synced'
  BY <1>1, <1>2, <1>3, <1>4 DEF Running, Synced, Up
<1>12. NoStaleBot'
  <2>1. \A r \in on : r.name \in Names
    BY <1>6 DEF ProjectRecord
  <2>2. QED
    BY <1>8, <1>9, <2>1 DEF NoStaleBot
<1>13. ASSUME ~failed
       PROVE  Uncrowded'
  <2>1. Uncrowded /\ OneToken(Loaded)
    BY <1>1, <1>13 DEF RegistryInv, Uncrowded
  <2>2. \A u \in Requests : ~InFlight(u)' /\ ~Late(u)' /\ ~Late(u)
    BY <1>1 DEF InFlight, Late
  <2>3. ASSUME NEW n \in Names
        PROVE  OneRequest(n)' /\ NoBotLeft(n)'
    <3>1. n \notin {Loaded[i].name : i \in DOMAIN Loaded} => byName'[n] = NoBot
      BY <1>6, <1>8 DEF NamesOf
    <3>2. QED
      BY <1>4, <2>2, <3>1 DEF OneRequest, NoBotLeft
  <2>4. ASSUME NEW i \in DOMAIN Loaded, Loaded[i].name \notin crowded'
        PROVE  OwnToken(Loaded[i])' /\ Requested(Loaded[i])' /\ OwnBot(Loaded[i])'
    <3>1. PICK r \in ProjectRecord : r = Loaded[i]
      BY <1>5, RangeIs
    <3>2. r.name \in Names /\ r.token \in Tokens /\ r.token # None
      BY <3>1, <1>2 DEF ProjectRecord
    <3>3. OwnToken(r)'
      <4>1. ASSUME NEW m \in Names, m # r.name
            PROVE  byName'[m].token # r.token
        <5>1. CASE byName'[m] = NoBot
          BY <3>2, <5>1 DEF NoBot
        <5>2. CASE byName'[m] \in on /\ byName'[m].name = m
          <6>1. PICK k \in DOMAIN Loaded : Loaded[k] = byName'[m]
            BY <1>6, <5>2
          <6>2. QED
            BY <2>1, <3>1, <4>1, <5>2, <6>1 DEF OneToken
        <5>3. QED
          BY <1>8, <5>1, <5>2
      <4>2. QED
        BY <2>2, <4>1 DEF OwnToken
    <3>4. Requested(r)'
      BY <2>2 DEF Requested
    <3>5. OwnBot(r)'
      <4>1. OwnBot(r)
        BY <1>1, <2>1, <2>4, <3>1, <1>13 DEF Uncrowded
      <4>2. byName'[r.name] = IF r.enabled THEN r ELSE NoBot
        <5>1. CASE r.enabled
          BY <1>6, <1>8, <3>1, <3>2, <5>1
        <5>2. CASE ~r.enabled
          <6>1. r.name \notin NamesOf(on)
            <7>1. \A s \in on : s.name # r.name
              BY <1>2, <1>6, <3>1, <5>2 DEF OneName
            <7>2. QED
              BY <7>1 DEF NamesOf
          <6>2. QED
            BY <1>8, <3>2, <5>2, <6>1
        <5>3. QED
          BY <5>1, <5>2
      <4>3. r.enabled => byHash'[r.token] = r
        <5>1. ASSUME r.enabled
              PROVE  byHash'[r.token] = r
          <6>1. r \in on /\ \A s \in on : s.token = r.token => s = r
            BY <1>6, <2>1, <3>1, <5>1 DEF OneToken
          <6>2. byHash'[r.token] = IF r.token \in TokensOf(on) THEN CHOOSE s \in on : s.token = r.token ELSE NoBot
            BY <1>1, <3>2 DEF RegisterBots
          <6>3. QED
            BY <6>1, <6>2 DEF TokensOf
        <5>2. QED
          BY <5>1
      <4>4. QED
        BY <1>1, <2>2, <4>1, <4>2, <4>3 DEF OwnBot, SecretToken
    <3>6. QED
      BY <1>4, <3>1, <3>3, <3>4, <3>5
  <2>5. QED
    BY <1>4, <2>1, <2>3, <2>4 DEF Uncrowded
<1>14. QED
  BY <1>1, <1>4, <1>10, <1>11, <1>12, <1>13 DEF RegistryInv, Uncrowded

LEMMA CrashSafe == ASSUME RegistryInv, ServerCrash PROVE RegistryInv'
<1>1. /\ Up /\ Dies /\ UNCHANGED stored /\ Loaded' = Loaded /\ Readable'
      /\ disk' \in File_ /\ keyring' \in [Names -> Secret]
  BY FileStays DEF ServerCrash, RegistryInv, RegistryTypes, stored
<1>2. ~failed /\ disk'.state # "torn" =>
        OneToken(Loaded') /\ \A i \in DOMAIN Loaded' : \E j \in DOMAIN Loaded : Loaded[j] = Loaded'[i]
  BY <1>1 DEF RegistryInv, Uncrowded, stored
<1>3. QED
  BY <1>1, <1>2, DiesSafe

LEMMA StaysSafe == ASSUME RegistryInv, UNCHANGED registryVars PROVE RegistryInv'
<1>1. Loaded' = Loaded /\ Readable'
  BY FileStays DEF RegistryInv
<1>2. RegistryTypes' /\ Running' /\ Synced' /\ NoStaleBot'
  BY <1>1 DEF RegistryInv, RegistryTypes, InFlight, Running, Synced, NoStaleBot, Up
<1>3. Uncrowded'
  BY <1>1 DEF RegistryInv, Uncrowded, OneRequest, NoBotLeft, OwnToken, Requested, OwnBot, Late, About, InFlight, Up,
              SecretToken
<1>4. QED
  BY <1>1, <1>2, <1>3 DEF RegistryInv

LEMMA RegistryStarts == RegistryInit => RegistryInv
<1> SUFFICES ASSUME RegistryInit PROVE RegistryInv
  OBVIOUS
<1>1. Legacy \in Seq(ProjectRecord) /\ OneName(Legacy) /\ OneToken(Legacy)
  BY ProjectsAssumption DEF Distinct, OneName, OneToken
<1>2. /\ disk.projects \in Seq(ProjectRecord) /\ OneName(disk.projects) /\ OneToken(disk.projects)
      /\ disk.marker = "plaintext" /\ disk.state \in {"ok", "absent"}
      /\ disk.default \in Names \cup {None} /\ (disk.state = "absent" => disk.projects = <<>>)
      /\ disk = [state |-> disk.state, marker |-> "plaintext", default |-> disk.default, projects |-> disk.projects]
  <2>1. CASE disk = Absent
    BY <2>1 DEF Absent, File, OneName, OneToken
  <2>2. CASE Legacy # <<>> /\ disk = File("plaintext", Head(Legacy).name, Legacy)
    <3>1. Head(Legacy) \in ProjectRecord
      BY <1>1, <2>2
    <3>2. QED
      BY <1>1, <2>2, <3>1 DEF File, ProjectRecord
  <2>3. QED
    BY <2>1, <2>2 DEF RegistryInit
<1>3. \A i \in DOMAIN disk.projects : disk.projects[i] \in ProjectRecord /\ disk.projects[i].token \in Tokens
                                    /\ disk.projects[i].token # None
  <2>1. \A i \in DOMAIN disk.projects : disk.projects[i] \in ProjectRecord
    BY <1>2, RangeIs
  <2>2. QED
    BY <2>1, NoneIsNothing DEF ProjectRecord
<1>4. RegistryTypes
  <2>1. disk.projects \in Seq(Entry)
    <3>1. \A i \in 1 .. Len(disk.projects) : disk.projects[i] \in Entry
      BY <1>2, <1>3, RecordIsEntry
    <3>2. QED
      BY <1>2, <3>1
  <2>2. disk \in File_
    BY <1>2, <2>1 DEF File_, Backends
  <2>3. Empty \in Secret /\ Idle \in [pc : Steps, rec : Bot] /\ \A q \in Requests : ~InFlight(q)
    BY DEF Empty, Secret, Idle, Steps, Bot, InFlight, RegistryInit
  <2>4. change \in [Requests -> [pc : Steps, rec : Bot]] /\ keyring \in [Names -> Secret]
    BY <2>3 DEF RegistryInit
  <2>5. byName \in [Names -> Bot] /\ byHash \in [Tokens -> Bot] /\ hook \in [Tokens -> Secrets \cup {None}]
    BY DEF RegistryInit, Bot
  <2>6. projects \in Seq(ProjectRecord)
    BY DEF RegistryInit
  <2>7. QED
    BY <2>2, <2>3, <2>4, <2>5, <2>6 DEF RegistryInit, RegistryTypes
<1>5. Loaded = disk.projects
  BY <1>2 DEF Loaded, Inject
<1>6. Readable
  BY <1>2, <1>3 DEF Readable, InPlace
<1>7. \A u \in Requests : ~InFlight(u) /\ ~Late(u)
  BY DEF InFlight, Late, RegistryInit, Idle
<1>8. Running /\ Synced /\ NoStaleBot
  BY <1>7 DEF Running, Synced, NoStaleBot, Up, RegistryInit
<1>9. Uncrowded
  BY <1>2, <1>3, <1>5, <1>7 DEF Uncrowded, OneRequest, NoBotLeft, OwnToken, Requested, OwnBot, RegistryInit, Up, NoBot
<1>10. QED
  BY <1>4, <1>6, <1>8, <1>9 DEF RegistryInv

LEMMA RegistryStepSafe == RegistryInv /\ [RegistryNext]_registryVars => RegistryInv'
<1> SUFFICES ASSUME RegistryInv, [RegistryNext]_registryVars PROVE RegistryInv'
  OBVIOUS
<1>1. CASE \E q \in Requests : \/ Create(q) \/ Update(q) \/ UpdateProject(q) \/ RemoveProject(q) \/ SetDefault(q)
                              \/ SyncBot(q) \/ UnregisterBot(q) \/ SyncWebhook(q)
  BY <1>1, CreateSafe, UpdateSafe, UpdateProjectSafe, RemoveSafe, SetDefaultSafe, SyncBotSafe, UnregisterBotSafe,
     SyncWebhookSafe
<1>2. CASE ServerCrash \/ Migrate \/ Prepare \/ RegisterAll \/ StartServer
  BY <1>2, CrashSafe, MigrateSafe, PrepareSafe, RegisterAllSafe, StartSafe
<1>3. CASE AtRest \/ UNCHANGED registryVars
  BY <1>3, StaysSafe DEF AtRest
<1>4. QED
  BY <1>1, <1>2, <1>3 DEF RegistryNext

LEMMA RegistryInvariant == RegistrySpec => []RegistryInv
BY RegistryStarts, RegistryStepSafe, PTL DEF RegistrySpec

-----------------------------------------------------------------------------
(* The hash of a token never routes to a bot that was replaced or          *)
(* unregistered: BotInstanceManager, whatever requests overlap.            *)
THEOREM BotsAreCurrent == RegistrySpec => []NoStaleBot
<1>1. RegistryInv => NoStaleBot
  BY DEF RegistryInv
<1>2. QED
  BY <1>1, RegistryInvariant, PTL

(* At rest an update for an enabled project reaches the bot of its record and *)
(* passes its secret, unless requests crowded each other or a write or a   *)
(* webhook was refused: the bots, the routes and the secrets of the webhooks *)
(* follow the registry.                                                    *)
THEOREM UpdatesArrive == RegistrySpec => []UpdatesReachTheirBot
<1>1. RegistryInv => UpdatesReachTheirBot
  <2> SUFFICES ASSUME RegistryInv, Up, ~failed, \A q \in Requests : ~InFlight(q), NEW r \in Range(projects),
                      r.enabled, r.name \notin crowded
               PROVE  /\ byName[r.name] = r /\ byHash[r.token] = r
                      /\ r.token \notin unhooked /\ r.secret = SecretToken(r) => Accepted(r.token)
    BY DEF UpdatesReachTheirBot
  <2>1. Loaded = projects /\ Uncrowded /\ disk.state # "torn" /\ RegistryTypes
    BY DEF RegistryInv, Synced, Running
  <2>2. r \in ProjectRecord /\ \E i \in DOMAIN Loaded : Loaded[i] = r
    BY <2>1, RangeIs DEF RegistryTypes
  <2>3. OwnBot(r)
    BY <2>1, <2>2 DEF Uncrowded
  <2>4. \A u \in Requests : ~Late(u)
    BY DEF Late, InFlight
  <2>5. r # NoBot
    BY <2>2, NoneIsNothing DEF ProjectRecord, NoBot
  <2>6. QED
    BY <2>3, <2>4, <2>5 DEF OwnBot, Accepted
<1>2. QED
  BY <1>1, RegistryInvariant, PTL

(* A file that is not half written can be read with a token for every project, *)
(* at any moment of a write, of the migration and of the start; and, but for a *)
(* refused write, a restart brings back the projects and the default.      *)
THEOREM RestartsKeep == RegistrySpec => []RestartKeepsProjects
<1>1. RegistryInv => RestartKeepsProjects
  <2> SUFFICES ASSUME RegistryInv, disk.state = "ok"
               PROVE  StartsAgain /\ (Up /\ ~failed => Loaded = projects /\ disk.default = default)
    BY DEF RestartKeepsProjects
  <2>1. Loaded \in Seq(Entry) /\ \A i \in DOMAIN Loaded : Loaded[i].token # None
    BY LoadedIs DEF RegistryInv, LoadsWell
  <2>2. StartsAgain
    BY <2>1, RangeIs DEF StartsAgain
  <2>3. QED
    BY <2>2 DEF RegistryInv, Synced
<1>2. QED
  BY <1>1, RegistryInvariant, PTL

-----------------------------------------------------------------------------
(* LogBuffer: what the page shows, for any ring, limit, requests under way *)
(* and lines.                                                              *)

Line == [id : Nat, level : Levels]
AnswerRecord == [ids : Seq(Nat), max : Nat, from : Nat \ {0}, whole : BOOLEAN]
Request ==
  [full : BOOLEAN, after : Nat, filter : Filters, reply : AnswerRecord \cup {None}]

Ascending(ids) == \A i, k \in 1 .. Len(ids) : i < k => ids[i] < ids[k]

LogTypes ==
  /\ log \in Seq(Levels) /\ newest = Len(log) /\ lines \in Seq(Line)
  /\ flights \in [Flights -> Request \cup {None}]
  /\ form \in Filters /\ lastMaxId \in Nat /\ since \in Nat \ {0}

(* The ring has the last lines of this life of the server: those after Gone. *)
Gone == newest - Len(lines)
LastLines ==
  /\ Gone \in Nat /\ (newest > 0 => lines # <<>>)
  /\ \A n \in 1 .. Len(lines) : lines[n] = [id |-> Gone + n, level |-> log[Gone + n]]

(* The matching lines of a log, from one id to another.                    *)
Between(l, from, to, f) == {id \in from .. to : Matches(l[id], f)}

(* What an answer under way has is what its range had, and has: the log only *)
(* grows behind it.                                                        *)
Accounted(l, r, a) ==
  /\ a.max <= Len(l) /\ Ascending(a.ids)
  /\ a.whole => Range(a.ids) = Between(l, a.from, a.max, r.filter)
  /\ r.full => a.whole
Fine(l, r) ==
  /\ r.full => r.after = 0
  /\ r.reply # None => Accounted(l, r, r.reply)
Answers == \A n \in Flights : flights[n] # None => Fine(log, flights[n])

(* What the page shows of a log of which it knows no gap.                  *)
Follows ==
  /\ shown \in Seq(1 .. newest) /\ Ascending(shown) /\ lastMaxId <= newest
  /\ Range(shown) = Between(log, since, Upto, filter)

PageInv == LogTypes /\ LastLines /\ Answers /\ (torn \/ Follows)

LEMMA GoneIs ==
  ASSUME LogTypes, LastLines
  PROVE  /\ newest \in Nat /\ Len(lines) \in Nat /\ Gone \in Nat /\ Gone + Len(lines) = newest
         /\ DOMAIN lines = 1 .. Len(lines)
BY DEF LogTypes, LastLines, Gone

(* A line is pushed: what was there is still there, and names the same lines. *)
Longer(l, k) == Len(l) <= Len(k) /\ \A id \in 1 .. Len(l) : k[id] = l[id]

LEMMA Pushed ==
  ASSUME LogTypes, LastLines, NEW level \in Levels, PushLine(level)
  PROVE  /\ log' \in Seq(Levels) /\ newest' = Len(log') /\ lines' \in Seq(Line)
         /\ LastLines' /\ Longer(log, log')
<1> DEFINE new == [id |-> newest + 1, level |-> level]
           longer == Append(lines, new)
<1>1. /\ newest \in Nat /\ Len(lines) \in Nat /\ Gone \in Nat /\ Gone + Len(lines) = newest
      /\ new \in Line
  BY GoneIs DEF Line
<1>2. /\ log' \in Seq(Levels) /\ Len(log') = newest + 1 /\ newest' = newest + 1
      /\ \A id \in 1 .. newest : log'[id] = log[id]
      /\ log'[newest + 1] = level
  BY DEF LogTypes, PushLine
<1>3. /\ longer \in Seq(Line) /\ Len(longer) = Len(lines) + 1 /\ longer # <<>>
      /\ \A n \in 1 .. Len(lines) : longer[n] = lines[n]
      /\ longer[Len(lines) + 1] = new
  <2> HIDE DEF new
  <2> QED BY <1>1, AppendProperties DEF LogTypes
<1>4. ASSUME NEW n \in 1 .. Len(longer)
      PROVE  longer[n] = [id |-> Gone + n, level |-> log'[Gone + n]]
  <2>1. CASE n = Len(lines) + 1
    <3>1. Gone + n = newest + 1
      BY <1>1, <2>1
    <3> QED BY <1>2, <1>3, <2>1, <3>1
  <2>2. CASE n # Len(lines) + 1
    <3> HIDE DEF longer
    <3>1. n \in 1 .. Len(lines)
      BY <1>1, <1>3, <2>2
    <3>2. Gone + n \in 1 .. newest
      BY <1>1, <3>1
    <3> QED BY <1>2, <1>3, <3>1, <3>2 DEF LastLines
  <2> QED BY <2>1, <2>2
<1>5. Longer(log, log')
  BY <1>1, <1>2 DEF Longer, LogTypes
<1>6. lines' = IF Len(longer) > MaxEntries THEN Tail(longer) ELSE longer
  BY DEF PushLine, Ring
<1> HIDE DEF longer
<1>7. CASE lines' = longer
  <2>1. Gone' = Gone
    <3>1. \A a, b, c \in Nat : a + b = c => (c + 1) - (b + 1) = a
      OBVIOUS
    <3>2. Gone' = (newest + 1) - (Len(lines) + 1)
      BY <1>2, <1>3, <1>7 DEF Gone
    <3> QED BY <1>1, <3>1, <3>2
  <2>2. \A n \in 1 .. Len(lines)' : lines'[n] = [id |-> Gone' + n, level |-> log'[Gone' + n]]
    BY <1>4, <1>7, <2>1
  <2> QED BY <1>1, <1>2, <1>3, <1>5, <1>7, <2>1, <2>2 DEF LastLines
<1>8. CASE Len(longer) > MaxEntries /\ lines' = Tail(longer)
  <2>1. /\ lines' \in Seq(Line) /\ Len(lines)' = Len(lines)
        /\ \A n \in 1 .. Len(lines)' : lines'[n] = longer[n + 1]
    <3>1. /\ lines' \in Seq(Line) /\ Len(lines)' = Len(longer) - 1
          /\ \A n \in 1 .. Len(lines)' : lines'[n] = longer[n + 1]
      BY <1>3, <1>8, HeadTailProperties
    <3> QED BY <1>1, <1>3, <3>1
  <2>2. Gone' = Gone + 1
    <3>1. \A a, b, c \in Nat : a + b = c => (c + 1) - b = a + 1
      OBVIOUS
    <3>2. Gone' = (newest + 1) - Len(lines)
      BY <1>2, <2>1 DEF Gone
    <3> QED BY <1>1, <3>1, <3>2
  <2>3. lines' # <<>>
    <3>1. Len(lines)' > 0
      BY <1>1, <1>3, <1>8, <2>1, LogBufferAssumption
    <3> QED BY <3>1
  <2>4. ASSUME NEW n \in 1 .. Len(lines)'
        PROVE  lines'[n] = [id |-> Gone' + n, level |-> log'[Gone' + n]]
    <3>1. n + 1 \in 1 .. Len(longer) /\ Gone + (n + 1) = Gone' + n
      BY <1>1, <1>3, <2>1, <2>2
    <3> QED BY <1>4, <2>1, <3>1
  <2> QED BY <1>1, <1>2, <1>5, <2>1, <2>2, <2>3, <2>4 DEF LastLines
<1> QED
  BY <1>1, <1>3, <1>6, <1>7, <1>8

(* The greatest id on the page or the one that the next poll starts after. *)
LEMMA UptoIs ==
  ASSUME NEW s \in Seq(Nat), Ascending(s), NEW m \in Nat,
         NEW u, u = IF s = <<>> \/ Last(s) < m THEN m ELSE Last(s)
  PROVE  u \in Nat /\ m <= u /\ (u = m \/ u \in Range(s)) /\ \A id \in Range(s) : id <= u
<1>1. CASE s = <<>>
  BY <1>1 DEF Range
<1>2. CASE s # <<>>
  <2>1. Len(s) \in Nat \ {0} /\ Last(s) = s[Len(s)] /\ Last(s) \in Nat /\ DOMAIN s = 1 .. Len(s)
    BY <1>2 DEF Last
  <2>2. \A k \in 1 .. Len(s) : s[k] \in Nat /\ s[k] <= Last(s)
    BY <2>1 DEF Ascending
  <2> QED BY <1>2, <2>1, <2>2 DEF Range
<1> QED
  BY <1>1, <1>2

(* What the filters leave of the ring, by its ids.                         *)
Leaves(found, after, f) ==
  /\ found \in Seq(Line)
  /\ \A i, k \in 1 .. Len(found) : i < k => found[i].id < found[k].id
  /\ \A i \in 1 .. Len(found) :
       found[i].id \in Between(log, Gone + 1, newest, f) /\ found[i].id > after
  /\ \A id \in Between(log, Gone + 1, newest, f) :
       id > after => \E i \in 1 .. Len(found) : found[i].id = id

LEMMA FoundIs ==
  ASSUME LogTypes, LastLines, NEW after \in Nat, NEW f,
         NEW found, found = Filtered(after, f)
  PROVE  Leaves(found, after, f)
<1> DEFINE S == {line \in Range(lines) : line.id > after /\ Matches(line.level, f)}
           R == {p \in Line \X Line : p[1].id < p[2].id}
<1>0. /\ newest \in Nat /\ Len(lines) \in Nat /\ Gone \in Nat /\ Gone + Len(lines) = newest
      /\ DOMAIN lines = 1 .. Len(lines) /\ lines \in Seq(Line)
  BY GoneIs DEF LogTypes
<1>1. ASSUME NEW n \in 1 .. Len(lines)
      PROVE  /\ lines[n] \in Line /\ lines[n].id = Gone + n
             /\ lines[n].level = log[Gone + n] /\ Gone + n \in Gone + 1 .. newest
  <2>1. lines[n] = [id |-> Gone + n, level |-> log[Gone + n]]
    BY DEF LastLines
  <2>2. lines[n] \in Line /\ Gone + n \in Gone + 1 .. newest
    BY <1>0
  <2> QED BY <2>1, <2>2
<1>2. InOrder(lines, R)
  <2> SUFFICES ASSUME NEW i \in 1 .. Len(lines), NEW k \in 1 .. Len(lines), i < k
               PROVE  <<lines[i], lines[k]>> \in R
    BY DEF InOrder
  <2>1. lines[i].id = Gone + i /\ lines[k].id = Gone + k /\ lines[i] \in Line /\ lines[k] \in Line
    BY <1>1
  <2>2. Gone + i < Gone + k
    BY <1>0
  <2> QED BY <2>1, <2>2
<1>3. found \in Seq(Line) /\ IsSelected(lines, S, found, Len(lines)) /\ InOrder(found, R)
  <2>1. found = Selected(lines, S)
    BY DEF Filtered
  <2> HIDE DEF S, R
  <2> QED BY <1>0, <1>2, <2>1, SelectedIs
<1>4. ASSUME NEW i \in 1 .. Len(found)
      PROVE  found[i].id \in Between(log, Gone + 1, newest, f) /\ found[i].id > after
  <2>1. PICK k \in 1 .. Len(lines) : found[i] = lines[k] /\ lines[k] \in S
    <3> HIDE DEF S
    <3> QED BY <1>3 DEF IsSelected
  <2> QED BY <1>1, <2>1 DEF Between
<1>5. ASSUME NEW id \in Between(log, Gone + 1, newest, f), id > after
      PROVE  \E i \in 1 .. Len(found) : found[i].id = id
  <2>1. id \in Gone + 1 .. newest /\ Matches(log[id], f)
    BY DEF Between
  <2>2. PICK k \in 1 .. Len(lines) : Gone + k = id
    <3>1. \A g, l, n \in Nat : g + l = n => \A m \in g + 1 .. n : m - g \in 1 .. l /\ g + (m - g) = m
      OBVIOUS
    <3> QED BY <1>0, <2>1, <3>1
  <2>3. lines[k].id = id /\ Matches(lines[k].level, f)
    BY <1>1, <2>1, <2>2
  <2>4. lines[k] \in S
    BY <1>0, <1>5, <2>2, <2>3 DEF Range
  <2>5. \E i \in 1 .. Len(found) : found[i] = lines[k]
    <3> HIDE DEF S
    <3> QED BY <1>3, <2>2, <2>4 DEF IsSelected
  <2> QED BY <2>3, <2>5
<1>6. \A i, k \in 1 .. Len(found) : i < k => found[i].id < found[k].id
  BY <1>3 DEF InOrder
<1> QED
  BY <1>3, <1>4, <1>5, <1>6 DEF Leaves

(* The window is a stretch of what the filters leave: all of it, or its end. *)
Stretch(window, found, after, skip) ==
  /\ skip + Len(window) <= Len(found)
  /\ \A i \in 1 .. Len(window) : window[i] = found[skip + i]
  /\ Len(found) <= Limit => skip = 0 /\ Len(window) = Len(found)
  /\ Len(found) > Limit /\ after = 0 => Len(window) > 0 /\ skip + Len(window) = Len(found)

LEMMA WindowIs ==
  ASSUME LogTypes, LastLines, NEW after \in Nat, NEW f,
         NEW found, found = Filtered(after, f), NEW window, window = Window(after, f)
  PROVE  window \in Seq(Line) /\ \E skip \in Nat : Stretch(window, found, after, skip)
<1>1. found \in Seq(Line) /\ Len(found) \in Nat /\ Limit \in Nat \ {0}
  BY FoundIs, LogBufferAssumption DEF Leaves
<1>2. window = IF Len(found) <= Limit THEN found
               ELSE IF after = 0 THEN SubSeq(found, Len(found) - Limit + 1, Len(found))
               ELSE SubSeq(found, 1, Limit)
  BY DEF Window
<1>3. CASE Len(found) <= Limit
  <2>1. window = found /\ 0 \in Nat /\ 0 + Len(window) <= Len(found)
    BY <1>1, <1>2, <1>3
  <2>2. \A i \in 1 .. Len(window) : window[i] = found[0 + i]
    BY <2>1
  <2> QED BY <1>1, <1>3, <2>1, <2>2 DEF Stretch
<1>4. CASE Len(found) > Limit /\ after = 0
  <2>1. PICK skip \in Nat : skip + Limit = Len(found) /\ Len(found) - Limit + 1 = skip + 1
    BY <1>1, <1>4
  <2>2. window = SubSeq(found, skip + 1, Len(found))
    BY <1>1, <1>2, <1>4, <2>1
  <2>3. skip + 1 \in 1 .. Len(found) + 1 /\ Len(found) \in skip + 1 - 1 .. Len(found)
    BY <1>1, <2>1
  <2>4. /\ window \in Seq(Line) /\ Len(window) = Len(found) - (skip + 1) + 1
        /\ \A i \in 1 .. Len(found) - (skip + 1) + 1 : window[i] = found[skip + 1 + i - 1]
    BY <1>1, <2>1, <2>2, <2>3, SubSeqProperties
  <2>5. Len(window) = Limit /\ \A i \in 1 .. Limit : skip + 1 + i - 1 = skip + i
    BY <1>1, <2>1, <2>4
  <2>6. \A i \in 1 .. Len(window) : window[i] = found[skip + i]
    BY <2>4, <2>5
  <2>7. /\ skip + Len(window) = Len(found) /\ Len(window) > 0 /\ skip + Len(window) <= Len(found)
        /\ ~ (Len(found) <= Limit)
    BY <1>1, <1>4, <2>1, <2>5
  <2> QED BY <2>4, <2>6, <2>7 DEF Stretch
<1>5. CASE Len(found) > Limit /\ after # 0
  <2>1. window = SubSeq(found, 1, Limit)
    BY <1>1, <1>2, <1>5
  <2>2. window \in Seq(Line) /\ Len(window) = Limit /\ \A i \in 1 .. Limit : window[i] = found[i]
    <3>1. /\ window \in Seq(Line) /\ Len(window) = IF 1 <= Limit THEN Limit - 1 + 1 ELSE 0
          /\ \A i \in 1 .. Limit - 1 + 1 : window[i] = found[1 + i - 1]
      BY <1>1, <1>5, <2>1, SubSeqProperties
    <3>2. \A i \in 1 .. Limit : 1 + i - 1 = i
      BY <1>1
    <3> QED BY <1>1, <3>1, <3>2
  <2>3. 0 + Len(window) <= Len(found) /\ \A i \in 1 .. Len(window) : window[i] = found[0 + i]
    BY <1>1, <1>5, <2>2
  <2>4. ~ (Len(found) <= Limit) /\ 0 \in Nat
    BY <1>1, <1>5
  <2> QED BY <1>5, <2>2, <2>3, <2>4 DEF Stretch
<1> QED
  BY <1>1, <1>3, <1>4, <1>5

LEMMA FirstIdIs == ASSUME LogTypes, LastLines PROVE FirstId = Gone + 1
<1>0. newest \in Nat /\ Len(lines) \in Nat /\ Gone \in Nat /\ Gone + Len(lines) = newest
  BY GoneIs
<1>1. CASE lines = <<>>
  BY <1>0, <1>1 DEF FirstId
<1>2. CASE lines # <<>>
  <2>1. 1 \in 1 .. Len(lines)
    BY <1>0, <1>2 DEF LogTypes
  <2>2. lines[1] = [id |-> Gone + 1, level |-> log[Gone + 1]]
    BY <2>1 DEF LastLines
  <2> QED BY <1>2, <2>2 DEF FirstId
<1> QED
  BY <1>1, <1>2

LEMMA QueryIs ==
  ASSUME LogTypes, LastLines, NEW r \in Request, r.full => r.after = 0,
         NEW a, a = Query(r)
  PROVE  a \in AnswerRecord /\ Accounted(log, r, a)
<1> DEFINE after == r.after
           f == r.filter
           found == Filtered(after, f)
           window == Window(after, f)
           ids == [n \in 1 .. Len(window) |-> window[n].id]
           from == IF after > 0 THEN after + 1 ELSE IF Len(found) > Limit THEN window[1].id ELSE FirstId
           whole == after = 0 \/ (FirstId <= after + 1 /\ ~ (Len(found) > Limit))
<1>0. /\ newest \in Nat /\ Gone \in Nat /\ after \in Nat /\ FirstId = Gone + 1
      /\ Limit \in Nat \ {0} /\ newest = Len(log)
  BY GoneIs, FirstIdIs, LogBufferAssumption DEF Request, LogTypes
<1>1. a = [ids |-> ids, max |-> newest, from |-> from, whole |-> whole]
  <2>1. (IF lines = <<>> THEN 0 ELSE newest) = newest
    BY <1>0 DEF LastLines
  <2> QED BY <2>1 DEF Query, Reply
<1>2a. Leaves(found, after, f)
  <2>1. after \in Nat
    BY <1>0
  <2>2. found = Filtered(after, f)
    OBVIOUS
  <2> HIDE DEF after, f, found
  <2> QED BY <2>1, <2>2, FoundIs
<1>3. window \in Seq(Line) /\ \E skip \in Nat : Stretch(window, found, after, skip)
  <2>1. after \in Nat
    BY <1>0
  <2>2. found = Filtered(after, f) /\ window = Window(after, f)
    OBVIOUS
  <2> HIDE DEF after, f, found, window
  <2> QED BY <2>1, <2>2, WindowIs
<1> HIDE DEF found, window, after, f
<1>2. /\ found \in Seq(Line)
      /\ \A i, k \in 1 .. Len(found) : i < k => found[i].id < found[k].id
      /\ \A i \in 1 .. Len(found) :
           found[i].id \in Between(log, Gone + 1, newest, f) /\ found[i].id > after
      /\ \A id \in Between(log, Gone + 1, newest, f) :
           id > after => \E i \in 1 .. Len(found) : found[i].id = id
  BY <1>2a DEF Leaves
<1>4. PICK skip \in Nat :
        /\ skip + Len(window) <= Len(found)
        /\ \A i \in 1 .. Len(window) : window[i] = found[skip + i]
        /\ Len(found) <= Limit => skip = 0 /\ Len(window) = Len(found)
        /\ Len(found) > Limit /\ after = 0 =>
             Len(window) > 0 /\ skip + Len(window) = Len(found)
  BY <1>3 DEF Stretch
<1>5. Len(window) \in Nat /\ Len(found) \in Nat
  BY <1>2, <1>3
<1>6. /\ ids \in Seq(Nat) /\ Len(ids) = Len(window) /\ DOMAIN ids = 1 .. Len(window)
      /\ \A i \in 1 .. Len(window) : skip + i \in 1 .. Len(found) /\ ids[i] = found[skip + i].id
  <2>1. \A i \in 1 .. Len(window) : window[i].id \in Nat
    <3> HIDE DEF ids
    <3>1. \A i \in 1 .. Len(window) : window[i] \in Line
      BY <1>3
    <3> QED BY <3>1 DEF Line
  <2>2. \A i \in 1 .. Len(window) : skip + i \in 1 .. Len(found)
    BY <1>4, <1>5
  <2> QED BY <1>4, <1>5, <2>1, <2>2
<1> HIDE DEF ids
<1>7. Ascending(ids)
  <2> SUFFICES ASSUME NEW i \in 1 .. Len(ids), NEW k \in 1 .. Len(ids), i < k
               PROVE  ids[i] < ids[k]
    BY DEF Ascending
  <2>1. skip + i < skip + k
    BY <1>5, <1>6
  <2> QED BY <1>2, <1>6, <2>1
<1>8. from \in Nat \ {0}
  <2>1. CASE after = 0 /\ Len(found) > Limit
    <3>1. skip + 1 \in 1 .. Len(found) /\ window[1] = found[skip + 1]
      BY <1>4, <1>5, <2>1
    <3>2. window[1].id \in Gone + 1 .. newest
      BY <1>2, <3>1 DEF Between
    <3> QED BY <1>0, <2>1, <3>2
  <2> QED BY <1>0, <2>1
<1>9. ASSUME whole PROVE Range(ids) = Between(log, from, newest, f)
  <2>1. CASE after > 0
    <3>1. from = after + 1 /\ Gone + 1 <= after + 1 /\ skip = 0 /\ Len(window) = Len(found)
      BY <1>0, <1>4, <1>5, <1>9, <2>1
    <3>2. ASSUME NEW id \in Range(ids) PROVE id \in Between(log, from, newest, f)
      <4>1. PICK i \in 1 .. Len(found) : id = found[i].id
        BY <1>6 DEF Range
      <4>2. id \in Gone + 1 .. newest /\ Matches(log[id], f) /\ id > after
        BY <1>2, <4>1 DEF Between
      <4> QED BY <1>0, <3>1, <4>2 DEF Between
    <3>3. ASSUME NEW id \in Between(log, from, newest, f) PROVE id \in Range(ids)
      <4>1. id \in after + 1 .. newest /\ Matches(log[id], f)
        BY <3>1 DEF Between
      <4>2. id \in Between(log, Gone + 1, newest, f) /\ id > after
        BY <1>0, <3>1, <4>1 DEF Between
      <4>3. PICK i \in 1 .. Len(found) : found[i].id = id
        BY <1>2, <4>2
      <4>4. i \in 1 .. Len(window) /\ skip + i = i
        BY <1>5, <3>1
      <4> QED BY <1>6, <4>3, <4>4 DEF Range
    <3> QED BY <3>2, <3>3
  <2>2. CASE after = 0 /\ Len(found) <= Limit
    <3>1. from = Gone + 1 /\ skip = 0 /\ Len(window) = Len(found)
      BY <1>0, <1>4, <1>5, <2>2
    <3>2. ASSUME NEW id \in Range(ids) PROVE id \in Between(log, from, newest, f)
      <4>1. PICK i \in 1 .. Len(found) : id = found[i].id
        BY <1>6 DEF Range
      <4> QED BY <1>2, <3>1, <4>1
    <3>3. ASSUME NEW id \in Between(log, from, newest, f) PROVE id \in Range(ids)
      <4>1. id \in Between(log, Gone + 1, newest, f) /\ id > after
        BY <1>0, <2>2, <3>1 DEF Between
      <4>2. PICK i \in 1 .. Len(found) : found[i].id = id
        BY <1>2, <4>1
      <4>3. i \in 1 .. Len(window) /\ skip + i = i
        BY <1>5, <3>1
      <4> QED BY <1>6, <4>2, <4>3 DEF Range
    <3> QED BY <3>2, <3>3
  <2>3. CASE after = 0 /\ Len(found) > Limit
    <3>1. /\ skip + Len(window) = Len(found) /\ 1 \in 1 .. Len(window)
          /\ from = found[skip + 1].id /\ skip + 1 \in 1 .. Len(found)
      <4>1. skip + Len(window) = Len(found) /\ 1 \in 1 .. Len(window)
        BY <1>4, <1>5, <2>3
      <4>2. skip + 1 \in 1 .. Len(found) /\ window[1] = found[skip + 1]
        BY <1>4, <1>6, <4>1
      <4>3. from = window[1].id
        BY <2>3
      <4> QED BY <4>1, <4>2, <4>3
    <3>2. from \in Gone + 1 .. newest
      BY <1>2, <3>1 DEF Between
    <3>3. ASSUME NEW id \in Range(ids) PROVE id \in Between(log, from, newest, f)
      <4>1. PICK i \in 1 .. Len(window) : id = found[skip + i].id /\ skip + i \in 1 .. Len(found)
        BY <1>6 DEF Range
      <4>2. id \in Gone + 1 .. newest /\ Matches(log[id], f)
        BY <1>2, <4>1 DEF Between
      <4>3. i = 1 \/ skip + 1 < skip + i
        BY <1>5
      <4>4. from <= id
        <5>1. CASE i = 1
          BY <1>0, <3>1, <3>2, <4>1, <5>1
        <5>2. CASE skip + 1 < skip + i
          <6>1. found[skip + 1].id < found[skip + i].id
            BY <1>2, <3>1, <4>1, <5>2
          <6> QED BY <1>0, <3>1, <3>2, <4>1, <4>2, <6>1
        <5> QED BY <4>3, <5>1, <5>2
      <4> QED BY <1>0, <3>2, <4>2, <4>4 DEF Between
    <3>4. ASSUME NEW id \in Between(log, from, newest, f) PROVE id \in Range(ids)
      <4>1. id \in from .. newest /\ Matches(log[id], f)
        BY DEF Between
      <4>2. id \in Between(log, Gone + 1, newest, f) /\ id > after
        BY <1>0, <2>3, <3>2, <4>1 DEF Between
      <4>3. PICK i \in 1 .. Len(found) : found[i].id = id
        BY <1>2, <4>2
      <4>4. ~ (i < skip + 1)
        <5>1. i < skip + 1 => found[i].id < found[skip + 1].id
          BY <1>2, <3>1
        <5> QED BY <1>0, <3>1, <3>2, <4>1, <4>3, <5>1
      <4>5. PICK k \in 1 .. Len(window) : skip + k = i
        <5>1. i - skip \in 1 .. Len(window) /\ skip + (i - skip) = i
          BY <1>5, <3>1, <4>4
        <5> QED BY <5>1
      <4> QED BY <1>6, <4>3, <4>5 DEF Range
    <3> QED BY <3>3, <3>4
  <2> QED BY <1>0, <1>5, <2>1, <2>2, <2>3
<1>10. r.full => whole
  BY DEF after
<1> HIDE DEF from, whole
<1>11. whole \in BOOLEAN
  BY DEF whole
<1>12. a \in AnswerRecord
  BY <1>0, <1>1, <1>6, <1>8, <1>11 DEF AnswerRecord
<1> QED
  BY <1>0, <1>1, <1>7, <1>9, <1>10, <1>12 DEF Accounted, f

(* A longer log says the same of what it had.                              *)
LEMMA BetweenStays ==
  ASSUME NEW l, NEW k, Len(l) \in Nat, Longer(l, k),
         NEW from \in Nat \ {0}, NEW to \in Nat, to <= Len(l), NEW f
  PROVE  Between(k, from, to, f) = Between(l, from, to, f)
<1>1. \A id \in from .. to : id \in 1 .. Len(l)
  OBVIOUS
<1> QED
  BY <1>1 DEF Between, Longer

LEMMA FineStays ==
  ASSUME NEW l \in Seq(Levels), NEW k \in Seq(Levels), Longer(l, k), NEW r \in Request, Fine(l, r)
  PROVE  Fine(k, r)
<1>1. CASE r.reply = None
  BY <1>1 DEF Fine
<1>2. CASE r.reply # None
  <2> DEFINE a == r.reply
  <2>1. a \in AnswerRecord /\ Accounted(l, r, a)
    BY <1>2 DEF Request, Fine
  <2> HIDE DEF a
  <2>2. Len(l) \in Nat /\ Len(k) \in Nat /\ a.max \in Nat /\ a.max <= Len(l) /\ a.from \in Nat \ {0}
    BY <2>1 DEF Accounted, AnswerRecord
  <2>3. Between(k, a.from, a.max, r.filter) = Between(l, a.from, a.max, r.filter)
    BY <2>2, BetweenStays
  <2>4. a.max <= Len(k)
    BY <2>2 DEF Longer
  <2> QED BY <2>1, <2>3, <2>4 DEF Accounted, Fine, a
<1> QED
  BY <1>1, <1>2

(* How far the page has come is within the log.                            *)
LEMMA FollowsUpto ==
  ASSUME LogTypes, Follows
  PROVE  /\ Upto \in Nat /\ Upto <= newest /\ lastMaxId <= Upto
         /\ \A id \in Range(shown) : id <= Upto
<1>1. newest \in Nat /\ lastMaxId \in Nat /\ 1 .. newest \subseteq Nat
  BY DEF LogTypes
<1>2. shown \in Seq(1 .. newest) /\ shown \in Seq(Nat) /\ Ascending(shown) /\ lastMaxId <= newest
  BY <1>1, SeqMonotonic DEF Follows
<1>3. /\ Upto \in Nat /\ lastMaxId <= Upto /\ (Upto = lastMaxId \/ Upto \in Range(shown))
      /\ \A id \in Range(shown) : id <= Upto
  BY <1>1, <1>2, UptoIs DEF Upto
<1>4. \A id \in Range(shown) : id <= newest
  BY <1>1, <1>2 DEF Range
<1> QED
  BY <1>2, <1>3, <1>4

(* Lines that are logged behind the page.                                  *)
LEMMA FollowsStays ==
  ASSUME LogTypes, Follows, log' \in Seq(Levels), newest' = Len(log'), Longer(log, log'), UNCHANGED page
  PROVE  Follows'
<1>0. newest = Len(log) /\ newest \in Nat /\ newest' \in Nat /\ since \in Nat \ {0} /\ newest <= newest'
  BY DEF LogTypes, Longer
<1>1. shown \in Seq(1 .. newest) /\ Ascending(shown) /\ lastMaxId <= newest
      /\ Range(shown) = Between(log, since, Upto, filter)
  BY DEF Follows
<1>2. Upto' = Upto /\ UNCHANGED <<shown, lastMaxId, since, filter>>
  BY DEF page, Upto
<1>3. shown \in Seq(1 .. newest')
  <2>1. 1 .. newest \subseteq 1 .. newest'
    BY <1>0
  <2> QED BY <1>1, <2>1, SeqMonotonic
<1>4. Upto \in Nat /\ Upto <= newest
  BY FollowsUpto
<1>5. Between(log', since, Upto, filter) = Between(log, since, Upto, filter)
  BY <1>0, <1>4, BetweenStays
<1>6. lastMaxId <= newest'
  BY <1>0, <1>1 DEF LogTypes
<1> QED
  BY <1>1, <1>2, <1>3, <1>5, <1>6 DEF Follows

LEMMA LineKept == ASSUME PageInv, Emit PROVE PageInv'
<1>0. LogTypes /\ LastLines /\ Answers /\ UNCHANGED <<flights, page>>
  BY DEF PageInv, Emit
<1>1. PICK level \in Levels : PushLine(level)
  BY DEF Emit
<1>2. /\ log' \in Seq(Levels) /\ newest' = Len(log') /\ lines' \in Seq(Line)
      /\ LastLines' /\ Longer(log, log')
  BY <1>0, <1>1, Pushed
<1>3. LogTypes'
  BY <1>0, <1>2 DEF LogTypes, page
<1>4. ASSUME NEW n \in Flights, flights[n] # None PROVE Fine(log', flights[n])
  BY <1>0, <1>2, <1>4, FineStays DEF LogTypes, Answers
<1>5. Answers'
  BY <1>0, <1>4 DEF Answers
<1>6. (torn \/ Follows)'
  <2>1. torn' = torn
    BY <1>0 DEF page
  <2>2. torn \/ Follows
    BY DEF PageInv
  <2> QED BY <1>0, <1>2, <2>1, <2>2, FollowsStays
<1> QED
  BY <1>2, <1>3, <1>5, <1>6 DEF PageInv

LEMMA AnswerKept == ASSUME PageInv, NEW n \in Flights, Answer(n) PROVE PageInv'
<1>0. LogTypes /\ LastLines /\ Answers /\ UNCHANGED page
  BY DEF PageInv, Answer
<1>1. PICK r \in Request : r = flights[n] /\ r # None /\ Fine(log, r)
  BY <1>0 DEF Answer, Waits, LogTypes, Answers
<1>2. PICK a \in AnswerRecord : a = Query(r) /\ Accounted(log, r, a)
  BY <1>0, <1>1, QueryIs DEF Fine
<1>3. /\ log' \in Seq(Levels) /\ newest' = Len(log') /\ lines' \in Seq(Line)
      /\ LastLines' /\ Longer(log, log')
  <2>1. PushLine("info") /\ "info" \in Levels
    BY DEF Answer, Levels
  <2> QED BY <1>0, <2>1, Pushed
<1>4. PICK q \in Request : q = [r EXCEPT !.reply = a]
  BY DEF Request
<1>5. flights' = [flights EXCEPT ![n] = q]
  <2>1. flights' = [flights EXCEPT ![n].reply = a]
    BY <1>1, <1>2 DEF Answer
  <2> QED BY <1>0, <1>1, <1>4, <2>1 DEF LogTypes
<1>6. LogTypes'
  <2>1. flights' \in [Flights -> Request \cup {None}]
    BY <1>0, <1>5 DEF LogTypes
  <2> QED BY <1>0, <1>3, <2>1 DEF LogTypes, page
<1>7. Fine(log', q)
  <2>1. q.full = r.full /\ q.after = r.after /\ q.filter = r.filter /\ q.reply = a
    BY <1>4 DEF Request
  <2>2. Fine(log, q)
    BY <1>1, <1>2, <2>1 DEF Fine, Accounted
  <2> QED BY <1>0, <1>3, <2>2, FineStays DEF LogTypes
<1>8. Answers'
  <2>1. ASSUME NEW m \in Flights, flights'[m] # None PROVE Fine(log', flights'[m])
    <3>1. CASE m = n
      BY <1>0, <1>5, <1>7, <3>1 DEF LogTypes
    <3>2. CASE m # n
      <4>1. flights'[m] = flights[m] /\ flights[m] \in Request /\ Fine(log, flights[m])
        BY <1>0, <1>5, <2>1, <3>2 DEF LogTypes, Answers
      <4> QED BY <1>0, <1>3, <4>1, FineStays DEF LogTypes
    <3> QED BY <3>1, <3>2
  <2> QED BY <2>1 DEF Answers
<1>9. (torn \/ Follows)'
  <2>1. torn' = torn
    BY <1>0 DEF page
  <2>2. torn \/ Follows
    BY DEF PageInv
  <2> QED BY <1>0, <1>3, <2>1, <2>2, FollowsStays
<1> QED
  BY <1>3, <1>6, <1>8, <1>9 DEF PageInv

LEMMA RestartKept == ASSUME PageInv, RestartLog PROVE PageInv'
<1>1. LogTypes'
  BY DEF PageInv, RestartLog, LogTypes
<1>2. LastLines'
  <2>1. newest' = 0 /\ lines' = <<>>
    BY DEF RestartLog
  <2>2. Gone' = 0 - Len(<<>>) /\ Len(<<>>) = 0
    BY <2>1 DEF Gone
  <2> QED BY <2>1, <2>2 DEF LastLines
<1>3. Answers'
  BY DEF RestartLog, Answers
<1> QED
  BY <1>1, <1>2, <1>3 DEF PageInv, RestartLog

(* What the page follows does not change with what is under way.           *)
LEMMA PageStays ==
  ASSUME PageInv, UNCHANGED server, UNCHANGED <<shown, lastMaxId, since, filter, torn>>, form' \in Filters,
         NEW n \in Flights, NEW r \in Request \cup {None}, r # None => Fine(log, r),
         flights' = [flights EXCEPT ![n] = r]
  PROVE  PageInv'
<1>0. LogTypes /\ LastLines /\ Answers /\ (torn \/ Follows)
  BY DEF PageInv
<1>1. LogTypes'
  BY <1>0 DEF LogTypes, server
<1>2. LastLines'
  BY <1>0 DEF LastLines, Gone, server
<1>3. Answers'
  BY <1>0 DEF Answers, LogTypes, server
<1>4. (torn \/ Follows)'
  BY <1>0 DEF Follows, Upto, server
<1> QED
  BY <1>1, <1>2, <1>3, <1>4 DEF PageInv

LEMMA SendKept == ASSUME PageInv, LoadFull \/ Poll PROVE PageInv'
<1>1. PICK full \in BOOLEAN, after \in Nat : Send(full, after) /\ (full => after = 0)
  <2>1. lastMaxId \in Nat
    BY DEF PageInv, LogTypes
  <2>2. CASE LoadFull
    BY <2>2 DEF LoadFull
  <2>3. CASE Poll
    BY <2>1, <2>3 DEF Poll
  <2> QED BY <2>2, <2>3
<1>2. UNCHANGED <<server, page>>
  BY DEF LoadFull, Poll
<1>3. form \in Filters
  BY DEF PageInv, LogTypes
<1> DEFINE n == CHOOSE n \in Free : TRUE
           r == [full |-> full, after |-> after, filter |-> form, reply |-> None]
<1>4. n \in Flights /\ flights' = [flights EXCEPT ![n] = r]
  BY <1>1 DEF Send, Free
<1>5. r \in Request /\ Fine(log, r)
  BY <1>1, <1>3 DEF Request, Fine
<1> HIDE DEF n, r
<1> QED
  BY <1>2, <1>3, <1>4, <1>5, PageStays DEF page

LEMMA DoneKept ==
  ASSUME PageInv, NEW n \in Flights, FetchFails(n)
  PROVE  PageInv'
<1>1. flights' = [flights EXCEPT ![n] = None] /\ UNCHANGED <<server, page>>
  BY DEF FetchFails, Done
<1>2. form \in Filters
  BY DEF PageInv, LogTypes
<1> QED
  BY <1>1, <1>2, PageStays DEF page

LEMMA TypeKept == ASSUME PageInv, TypeFilter PROVE PageInv'
<1>1. LogTypes /\ LastLines /\ Answers /\ (torn \/ Follows)
  BY DEF PageInv
<1>2. LogTypes'
  BY <1>1 DEF LogTypes, server, TypeFilter
<1>3. LastLines' /\ Answers' /\ (torn \/ Follows)'
  BY <1>1 DEF TypeFilter, server, LastLines, Gone, Answers, Follows, Upto
<1> QED
  BY <1>2, <1>3 DEF PageInv

(* An answer is taken, and the page changes to what it makes of it.        *)
LEMMA Taken ==
  ASSUME PageInv, NEW n \in Flights, Answered(n), Done(n), UNCHANGED <<server, form>>,
         lastMaxId' \in Nat, since' \in Nat \ {0}, (torn \/ Follows)'
  PROVE  PageInv'
<1>0. LogTypes /\ LastLines /\ Answers
  BY DEF PageInv
<1>1. LogTypes'
  BY <1>0 DEF LogTypes, server, Done
<1>2. LastLines'
  BY <1>0 DEF LastLines, Gone, server
<1>3. Answers'
  BY <1>0 DEF Answers, LogTypes, server, Done
<1> QED
  BY <1>1, <1>2, <1>3 DEF PageInv

LEMMA AnswerIs ==
  ASSUME PageInv, NEW n \in Flights, Answered(n)
  PROVE  /\ flights[n] \in Request /\ flights[n].reply \in AnswerRecord
         /\ Accounted(log, flights[n], flights[n].reply)
BY DEF PageInv, LogTypes, Answered, Request, Answers, Fine

LEMMA SeqOver ==
  ASSUME NEW S, NEW T, NEW s \in Seq(S), \A i \in 1 .. Len(s) : s[i] \in T
  PROVE  s \in Seq(T)
<1>1. Len(s) \in Nat /\ s \in [1 .. Len(s) -> T]
  OBVIOUS
<1> QED
  BY <1>1

(* The ids of an answer that is whole are lines of the log.                *)
LEMMA WholeIds ==
  ASSUME LogTypes, NEW r \in Request, NEW a \in AnswerRecord, Accounted(log, r, a), a.whole
  PROVE  /\ a.ids \in Seq(1 .. newest) /\ Range(a.ids) = Between(log, a.from, a.max, r.filter)
         /\ Ascending(a.ids) /\ a.max \in Nat /\ a.max <= newest /\ a.from \in Nat \ {0}
         /\ newest \in Nat
<1>1. /\ a.ids \in Seq(Nat) /\ Range(a.ids) = Between(log, a.from, a.max, r.filter)
      /\ Ascending(a.ids) /\ a.max \in Nat /\ a.max <= newest /\ a.from \in Nat \ {0}
      /\ newest \in Nat
  BY DEF LogTypes, Accounted, AnswerRecord
<1>2. \A id \in Range(a.ids) : id \in 1 .. newest
  BY <1>1 DEF Between
<1>3. DOMAIN a.ids = 1 .. Len(a.ids) /\ Len(a.ids) \in Nat
  BY <1>1
<1>4. \A i \in 1 .. Len(a.ids) : a.ids[i] \in 1 .. newest
  BY <1>2, <1>3 DEF Range
<1>5. a.ids \in Seq(1 .. newest)
  BY <1>1, <1>4, SeqOver
<1> QED
  BY <1>1, <1>5

LEMMA FullKept == ASSUME PageInv, NEW n \in Flights, ApplyFull(n) PROVE PageInv'
<1>0. LogTypes /\ Answered(n) /\ Done(n) /\ UNCHANGED <<server, form>>
  BY DEF PageInv, ApplyFull
<1>1. PICK r \in Request, a \in AnswerRecord :
        r = flights[n] /\ a = flights[n].reply /\ Accounted(log, r, a) /\ r.full
  BY <1>0, AnswerIs DEF ApplyFull
<1>2. /\ shown' = a.ids /\ lastMaxId' = a.max /\ since' = a.from /\ filter' = r.filter
      /\ log' = log /\ newest' = newest
  BY <1>1 DEF ApplyFull, server
<1>3. /\ a.ids \in Seq(1 .. newest) /\ Range(a.ids) = Between(log, a.from, a.max, r.filter)
      /\ Ascending(a.ids) /\ a.max \in Nat /\ a.max <= newest /\ a.from \in Nat \ {0}
      /\ newest \in Nat
  BY <1>0, <1>1, WholeIds DEF Accounted
<1>4. Upto' = a.max
  <2>1. Upto' = IF a.ids = <<>> \/ Last(a.ids) < a.max THEN a.max ELSE Last(a.ids)
    BY <1>2 DEF Upto
  <2>2. 1 .. newest \subseteq Nat
    BY <1>3
  <2>3. /\ Upto' \in Nat /\ a.max <= Upto' /\ (Upto' = a.max \/ Upto' \in Range(a.ids))
    BY <1>3, <2>1, <2>2, UptoIs, SeqMonotonic
  <2>4. Upto' \in Range(a.ids) => Upto' <= a.max
    BY <1>3 DEF Between
  <2> QED BY <1>3, <2>3, <2>4
<1>5. Follows'
  <2>1. Range(shown)' = Between(log', since', Upto', filter')
    BY <1>2, <1>3, <1>4
  <2>2. shown' \in Seq(1 .. newest') /\ Ascending(shown)' /\ lastMaxId' <= newest'
    BY <1>2, <1>3 DEF Ascending
  <2> QED BY <2>1, <2>2 DEF Follows
<1> QED
  BY <1>0, <1>2, <1>3, <1>5, Taken

LEMMA ClearKept == ASSUME PageInv, ClearView PROVE PageInv'
<1>0. LogTypes /\ LastLines /\ Answers /\ (torn \/ Follows)
  BY DEF PageInv
<1>1. LogTypes'
  BY <1>0 DEF LogTypes, ClearView, server
<1>2. LastLines' /\ Answers'
  BY <1>0 DEF ClearView, server, LastLines, Gone, Answers
<1>3. Follows'
  <2>1. shown' = <<>> /\ lastMaxId' = 0 /\ since' \in Nat \ {0} /\ newest' \in Nat /\ Upto' = 0
    BY <1>0 DEF ClearView, LogTypes, server, Upto
  <2>2. Between(log', since', 0, filter') = {} /\ Range(<<>>) = {}
    BY <2>1 DEF Between, Range
  <2>3. shown' \in Seq(1 .. newest') /\ Ascending(shown)' /\ lastMaxId' <= newest'
    BY <2>1 DEF Ascending
  <2>4. Range(shown)' = Between(log', since', Upto', filter')
    BY <2>1, <2>2 DEF Range
  <2> QED BY <2>3, <2>4 DEF Follows
<1> QED
  BY <1>1, <1>2, <1>3 DEF PageInv

LEMMA OthersIs ==
  ASSUME NEW m \in Nat, NEW ids \in Seq(1 .. m), Ascending(ids), NEW T,
         NEW new, new = Selected(ids, Range(ids) \ T)
  PROVE  new \in Seq(1 .. m) /\ Ascending(new) /\ Range(new) = Range(ids) \ T
<1> DEFINE S == Range(ids) \ T
           R == {p \in (1 .. m) \X (1 .. m) : p[1] < p[2]}
<1>1. DOMAIN ids = 1 .. Len(ids) /\ \A i \in 1 .. Len(ids) : ids[i] \in 1 .. m
  OBVIOUS
<1>2. InOrder(ids, R)
  BY <1>1 DEF InOrder, Ascending
<1>3. new \in Seq(1 .. m) /\ IsSelected(ids, S, new, Len(ids)) /\ InOrder(new, R)
  <2> HIDE DEF S, R
  <2>1. new = Selected(ids, S)
    BY DEF S
  <2> QED BY <1>2, <2>1, SelectedIs
<1>4. Ascending(new)
  BY <1>3 DEF InOrder, Ascending
<1>5. DOMAIN new = 1 .. Len(new)
  BY <1>3
<1>6. \A i \in 1 .. Len(new) : new[i] \in S
  <2> HIDE DEF S
  <2> QED BY <1>3 DEF IsSelected
<1>7. \A k \in 1 .. Len(ids) : ids[k] \in S => \E i \in 1 .. Len(new) : new[i] = ids[k]
  <2> HIDE DEF S
  <2> QED BY <1>3 DEF IsSelected
<1>8. Range(new) \subseteq S
  BY <1>5, <1>6 DEF Range
<1>9. ASSUME NEW id \in S PROVE id \in Range(new)
  <2>1. PICK k \in 1 .. Len(ids) : ids[k] = id
    BY <1>1 DEF Range
  <2>2. PICK i \in 1 .. Len(new) : new[i] = id
    <3> HIDE DEF S
    <3> QED BY <1>7, <1>9, <2>1
  <2> QED BY <1>5, <2>2 DEF Range
<1> QED
  BY <1>3, <1>4, <1>8, <1>9

LEMMA JoinedIs ==
  ASSUME NEW m \in Nat, NEW s \in Seq(1 .. m), NEW t \in Seq(1 .. m), Ascending(s), Ascending(t),
         \A x \in Range(s), y \in Range(t) : x < y
  PROVE  s \o t \in Seq(1 .. m) /\ Ascending(s \o t) /\ Range(s \o t) = Range(s) \cup Range(t)
<1> DEFINE all == s \o t
<1>1. /\ all \in Seq(1 .. m) /\ Len(all) = Len(s) + Len(t) /\ DOMAIN all = 1 .. Len(all)
      /\ Len(s) \in Nat /\ Len(t) \in Nat /\ DOMAIN s = 1 .. Len(s) /\ DOMAIN t = 1 .. Len(t)
      /\ \A i \in 1 .. Len(s) + Len(t) : all[i] = IF i <= Len(s) THEN s[i] ELSE t[i - Len(s)]
  BY ConcatProperties
<1> HIDE DEF all
<1>2. ASSUME NEW i \in 1 .. Len(all)
      PROVE  /\ i <= Len(s) => i \in 1 .. Len(s) /\ all[i] = s[i]
             /\ i > Len(s) => i - Len(s) \in 1 .. Len(t) /\ all[i] = t[i - Len(s)]
  BY <1>1
<1>3. ASSUME NEW i \in 1 .. Len(all)
      PROVE  (i <= Len(s) => all[i] \in Range(s)) /\ (i > Len(s) => all[i] \in Range(t))
  BY <1>1, <1>2 DEF Range
<1>4. Ascending(all)
  <2> SUFFICES ASSUME NEW i \in 1 .. Len(all), NEW k \in 1 .. Len(all), i < k PROVE all[i] < all[k]
    BY DEF Ascending
  <2>0. i \in Nat /\ k \in Nat
    BY <1>1
  <2>1. CASE k <= Len(s)
    <3>1. i <= Len(s)
      BY <1>1, <2>0, <2>1
    <3> QED BY <1>2, <2>1, <3>1 DEF Ascending
  <2>2. CASE i <= Len(s) /\ k > Len(s)
    BY <1>3, <2>2
  <2>3. CASE i > Len(s)
    <3>1. k > Len(s) /\ i - Len(s) < k - Len(s)
      BY <1>1, <2>0, <2>3
    <3> QED BY <1>2, <2>3, <3>1 DEF Ascending
  <2> QED BY <1>1, <2>0, <2>1, <2>2, <2>3
<1>5. Range(all) \subseteq Range(s) \cup Range(t) /\ Range(s) \subseteq Range(all)
  <2>1. ASSUME NEW i \in 1 .. Len(all) PROVE all[i] \in Range(s) \cup Range(t)
    BY <1>1, <1>3
  <2>2. ASSUME NEW i \in 1 .. Len(s) PROVE i \in 1 .. Len(all) /\ all[i] = s[i]
    BY <1>1, <1>2
  <2> QED BY <1>1, <2>1, <2>2 DEF Range
<1>6. ASSUME NEW i \in 1 .. Len(t) PROVE t[i] \in Range(all)
  <2>1. Len(s) + i \in 1 .. Len(all) /\ Len(s) + i > Len(s) /\ Len(s) + i - Len(s) = i
    BY <1>1
  <2>2. all[Len(s) + i] = t[i]
    <3>1. all[Len(s) + i] = t[Len(s) + i - Len(s)]
      BY <1>2, <2>1
    <3> QED BY <2>1, <3>1
  <2> QED BY <1>1, <2>1, <2>2 DEF Range
<1>7. Range(t) \subseteq Range(all)
  BY <1>1, <1>6 DEF Range
<1> QED
  BY <1>1, <1>4, <1>5, <1>7 DEF all

LEMMA TailKept == ASSUME PageInv, NEW n \in Flights, ApplyTail(n) PROVE PageInv'
<1>0. /\ LogTypes /\ Answered(n) /\ Done(n) /\ UNCHANGED <<server, form, filter>>
      /\ lastMaxId \in Nat /\ since \in Nat \ {0}
  BY DEF PageInv, ApplyTail, LogTypes
<1>1. PICK r \in Request, a \in AnswerRecord :
        r = flights[n] /\ a = flights[n].reply /\ Accounted(log, r, a)
  BY <1>0, AnswerIs
<1> DEFINE new == Selected(a.ids, Range(a.ids) \ Range(shown))
<1>2. /\ shown' = shown \o new /\ lastMaxId' = IF a.max = 0 THEN lastMaxId ELSE a.max
      /\ since' = IF Upto = 0 THEN a.from ELSE since
      /\ torn' = (torn \/ Gap(a, r.filter))
      /\ log' = log /\ newest' = newest /\ filter' = filter
  BY <1>0, <1>1 DEF ApplyTail, server
<1> HIDE DEF new
<1>3. lastMaxId' \in Nat /\ since' \in Nat \ {0}
  BY <1>0, <1>2 DEF AnswerRecord
<1>4. ASSUME ~ torn' PROVE Follows'
  <2>1. /\ Follows /\ a.whole /\ r.filter = filter
        /\ Upto > 0 => ~ (a.from > Upto + 1) /\ ~ (a.from < since)
    BY <1>2, <1>4 DEF PageInv, Gap
  <2>2. /\ a.ids \in Seq(1 .. newest) /\ Range(a.ids) = Between(log, a.from, a.max, filter)
        /\ Ascending(a.ids) /\ a.max \in Nat /\ a.max <= newest /\ a.from \in Nat \ {0}
        /\ newest \in Nat
    BY <1>0, <1>1, <2>1, WholeIds
  <2>3. /\ shown \in Seq(1 .. newest) /\ Ascending(shown) /\ lastMaxId <= newest
        /\ Range(shown) = Between(log, since, Upto, filter)
    BY <2>1 DEF Follows
  <2>4. /\ Upto \in Nat /\ Upto <= newest /\ lastMaxId <= Upto
        /\ \A id \in Range(shown) : id <= Upto
    BY <1>0, <2>1, FollowsUpto
  <2>5. /\ new \in Seq(1 .. newest) /\ Ascending(new) /\ Range(new) = Range(a.ids) \ Range(shown)
    <3>1. new = Selected(a.ids, Range(a.ids) \ Range(shown))
      BY DEF new
    <3>2. newest \in Nat /\ a.ids \in Seq(1 .. newest) /\ Ascending(a.ids)
      BY <2>2
    <3> QED BY <3>1, <3>2, OthersIs, Zenon
  <2>6. ASSUME NEW id \in Range(new) PROVE id > Upto /\ id \in Nat
    <3>1. id \in a.from .. a.max /\ Matches(log[id], filter) /\ ~ (id \in Between(log, since, Upto, filter))
      BY <2>2, <2>3, <2>5 DEF Between
    <3>2. ~ (id \in since .. Upto)
      BY <3>1 DEF Between
    <3>3. id \in Nat \ {0}
      BY <2>2, <3>1
    <3> QED BY <1>0, <2>1, <2>2, <2>4, <3>1, <3>2, <3>3
  <2>7. /\ shown' \in Seq(1 .. newest) /\ Ascending(shown') /\ Range(shown') = Range(shown) \cup Range(a.ids)
    <3>1. \A x \in Range(shown), y \in Range(new) : x < y
      <4>1. \A x \in Range(shown) : x \in Nat
        BY <1>0, <2>3, <2>4 DEF Between
      <4> QED BY <2>4, <2>6, <4>1
    <3>2. /\ shown \o new \in Seq(1 .. newest) /\ Ascending(shown \o new)
          /\ Range(shown \o new) = Range(shown) \cup Range(new)
      BY <2>2, <2>3, <2>5, <3>1, JoinedIs
    <3> QED BY <1>2, <2>5, <3>2
  <2>8. /\ Upto' \in Nat /\ lastMaxId' <= Upto' /\ (Upto' = lastMaxId' \/ Upto' \in Range(shown'))
        /\ \A id \in Range(shown') : id <= Upto'
    <3>1. shown' \in Seq(Nat)
      <4>1. 1 .. newest \subseteq Nat
        BY <2>2
      <4> QED BY <2>7, <4>1, SeqMonotonic
    <3>2. Upto' = IF shown' = <<>> \/ Last(shown') < lastMaxId' THEN lastMaxId' ELSE Last(shown')
      BY DEF Upto
    <3> QED BY <1>3, <2>7, <3>1, <3>2, UptoIs
  <2>9. lastMaxId' <= newest
    BY <1>2, <2>2, <2>3
  <2>10. Range(shown') = Between(log, since', Upto', filter)
    <3>1. \A id \in Range(a.ids) : id \in a.from .. a.max /\ Matches(log[id], filter)
      BY <2>2 DEF Between
    <3>2. \A id \in Range(shown) : id \in since .. Upto /\ Matches(log[id], filter)
      BY <2>3 DEF Between
    <3>3. CASE Upto = 0
      <4>1. Range(shown) = {} /\ lastMaxId = 0 /\ lastMaxId' = a.max /\ since' = a.from
        BY <1>0, <1>2, <2>2, <2>4, <3>2, <3>3
      <4>2. Upto' = a.max
        BY <2>2, <2>7, <2>8, <3>1, <4>1
      <4> QED BY <2>2, <2>7, <4>1, <4>2
    <3>4. CASE Upto > 0
      <4>1. since' = since /\ a.from <= Upto + 1 /\ since <= a.from
        BY <1>0, <1>2, <2>1, <2>2, <2>4, <3>4
      <4>2. ASSUME NEW id \in Range(shown') PROVE id \in Between(log, since', Upto', filter)
        <5>1. id \in Range(shown) \/ id \in Range(a.ids)
          BY <2>7
        <5>2. id <= Upto'
          BY <2>8
        <5>3. id \in Nat /\ since <= id /\ Matches(log[id], filter)
          BY <1>0, <2>2, <2>4, <3>1, <3>2, <4>1, <5>1
        <5> QED BY <1>0, <2>8, <4>1, <5>2, <5>3 DEF Between
      <4>3. ASSUME NEW id \in Between(log, since', Upto', filter) PROVE id \in Range(shown')
        <5>1. id \in since .. Upto' /\ Matches(log[id], filter) /\ id \in Nat
          BY <1>0, <2>8, <4>1 DEF Between
        <5>2. CASE id <= Upto
          <6>1. id \in Range(shown)
            BY <1>0, <2>3, <2>4, <5>1, <5>2 DEF Between
          <6> QED BY <2>7, <6>1
        <5>3. CASE id > Upto
          <6>1. Upto' <= a.max
            <7>1. Upto' > Upto
              BY <2>4, <2>8, <5>1, <5>3
            <7>2. CASE Upto' = lastMaxId'
              BY <1>0, <1>2, <2>2, <2>4, <7>1, <7>2
            <7>3. CASE Upto' \in Range(a.ids)
              BY <2>2, <3>1, <7>3
            <7>4. ~ (Upto' \in Range(shown))
              BY <2>4, <2>8, <7>1
            <7> QED BY <2>7, <2>8, <7>2, <7>3, <7>4
          <6>2. id \in a.from .. a.max
            BY <2>2, <2>4, <2>8, <4>1, <5>1, <5>3, <6>1
          <6>3. id \in Range(a.ids)
            BY <2>2, <5>1, <6>2 DEF Between
          <6> QED BY <2>7, <6>3
        <5> QED BY <2>4, <5>1, <5>2, <5>3
      <4> QED BY <4>2, <4>3
    <3> QED BY <2>4, <3>3, <3>4
  <2>11. Ascending(shown)' /\ Range(shown)' = Range(shown') /\ shown' \in Seq(1 .. newest')
    BY <1>2, <2>7 DEF Ascending
  <2> QED BY <1>2, <2>9, <2>10, <2>11 DEF Follows
<1> QED
  BY <1>0, <1>3, <1>4, Taken

LEMMA PageStarts == PageInit => PageInv
<1> SUFFICES ASSUME PageInit PROVE PageInv
  OBVIOUS
<1>1. LogTypes
  BY DEF PageInit, LogTypes, Filters
<1>2. LastLines
  <2>1. newest = 0 /\ lines = <<>>
    BY DEF PageInit
  <2>2. Gone = 0 - Len(<<>>) /\ Len(<<>>) = 0
    BY <2>1 DEF Gone
  <2> QED BY <2>1, <2>2 DEF LastLines
<1>3. Answers /\ torn
  BY DEF PageInit, Answers
<1> QED
  BY <1>1, <1>2, <1>3 DEF PageInv

LEMMA PageStepKept == PageInv /\ [PageNext]_logVars => PageInv'
<1> SUFFICES ASSUME PageInv, [PageNext]_logVars PROVE PageInv'
  OBVIOUS
<1>1. CASE UNCHANGED logVars
  BY <1>1 DEF PageInv, LogTypes, LastLines, Gone, Answers, Follows, Upto, logVars, server, page
<1>2. CASE PageNext
  BY <1>2, LineKept, RestartKept, SendKept, TypeKept, ClearKept, AnswerKept, DoneKept, FullKept,
     TailKept DEF PageNext
<1> QED
  BY <1>1, <1>2

(* The page has each matching line from the first it loaded up to where its *)
(* next poll starts, once and in order, unless a recorded gap came between. *)
THEOREM PageFollows == PageSpec => []PageFollowsLog
<1>1. PageInv => PageFollowsLog
  <2> SUFFICES ASSUME PageInv, ~ torn PROVE PageFollowsLog
    BY DEF PageFollowsLog
  <2>1. /\ Ascending(shown) /\ Range(shown) = Between(log, since, Upto, filter)
        /\ DOMAIN shown = 1 .. Len(shown)
    BY DEF PageInv, Follows
  <2> QED BY <2>1 DEF PageFollowsLog, Ascending, Between
<1> QED
  BY <1>1, PageStarts, PageStepKept, PTL DEF PageSpec
=============================================================================
