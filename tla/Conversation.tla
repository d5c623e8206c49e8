---------------------------- MODULE Conversation ----------------------------
(***************************************************************************)
(* The conversation memory and the AI sessions of reply chains: the rows    *)
(* that jobs of several projects write, each call a transaction under the   *)
(* lock of the store; a reply that looks for the root of its chain; the     *)
(* resume token of a runner; /clear memory beside running jobs; and the     *)
(* limits that evict the oldest rows of all projects.                      *)
(***************************************************************************)
EXTENDS Integers, FiniteSetsExt, SequencesExt, NoneValue, Subsequences

CONSTANTS
  ChatJobs,    \* jobs, each with a Telegram message of its user
  ProjectOf,   \* the project, and so the chat, of each job
  Fixes,       \* those that are fix jobs
  MaxDepth,    \* _REPLY_CHAIN_MAX_DEPTH, 32
  MaxRows,     \* conversation_memory_max_rows, or 0: no limit
  ByteLimit,   \* whether conversation_memory_max_bytes is set
  MaxClears,   \* bound: /clear memory of each project
  AtOnce       \* bound: jobs under way at the same time

ConversationAssumption ==
  /\ ChatJobs \subseteq Nat \ {0} /\ IsFiniteSet(ChatJobs) /\ Fixes \subseteq ChatJobs
  /\ MaxDepth \in Nat \ {0} /\ MaxRows \in Nat /\ ByteLimit \in BOOLEAN /\ MaxClears \in Nat
  /\ AtOnce \in Nat
  /\ None \notin ChatJobs

Projects == {ProjectOf[j] : j \in ChatJobs}

VARIABLES
  entries,   \* conversation_entries, oldest first
  sessions,  \* agent_sessions: id of the session of each root message
  tokens,    \* agent_session_runner_tokens: the run whose token a session has
  stage,     \* what the submission and the run of each job have done
  reply,     \* the message that the job's message replies to, or None
  chainRoot, \* the root that its thread resolved
  session,   \* JobRequest.session_id
  resume,    \* JobRequest.resume_session_token
  clears,    \* /clear memory of each project
  attached,  \* history: clears of the project when the job got its session
  partial    \* history: jobs that replied to what memory no longer or not yet held

tables == <<entries, sessions, tokens>>
prepared == <<chainRoot, session, resume, attached>>
talkVars == <<tables, stage, reply, prepared, clears, partial>>

(* user, accepted and result are messages on the screen, and roles of rows.  *)
Message(j, r) == [job |-> j, role |-> r]
Row(j, r, bound) == [job |-> j, role |-> r, bound |-> bound]
NoSession == 0

(* submit_natural, and submit_fix, which accepts its job after the run.     *)
Steps(j) == IF j \in Fixes
            THEN <<"new", "recorded", "rooted", "attached", "submitted", "ran",
                   "accepted", "saved", "done">>
            ELSE <<"new", "recorded", "rooted", "attached", "submitted", "bound", "accepted",
                   "ran", "saved", "done">>
Rank(j, at) == CHOOSE n \in DOMAIN Steps(j) : Steps(j)[n] = at
Reached(j, at) == Rank(j, stage[j]) >= Rank(j, at)
Moves(j, from) ==
  /\ stage[j] = from
  /\ stage' = [stage EXCEPT ![j] = Steps(j)[Rank(j, from) + 1]]

TalkInit ==
  /\ entries = <<>> /\ sessions = {} /\ tokens = {}
  /\ stage = [j \in ChatJobs |-> "new"] /\ reply = [j \in ChatJobs |-> None]
  /\ chainRoot = [j \in ChatJobs |-> None] /\ session = [j \in ChatJobs |-> NoSession]
  /\ resume = [j \in ChatJobs |-> None] /\ attached = [j \in ChatJobs |-> 0]
  /\ clears = [p \in Projects |-> 0] /\ partial = {}

-----------------------------------------------------------------------------
(* Rows.                                                                   *)

(* The oldest rows go, of whatever project.                                *)
EvictRows(s) ==
  IF MaxRows > 0 /\ Len(s) > MaxRows THEN SubSeq(s, Len(s) - MaxRows + 1, Len(s)) ELSE s

(* Batches of the oldest go until the file is small enough: any number.     *)
EvictBytes(s) ==
  IF ByteLimit THEN {SubSeq(s, n, Len(s)) : n \in 1 .. Len(s) + 1} ELSE {s}

Recorded(r) == entries' \in EvictBytes(EvictRows(Append(entries, r)))

(* The last row with a message; the first row of a user that a job bound.   *)
RowsOf(m) == {n \in DOMAIN entries : Message(entries[n].job, entries[n].role) = m}
HasUser(j) == RowsOf(Message(j, "user")) # {}
UserOf(j) ==
  IF \E n \in DOMAIN entries : entries[n].role = "user" /\ entries[n].bound = j THEN j ELSE None

-----------------------------------------------------------------------------
(* Roots.                                                                  *)

(* entries_newest_first: the oldest of at most `depth` user rows that reply   *)
(* to each other, from the row of j on.                                     *)
Oldest[j \in ChatJobs] ==
  [depth \in Nat |->
     LET up == reply[j] IN
     IF depth > 1 /\ up # None /\ up.role = "user" /\ HasUser(up.job)
     THEN Oldest[up.job][depth - 1] ELSE j]

(* A faulty variant: a message of the bot begins a chain of its own.        *)
StartOfUsers(m) == IF RowsOf(m) # {} /\ m.role = "user" THEN m.job ELSE None

(* The user's message that a chain is walked from: the one replied to, or    *)
(* that of the job that the replied row is about.                           *)
Start(m) == IF RowsOf(m) = {} THEN None
            ELSE IF m.role = "user" THEN m.job ELSE UserOf(m.job)

RootOf(j) ==
  IF reply[j] = None \/ Start(reply[j]) = None THEN j
  ELSE IF HasUser(Start(reply[j])) THEN Oldest[Start(reply[j])][MaxDepth] ELSE Start(reply[j])

-----------------------------------------------------------------------------
(* Sessions and tokens.                                                    *)

SessionsAt(p, r) == {x \in sessions : x.project = p /\ x.root = r}
Fresh == Max({0} \cup {x.id : x \in sessions} \cup {session[j] : j \in ChatJobs}) + 1

(* A faulty variant: the last run's token, of whatever session.              *)
LastToken(id) == IF tokens = {} THEN None ELSE Max({x.run : x \in tokens})

TokenOf(id) == LET t == {x \in tokens : x.session = id} IN
               IF t = {} THEN None ELSE (CHOOSE x \in t : TRUE).run

(* One transaction looks the session of the root up or creates it.          *)
Attach(j) ==
  /\ Moves(j, "rooted")
  /\ LET p == ProjectOf[j]
         have == SessionsAt(p, chainRoot[j])
     IN  IF have # {}
         THEN session' = [session EXCEPT ![j] = (CHOOSE x \in have : TRUE).id] /\ UNCHANGED sessions
         ELSE /\ session' = [session EXCEPT ![j] = Fresh]
              /\ sessions' = sessions \cup {[project |-> p, root |-> chainRoot[j], id |-> Fresh]}
  /\ attached' = [attached EXCEPT ![j] = clears[ProjectOf[j]]]
  /\ UNCHANGED <<entries, tokens, reply, chainRoot, resume, clears, partial>>

-----------------------------------------------------------------------------
(* A submission.                                                           *)

(* On the screen: messages of users, and those of jobs as they come.        *)
Visible(k) ==
  {Message(k, r) : r \in (IF Reached(k, "recorded") THEN {"user"} ELSE {})
                      \cup (IF Reached(k, "submitted") THEN {"accepted"} ELSE {})
                      \cup (IF Reached(k, "ran") THEN {"result"} ELSE {})}
Earlier(j) == {k \in ChatJobs : k < j /\ ProjectOf[k] = ProjectOf[j]}

(* The user's row, with the message it replies to; jobs are numbered as their *)
(* rows are written.                                                       *)
Record(j) ==
  /\ Moves(j, "new") /\ (\A k \in ChatJobs : k < j => stage[k] # "new") /\ Recorded(Row(j, "user", None))
  /\ Cardinality({k \in ChatJobs : stage[k] \notin {"new", "done"}}) < AtOnce
  /\ \E m \in {None} \cup UNION {Visible(k) : k \in Earlier(j)} : reply' = [reply EXCEPT ![j] = m]
  /\ UNCHANGED <<sessions, tokens, prepared, clears, partial>>

Ancestors[j \in ChatJobs] ==
  IF reply[j] = None THEN {} ELSE {reply[j].job} \cup Ancestors[reply[j].job]

(* The root is resolved before the lock is taken for the session.           *)
Resolve(j) ==
  /\ Moves(j, "recorded") /\ chainRoot' = [chainRoot EXCEPT ![j] = RootOf(j)]
  /\ partial' = IF reply[j] # None /\ (RowsOf(reply[j]) = {} \/ \E a \in Ancestors[j] : ~HasUser(a))
                THEN partial \cup {j} ELSE partial
  /\ UNCHANGED <<tables, reply, session, resume, attached, clears>>

(* The token of the provider, then the job is submitted. The jobs that a    *)
(* plan leads to take over its session and get the token here, too; they    *)
(* have no message of their own and are left out.                           *)
Submit(j) ==
  /\ Moves(j, "attached") /\ resume' = [resume EXCEPT ![j] = TokenOf(session[j])]
  /\ UNCHANGED <<tables, reply, chainRoot, session, attached, clears, partial>>

(* bind_user_message_job: the user's row names its job.                     *)
Bind(j) ==
  /\ Moves(j, "submitted") /\ j \notin Fixes
  /\ entries' = [n \in DOMAIN entries |->
       IF Message(entries[n].job, entries[n].role) = Message(j, "user")
       THEN [entries[n] EXCEPT !.bound = j] ELSE entries[n]]
  /\ UNCHANGED <<sessions, tokens, reply, prepared, clears, partial>>

Accept(j) ==
  /\ Moves(j, IF j \in Fixes THEN "ran" ELSE "bound") /\ Recorded(Row(j, "accepted", j))
  /\ UNCHANGED <<sessions, tokens, reply, prepared, clears, partial>>

RunAgent(j) ==
  /\ Moves(j, IF j \in Fixes THEN "submitted" ELSE "accepted")
  /\ UNCHANGED <<tables, reply, prepared, clears, partial>>

(* record_final_job_result: the token of the runner's session if it has one, *)
(* for the session of the request, whether memory still has that or not.    *)
SaveToken(j) ==
  /\ Moves(j, IF j \in Fixes THEN "accepted" ELSE "ran")
  /\ tokens' \in {tokens, {x \in tokens : x.session # session[j]}
                            \cup {[session |-> session[j], run |-> j]}}
  /\ UNCHANGED <<entries, sessions, reply, prepared, clears, partial>>

SaveResult(j) ==
  /\ Moves(j, "saved") /\ Recorded(Row(j, "result", j))
  /\ UNCHANGED <<sessions, tokens, reply, prepared, clears, partial>>

-----------------------------------------------------------------------------
(* The rows that a /clear of a project leaves.                             *)
RowsBeside(p) == {r \in Range(entries) : ProjectOf[r.job] # p}

(* A faulty variant: sessions stay when the rows go.                        *)
ClearRowsOnly(p) ==
  /\ clears[p] < MaxClears /\ clears' = [clears EXCEPT ![p] = @ + 1]
  /\ entries' = Selected(entries, RowsBeside(p))
  /\ UNCHANGED <<sessions, tokens, stage, reply, prepared, partial>>

(* delete_chat_memory: tokens of its sessions, sessions and rows, at once.   *)
Clear(p) ==
  /\ clears[p] < MaxClears /\ clears' = [clears EXCEPT ![p] = @ + 1]
  /\ LET gone == {x \in sessions : x.project = p}
     IN  /\ tokens' = {x \in tokens : \A y \in gone : x.session # y.id}
         /\ sessions' = sessions \ gone
  /\ entries' = Selected(entries, RowsBeside(p))
  /\ UNCHANGED <<stage, reply, prepared, partial>>

(* All jobs are recorded and the chats fall silent.                         *)
Quiet == (\A j \in ChatJobs : stage[j] = "done") /\ UNCHANGED talkVars

TalkNext ==
  \/ \E j \in ChatJobs : \/ Record(j) \/ Resolve(j) \/ Attach(j) \/ Submit(j) \/ Bind(j)
                     \/ Accept(j) \/ RunAgent(j) \/ SaveToken(j) \/ SaveResult(j)
  \/ \E p \in Projects : Clear(p)
  \/ Quiet

TalkSpec == TalkInit /\ [][TalkNext]_talkVars

-----------------------------------------------------------------------------
(* Properties.                                                              *)

HasSession(j) == Reached(j, "attached")

(* Jobs of a project share a session exactly when their chains have one root *)
(* and memory was not cleared between them, whatever replies, clears and     *)
(* evictions run beside each other.                                        *)
SessionIsItsRoot ==
  \A j, k \in {i \in ChatJobs : HasSession(i)} :
    (session[j] = session[k]) <=>
      /\ ProjectOf[j] = ProjectOf[k] /\ chainRoot[j] = chainRoot[k] /\ attached[j] = attached[k]

(* A runner resumes only what an earlier run left in the session of the job, *)
(* never a conversation that /clear memory removed, however late a run that  *)
(* it overtook saves its token.                                            *)
ResumesItsSession ==
  \A j \in ChatJobs : resume[j] # None =>
    session[resume[j]] = session[j] /\ attached[resume[j]] = attached[j]

(* A CLI session is one thread of the chat: shared by its jobs alone, and     *)
(* resumed by none but them.                                               *)
SessionsAreThreads == SessionIsItsRoot /\ ResumesItsSession

(* The number of user messages from j up to its root, if all reply to each    *)
(* other, and memory held them when they were asked about.                  *)
UserChain[j \in ChatJobs] ==
  IF j \in partial THEN MaxDepth + 1
  ELSE IF reply[j] = None THEN 1
  ELSE IF reply[j].role = "user" THEN 1 + UserChain[reply[j].job] ELSE MaxDepth + 1

(* A reply to a job, by its user's message or by one of its own, continues    *)
(* its session if that job is no fix, replies to no bot's message, and is at  *)
(* most MaxDepth deep.                                                     *)
ReplyFollowsUsers ==
  \A j \in {i \in ChatJobs : HasSession(i) /\ reply[i] # None /\ i \notin partial} :
    LET up == reply[j].job IN
    /\ HasSession(up) /\ attached[up] = attached[j] /\ UserChain[up] <= MaxDepth
    /\ up \in Fixes => reply[j].role = "user"
    => session[j] = session[up]

(* README: reply-linked jobs continue the same session.  Here nothing is     *)
(* cleared or evicted, and the job replied to has ended.                    *)
ReplyContinuesSession ==
  \A j \in {i \in ChatJobs : HasSession(i) /\ reply[i] # None /\ i \notin partial} :
    stage[reply[j].job] = "done" => session[j] = session[reply[j].job]
=============================================================================
