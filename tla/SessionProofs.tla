---------------------------- MODULE SessionProofs ----------------------------
(***************************************************************************)
(* Who shares an AI session, for any number of jobs, projects, clears and  *)
(* evictions, any replies and whatever roots they resolve to.              *)
(*                                                                         *)
(* A row of agent_sessions belongs to the jobs that got it since memory was *)
(* last cleared (RowOfJob, JobsOfRow), there is one for each root (OneRow), *)
(* and an id is never given twice although its row may be gone (Fresh is   *)
(* above every id that a job still has).  A token is stored for the session *)
(* of the run that left it (TokensFollow), so one that comes after a /clear *)
(* is found by nobody else.                                                *)
(*                                                                         *)
(* The second part follows a chain of replies: the root of a job is the oldest *)
(* user's message of its chain (RootsOfReplies), for a bot's row names a job *)
(* whose user's row is bound to it, if memory still has that (RowsOK), and *)
(* what a message replies to was recorded before it (RepliesBack).         *)
(*                                                                         *)
(* The third part is about a session of the runner of local models.        *)
(***************************************************************************)
EXTENDS Conversation, Ollama, SubsequenceProofs

USE DEF talkVars, tables, prepared, ollamaVars

Before == {"new", "recorded", "rooted"}
Stages ==
  Before \cup {"attached", "submitted", "bound", "accepted", "ran", "saved", "done"}
Settled(j) == stage[j] \notin Before
RowFor(j) == [project |-> ProjectOf[j], root |-> chainRoot[j], id |-> session[j]]

Types ==
  /\ stage \in [ChatJobs -> Stages]
  /\ DOMAIN chainRoot = ChatJobs
  /\ session \in [ChatJobs -> Nat] /\ attached \in [ChatJobs -> Nat]
  /\ clears \in [Projects -> Nat]
  /\ resume \in [ChatJobs -> ChatJobs \cup {None}]
  /\ IsFiniteSet(sessions)
  /\ \A x \in sessions :
       /\ x.id \in Nat \ {0}
       /\ x = [project |-> x.project, root |-> x.root, id |-> x.id]

(* Every row has an id of its own, and a root.                             *)
OneRow ==
  \A x, y \in sessions : x.id = y.id \/ (x.project = y.project /\ x.root = y.root) => x = y

(* A job that got its session since memory was cleared finds its row ...   *)
RowOfJob ==
  \A j \in ChatJobs : Settled(j) =>
    /\ session[j] # NoSession /\ attached[j] <= clears[ProjectOf[j]]
    /\ attached[j] = clears[ProjectOf[j]] => RowFor(j) \in sessions

(* ... and a row that has the session of a job is that row.                *)
JobsOfRow ==
  \A j \in ChatJobs, x \in sessions : Settled(j) /\ x.id = session[j] =>
    x = RowFor(j) /\ attached[j] = clears[ProjectOf[j]]

Threads ==
  \A j, k \in ChatJobs : Settled(j) /\ Settled(k) =>
    (session[j] = session[k] <=>
       ProjectOf[j] = ProjectOf[k] /\ chainRoot[j] = chainRoot[k] /\ attached[j] = attached[k])

TokensFollow ==
  \A x \in tokens : x.run \in ChatJobs /\ Settled(x.run) /\ x.session = session[x.run]

ResumesFollow ==
  \A j \in ChatJobs : resume[j] # None =>
    Settled(j) /\ Settled(resume[j]) /\ session[resume[j]] = session[j]

Inv ==
  /\ Types /\ OneRow /\ RowOfJob /\ JobsOfRow /\ Threads /\ TokensFollow /\ ResumesFollow

-----------------------------------------------------------------------------
(* The stages.                                                             *)

LEMMA AttachedIsSettled ==
  ASSUME Types, NEW j \in ChatJobs, HasSession(j) PROVE Settled(j)
<1>1. Rank(j, "new") = 1 /\ Rank(j, "recorded") = 2 /\ Rank(j, "rooted") = 3 /\ Rank(j, "attached") = 4
  BY DEF Rank, Steps
<1>2. QED
  BY <1>1 DEF HasSession, Reached, Settled, Before, Types

Late(j) == IF j \in Fixes THEN {"attached", "submitted", "ran", "accepted", "saved"}
           ELSE {"attached", "submitted", "bound", "accepted", "ran", "saved"}

LEMMA NextStage ==
  ASSUME NEW j \in ChatJobs
  PROVE  /\ Steps(j)[Rank(j, "new") + 1] = "recorded"
         /\ Steps(j)[Rank(j, "recorded") + 1] = "rooted"
         /\ Steps(j)[Rank(j, "rooted") + 1] = "attached"
         /\ \A from \in Late(j) : Steps(j)[Rank(j, from) + 1] \in Stages \ Before
<1>1. Rank(j, "new") = 1 /\ Rank(j, "recorded") = 2 /\ Rank(j, "rooted") = 3 /\ Rank(j, "attached") = 4
      /\ Rank(j, "submitted") = 5
  BY DEF Rank, Steps
<1>2. CASE j \in Fixes
  <2>1. Rank(j, "ran") = 6 /\ Rank(j, "accepted") = 7 /\ Rank(j, "saved") = 8
    BY <1>2 DEF Rank, Steps
  <2>2. QED
    BY <1>1, <1>2, <2>1 DEF Steps, Late, Stages, Before
<1>3. CASE j \notin Fixes
  <2>1. Rank(j, "bound") = 6 /\ Rank(j, "accepted") = 7 /\ Rank(j, "ran") = 8 /\ Rank(j, "saved") = 9
    BY <1>3 DEF Rank, Steps
  <2>2. QED
    BY <1>1, <1>3, <2>1 DEF Steps, Late, Stages, Before
<1>4. QED
  BY <1>2, <1>3

(* A job that settles stays settled, and nobody else is touched.           *)
LEMMA Progress ==
  ASSUME Types, NEW j \in ChatJobs
  PROVE  /\ \A from \in {"new", "recorded"} : Moves(j, from) =>
              stage' \in [ChatJobs -> Stages] /\ \A k \in ChatJobs : Settled(k)' = Settled(k)
         /\ \A from \in Late(j) : Moves(j, from) =>
              stage' \in [ChatJobs -> Stages] /\ Settled(j) /\ \A k \in ChatJobs : Settled(k)' = Settled(k)
         /\ Moves(j, "rooted") =>
              /\ stage' \in [ChatJobs -> Stages] /\ ~Settled(j) /\ Settled(j)'
              /\ \A k \in ChatJobs \ {j} : Settled(k)' = Settled(k)
<1>1. ASSUME NEW from \in {"new", "recorded", "rooted"} \cup Late(j), Moves(j, from)
      PROVE  /\ stage[j] = from /\ stage' = [stage EXCEPT ![j] = Steps(j)[Rank(j, from) + 1]]
             /\ Steps(j)[Rank(j, from) + 1] \in Stages
             /\ Steps(j)[Rank(j, from) + 1] \in Before <=> from \in {"new", "recorded"}
  BY <1>1, NextStage DEF Moves, Stages, Before, Late
<1>2. ASSUME NEW from \in {"new", "recorded", "rooted"} \cup Late(j), Moves(j, from)
      PROVE  /\ stage' \in [ChatJobs -> Stages] /\ stage[j] = from
             /\ \A k \in ChatJobs \ {j} : Settled(k)' = Settled(k)
             /\ Settled(j)' <=> from \notin {"new", "recorded"}
             /\ Settled(j) <=> from \in Late(j)
  <2>1. Settled(j) <=> from \in Late(j)
    BY <1>1, <1>2 DEF Settled, Before, Late
  <2>2. QED
    BY <1>1, <1>2, <2>1 DEF Types, Settled
<1>3. ASSUME NEW from \in {"new", "recorded"}, Moves(j, from)
      PROVE  stage' \in [ChatJobs -> Stages] /\ \A k \in ChatJobs : Settled(k)' = Settled(k)
  <2>1. from \notin Late(j)
    BY DEF Late
  <2>2. QED
    BY <1>2, <1>3, <2>1 DEF Settled
<1>4. ASSUME NEW from \in Late(j), Moves(j, from)
      PROVE  stage' \in [ChatJobs -> Stages] /\ Settled(j) /\ \A k \in ChatJobs : Settled(k)' = Settled(k)
  <2>1. from \notin {"new", "recorded"}
    BY DEF Late
  <2>2. QED
    BY <1>2, <1>4, <2>1 DEF Settled
<1>5. ASSUME Moves(j, "rooted")
      PROVE  /\ stage' \in [ChatJobs -> Stages] /\ ~Settled(j) /\ Settled(j)'
             /\ \A k \in ChatJobs \ {j} : Settled(k)' = Settled(k)
  <2>1. "rooted" \notin Late(j)
    BY DEF Late
  <2>2. QED
    BY <1>2, <1>5, <2>1
<1>6. QED
  BY <1>3, <1>4, <1>5

-----------------------------------------------------------------------------
(* Ids.                                                                    *)

(* A finite set of numbers has a greatest: among the sets of those above one *)
(* of them there is a least.                                               *)
LEMMA Greatest ==
  ASSUME NEW S \in SUBSET Nat, IsFiniteSet(S), S # {}
  PROVE  Max(S) \in S /\ \A y \in S : y <= Max(S)
<1> DEFINE Above(x) == {y \in S : y > x}
           Aboves == {Above(x) : x \in S}
<1>1. IsWellFoundedOn(StrictSubsetOrdering(Nat), FiniteSubsetsOf(Nat))
  BY FS_StrictSubsetOrderingWellFounded
<1>2. Aboves \subseteq FiniteSubsetsOf(Nat) /\ Aboves # {}
  <2>1. \A x \in S : Above(x) \in SUBSET Nat /\ IsFiniteSet(Above(x))
    BY FS_Subset
  <2>2. QED
    BY <2>1 DEF FiniteSubsetsOf
<1>3. PICK T \in Aboves : \A U \in Aboves : ~(<<U, T>> \in StrictSubsetOrdering(Nat))
  <2> HIDE DEF Aboves
  <2> QED BY <1>1, <1>2, WFMin
<1>4. PICK x \in S : T = Above(x)
  OBVIOUS
<1>5. ASSUME NEW y \in S, y > x PROVE FALSE
  <2>1. Above(y) \in Aboves /\ Above(y) \in SUBSET Nat /\ Above(x) \in SUBSET Nat
    OBVIOUS
  <2>2. Above(y) \subseteq Above(x) /\ y \in Above(x) /\ y \notin Above(y)
    <3>1. \A z \in S : z > y => z > x
      BY <1>5
    <3>2. ~(y > y)
      OBVIOUS
    <3>3. QED
      BY <1>5, <3>1, <3>2
  <2>3. <<Above(y), Above(x)>> \in StrictSubsetOrdering(Nat)
    BY <2>1, <2>2 DEF StrictSubsetOrdering
  <2>4. QED
    BY <1>3, <1>4, <2>1, <2>3
<1>6. x \in S /\ \A y \in S : x >= y
  BY <1>5
<1>7. QED
  BY <1>6 DEF Max

(* The id of a new session is nobody's, also not of a session that is gone. *)
LEMMA FreshIsNew ==
  ASSUME ConversationAssumption, Types
  PROVE  /\ Fresh \in Nat \ {0}
         /\ \A x \in sessions : x.id # Fresh
         /\ \A j \in ChatJobs : session[j] # Fresh
<1> DEFINE Ids == {x.id : x \in sessions}
           Had == {session[j] : j \in ChatJobs}
           S == {0} \cup Ids \cup Had
<1>1. IsFiniteSet(Ids) /\ IsFiniteSet(Had)
  <2> DEFINE idOf == [x \in sessions |-> x.id]
  <2>1. idOf \in Surjection(sessions, Ids) /\ session \in Surjection(ChatJobs, Had)
    BY DEF Surjection, Types
  <2>2. IsFiniteSet(sessions) /\ IsFiniteSet(ChatJobs)
    BY DEF Types, ConversationAssumption
  <2> HIDE DEF idOf, Ids, Had
  <2>3. QED
    BY <2>1, <2>2, FS_Surjection
<1>2. IsFiniteSet(S) /\ S \in SUBSET Nat /\ S # {}
  <2>1. IsFiniteSet({0})
    BY FS_Singleton
  <2>2. S \in SUBSET Nat
    BY DEF Types
  <2> HIDE DEF Ids, Had
  <2>3. QED
    BY <1>1, <2>1, <2>2, FS_Union
<1>3. Max(S) \in S /\ \A y \in S : y <= Max(S)
  <2> HIDE DEF S
  <2> QED BY <1>2, Greatest
<1>4. Fresh = Max(S) + 1
  BY DEF Fresh
<1>5. \A y \in S : y \in Nat
  BY <1>2
<1>6. QED
  <2>1. \A y \in S : y # Fresh
    <3> HIDE DEF S
    <3> QED BY <1>3, <1>4, <1>5
  <2>2. Fresh \in Nat \ {0}
    <3> HIDE DEF S
    <3> QED BY <1>3, <1>4, <1>5
  <2>3. QED
    BY <2>1, <2>2

-----------------------------------------------------------------------------
(* The steps.                                                              *)

(* A step that gives no session and no token, and resolves no root of a job *)
(* that has its session.                                                   *)
LEMMA UnrelatedIsSafe ==
  ASSUME Inv, UNCHANGED <<sessions, session, attached, clears, resume>>, stage' \in [ChatJobs -> Stages],
         \A k \in ChatJobs : Settled(k)' = Settled(k),
         DOMAIN chainRoot' = ChatJobs, \A k \in ChatJobs : Settled(k) => chainRoot'[k] = chainRoot[k],
         \A x \in tokens' : x \in tokens \/ (x.run \in ChatJobs /\ Settled(x.run) /\ x.session = session[x.run])
  PROVE  Inv'
<1>1. Types' /\ OneRow'
  BY DEF Inv, Types, OneRow
<1>2. \A k \in ChatJobs : Settled(k) => RowFor(k)' = RowFor(k)
  BY DEF RowFor
<1>3. RowOfJob' /\ JobsOfRow'
  BY <1>2 DEF Inv, RowOfJob, JobsOfRow
<1>4. Threads' /\ ResumesFollow'
  BY DEF Inv, Types, Threads, ResumesFollow
<1>5. TokensFollow'
  BY DEF Inv, TokensFollow
<1>6. QED
  BY <1>1, <1>3, <1>4, <1>5 DEF Inv

LEMMA LateStepSafe ==
  ASSUME Inv, NEW j \in ChatJobs, NEW from \in Late(j), Moves(j, from),
         UNCHANGED <<sessions, session, attached, clears, resume, chainRoot>>,
         \A x \in tokens' : x \in tokens \/ x = [session |-> session[j], run |-> j]
  PROVE  Inv'
<1>1. stage' \in [ChatJobs -> Stages] /\ Settled(j) /\ \A k \in ChatJobs : Settled(k)' = Settled(k)
  BY Progress DEF Inv
<1>2. \A x \in tokens' : x \in tokens \/ (x.run \in ChatJobs /\ Settled(x.run) /\ x.session = session[x.run])
  BY <1>1
<1>3. DOMAIN chainRoot' = ChatJobs
  BY DEF Inv, Types
<1>4. QED
  BY <1>1, <1>2, <1>3, UnrelatedIsSafe

LEMMA RecordSafe == ASSUME Inv, NEW j \in ChatJobs, Record(j) PROVE Inv'
<1>1. stage' \in [ChatJobs -> Stages] /\ \A k \in ChatJobs : Settled(k)' = Settled(k)
  BY Progress DEF Record, Inv
<1>2. UNCHANGED <<sessions, tokens, chainRoot, session, resume, attached, clears>>
  BY DEF Record
<1>3. QED
  BY <1>1, <1>2, UnrelatedIsSafe DEF Inv, Types

LEMMA ResolveSafe == ASSUME Inv, NEW j \in ChatJobs, Resolve(j) PROVE Inv'
<1>1. Moves(j, "recorded") /\ UNCHANGED <<sessions, tokens, session, resume, attached, clears>>
      /\ chainRoot' = [chainRoot EXCEPT ![j] = RootOf(j)]
  BY DEF Resolve
<1>2. stage' \in [ChatJobs -> Stages] /\ \A k \in ChatJobs : Settled(k)' = Settled(k)
  BY <1>1, Progress DEF Inv
<1>3. ~Settled(j)
  BY <1>1 DEF Moves, Settled, Before
<1>4. DOMAIN chainRoot' = ChatJobs /\ \A k \in ChatJobs : Settled(k) => chainRoot'[k] = chainRoot[k]
  BY <1>1, <1>3 DEF Inv, Types
<1>5. QED
  BY <1>1, <1>2, <1>4, UnrelatedIsSafe

(* A job that gets its session gets that of its root, or one of its own.   *)
LEMMA AttachSafe == ASSUME ConversationAssumption, Inv, NEW j \in ChatJobs, Attach(j) PROVE Inv'
<1> DEFINE p == ProjectOf[j]
           have == SessionsAt(p, chainRoot[j])
<1>1. /\ Moves(j, "rooted") /\ attached' = [attached EXCEPT ![j] = clears[p]]
      /\ UNCHANGED <<tokens, chainRoot, resume, clears>>
      /\ \/ have # {} /\ UNCHANGED sessions
            /\ session' = [session EXCEPT ![j] = (CHOOSE x \in have : TRUE).id]
         \/ have = {} /\ session' = [session EXCEPT ![j] = Fresh]
            /\ sessions' = sessions \cup {[project |-> p, root |-> chainRoot[j], id |-> Fresh]}
  BY DEF Attach
<1>2. /\ stage' \in [ChatJobs -> Stages] /\ ~Settled(j) /\ Settled(j)'
      /\ \A k \in ChatJobs \ {j} : Settled(k)' = Settled(k)
  BY <1>1, Progress DEF Inv
<1>3. PICK x : /\ x \in sessions' /\ x.id \in Nat \ {0} /\ x.project = p /\ x.root = chainRoot[j]
               /\ x = [project |-> x.project, root |-> x.root, id |-> x.id]
               /\ session' = [session EXCEPT ![j] = x.id]
               /\ \/ x \in sessions /\ sessions' = sessions
                  \/ /\ sessions' = sessions \cup {x}
                     /\ \A y \in sessions : y.id # x.id /\ ~(y.project = p /\ y.root = chainRoot[j])
                     /\ \A k \in ChatJobs : session[k] # x.id
  <2>1. CASE have # {}
    <3>1. (CHOOSE x \in have : TRUE) \in have
      BY <2>1
    <3>2. \A x \in have : /\ x \in sessions /\ x.project = p /\ x.root = chainRoot[j]
                          /\ x.id \in Nat \ {0}
                          /\ x = [project |-> x.project, root |-> x.root, id |-> x.id]
      BY DEF SessionsAt, Inv, Types
    <3> HIDE DEF have
    <3>3. QED
      BY <1>1, <2>1, <3>1, <3>2
  <2>2. CASE have = {}
    <3>1. Fresh \in Nat \ {0} /\ (\A x \in sessions : x.id # Fresh) /\ \A k \in ChatJobs : session[k] # Fresh
      BY FreshIsNew DEF Inv
    <3>2. \A y \in sessions : ~(y.project = p /\ y.root = chainRoot[j])
      BY <2>2 DEF SessionsAt
    <3> DEFINE row == [project |-> p, root |-> chainRoot[j], id |-> Fresh]
    <3>3. row.id = Fresh /\ row.project = p /\ row.root = chainRoot[j]
          /\ row = [project |-> row.project, root |-> row.root, id |-> row.id]
      OBVIOUS
    <3>4. session' = [session EXCEPT ![j] = Fresh] /\ sessions' = sessions \cup {row}
      BY <1>1, <2>2
    <3> HIDE DEF row
    <3>5. QED
      BY <3>1, <3>2, <3>3, <3>4
  <2>3. QED
    BY <2>1, <2>2
<1>4. /\ session' \in [ChatJobs -> Nat] /\ session'[j] = x.id /\ attached' \in [ChatJobs -> Nat]
      /\ attached'[j] = clears[p] /\ clears[p] \in Nat
      /\ \A k \in ChatJobs \ {j} : session'[k] = session[k] /\ attached'[k] = attached[k]
  BY <1>1, <1>3 DEF Inv, Types, Projects
<1>5. Types'
  <2>1. IsFiniteSet(sessions')
    BY <1>3, FS_AddElement DEF Inv, Types
  <2>2. \A y \in sessions' : /\ y.id \in Nat \ {0}
                             /\ y = [project |-> y.project, root |-> y.root, id |-> y.id]
    BY <1>3 DEF Inv, Types
  <2>3. QED
    BY <1>1, <1>2, <1>4, <2>1, <2>2 DEF Inv, Types
<1>6. OneRow'
  BY <1>3 DEF Inv, OneRow
<1>7. RowFor(j)' = x /\ \A k \in ChatJobs \ {j} : RowFor(k)' = RowFor(k)
  BY <1>1, <1>3, <1>4 DEF RowFor
<1>8. RowOfJob'
  <2>1. \A k \in ChatJobs : clears[ProjectOf[k]] \in Nat
    BY DEF Inv, Types, Projects
  <2>2. QED
    BY <1>1, <1>2, <1>3, <1>4, <1>7, <2>1 DEF Inv, RowOfJob, NoSession
<1>9. \A k \in ChatJobs \ {j} : Settled(k) =>
        (session[k] = x.id <=> ProjectOf[k] = p /\ chainRoot[k] = chainRoot[j] /\ attached[k] = clears[p])
  <2> SUFFICES ASSUME NEW k \in ChatJobs \ {j}, Settled(k)
               PROVE  session[k] = x.id <=> ProjectOf[k] = p /\ chainRoot[k] = chainRoot[j] /\ attached[k] = clears[p]
    OBVIOUS
  <2>1. ASSUME session[k] = x.id PROVE ProjectOf[k] = p /\ chainRoot[k] = chainRoot[j] /\ attached[k] = clears[p]
    <3>1. x \in sessions
      BY <1>3, <2>1
    <3>2. x = RowFor(k) /\ attached[k] = clears[ProjectOf[k]]
      BY <2>1, <3>1 DEF Inv, JobsOfRow
    <3>3. QED
      BY <1>3, <3>2 DEF RowFor
  <2>2. ASSUME ProjectOf[k] = p, chainRoot[k] = chainRoot[j], attached[k] = clears[p] PROVE session[k] = x.id
    <3>1. RowFor(k) \in sessions /\ RowFor(k).project = p /\ RowFor(k).root = chainRoot[j]
          /\ RowFor(k).id = session[k]
      BY <2>2 DEF Inv, RowOfJob, RowFor
    <3>2. x \in sessions
      BY <1>3, <3>1
    <3>3. QED
      BY <1>3, <3>1, <3>2 DEF Inv, OneRow
  <2>3. QED
    BY <2>1, <2>2
<1>10. JobsOfRow'
  <2>1. ASSUME NEW k \in ChatJobs, NEW y \in sessions', Settled(k)', y.id = session'[k]
        PROVE  y = RowFor(k)' /\ attached'[k] = clears[ProjectOf[k]]
    <3>1. CASE k = j
      BY <1>3, <1>4, <1>6, <1>7, <2>1, <3>1 DEF OneRow
    <3>2. CASE k # j
      <4>1. Settled(k) /\ y.id = session[k]
        BY <1>2, <1>4, <2>1, <3>2
      <4>2. y \in sessions
        BY <1>3, <4>1
      <4>3. QED
        BY <1>4, <1>7, <3>2, <4>1, <4>2 DEF Inv, JobsOfRow
    <3>3. QED
      BY <3>1, <3>2
  <2>2. QED
    BY <1>1, <2>1 DEF JobsOfRow
<1>11. Threads'
  BY <1>1, <1>2, <1>4, <1>9 DEF Inv, Threads
<1>12. TokensFollow' /\ ResumesFollow'
  BY <1>1, <1>2, <1>4 DEF Inv, Types, TokensFollow, ResumesFollow
<1>13. QED
  BY <1>5, <1>6, <1>8, <1>10, <1>11, <1>12 DEF Inv

LEMMA SubmitSafe == ASSUME ConversationAssumption, Inv, NEW j \in ChatJobs, Submit(j) PROVE Inv'
<1>1. /\ Moves(j, "attached") /\ resume' = [resume EXCEPT ![j] = TokenOf(session[j])]
      /\ UNCHANGED <<sessions, tokens, chainRoot, session, attached, clears>>
  BY DEF Submit
<1>2. stage' \in [ChatJobs -> Stages] /\ Settled(j) /\ \A k \in ChatJobs : Settled(k)' = Settled(k)
  BY <1>1, Progress DEF Inv, Late
<1>3. \/ TokenOf(session[j]) = None
      \/ \E x \in tokens : x.session = session[j] /\ TokenOf(session[j]) = x.run
  BY DEF TokenOf
<1>4. \/ TokenOf(session[j]) = None
      \/ /\ TokenOf(session[j]) \in ChatJobs /\ Settled(TokenOf(session[j]))
         /\ session[TokenOf(session[j])] = session[j]
  BY <1>3 DEF Inv, TokensFollow
<1>5. Types' /\ OneRow'
  BY <1>1, <1>2, <1>4 DEF Inv, Types, OneRow
<1>6. RowOfJob' /\ JobsOfRow'
  BY <1>1, <1>2 DEF Inv, RowOfJob, JobsOfRow, RowFor
<1>7. Threads' /\ TokensFollow'
  BY <1>1, <1>2 DEF Inv, Threads, TokensFollow
<1>8. ResumesFollow'
  BY <1>1, <1>2, <1>4 DEF Inv, Types, ResumesFollow
<1>9. QED
  BY <1>5, <1>6, <1>7, <1>8 DEF Inv

(* /clear memory takes the rows of a project, and its jobs with a session  *)
(* have none from then on.                                                 *)
LEMMA ClearSafe == ASSUME Inv, NEW p \in Projects, Clear(p) PROVE Inv'
<1> DEFINE gone == {x \in sessions : x.project = p}
<1>1. /\ clears' = [clears EXCEPT ![p] = @ + 1] /\ tokens' \subseteq tokens
      /\ sessions' = sessions \ gone
      /\ UNCHANGED <<stage, chainRoot, session, resume, attached>>
  BY DEF Clear
<1>2. \A k \in ChatJobs : Settled(k)' = Settled(k) /\ RowFor(k)' = RowFor(k)
  BY <1>1 DEF Settled, RowFor
<1>3. /\ clears' \in [Projects -> Nat]
      /\ \A k \in ChatJobs : clears'[ProjectOf[k]] =
           IF ProjectOf[k] = p THEN clears[ProjectOf[k]] + 1 ELSE clears[ProjectOf[k]]
  BY <1>1 DEF Inv, Types, Projects
<1>4. Types' /\ OneRow'
  <2>1. IsFiniteSet(sessions')
    BY <1>1, FS_Subset DEF Inv, Types
  <2>2. QED
    BY <1>1, <1>3, <2>1 DEF Inv, Types, OneRow
<1>5. RowOfJob'
  <2>1. \A k \in ChatJobs : attached[k] \in Nat /\ clears[ProjectOf[k]] \in Nat
    BY DEF Inv, Types, Projects
  <2>2. \A k \in ChatJobs : ProjectOf[k] # p => RowFor(k) \notin gone
    BY DEF RowFor
  <2> HIDE DEF gone
  <2>3. QED
    BY <1>1, <1>2, <1>3, <2>1, <2>2 DEF Inv, RowOfJob
<1>6. JobsOfRow'
  <2>1. ASSUME NEW k \in ChatJobs, NEW x \in sessions', Settled(k), x.id = session[k]
        PROVE  x = RowFor(k) /\ attached[k] = clears'[ProjectOf[k]]
    <3>1. x \in sessions /\ x.project # p
      BY <1>1
    <3>2. x = RowFor(k) /\ attached[k] = clears[ProjectOf[k]]
      BY <2>1, <3>1 DEF Inv, JobsOfRow
    <3>3. ProjectOf[k] # p
      BY <3>1, <3>2 DEF RowFor
    <3>4. QED
      BY <1>3, <3>2, <3>3
  <2>2. QED
    BY <1>1, <1>2, <2>1 DEF JobsOfRow
<1>7. Threads'
  BY <1>1, <1>2 DEF Inv, Threads
<1>8. TokensFollow'
  BY <1>1, <1>2 DEF Inv, TokensFollow
<1>9. ResumesFollow'
  <2>1. \A k \in ChatJobs : resume[k] # None => resume[k] \in ChatJobs
    BY DEF Inv, Types
  <2>2. QED
    BY <1>1, <1>2, <2>1 DEF Inv, ResumesFollow
<1>10. QED
  BY <1>4, <1>5, <1>6, <1>7, <1>8, <1>9 DEF Inv

LEMMA StartSafe == ASSUME TalkInit PROVE Inv
<1>1. \A j \in ChatJobs : ~Settled(j)
  BY DEF TalkInit, Settled, Before
<1>2. Types
  BY FS_EmptySet DEF TalkInit, Types, Stages, Before, NoSession
<1>3. QED
  BY <1>1, <1>2 DEF TalkInit, Inv, OneRow, RowOfJob, JobsOfRow, Threads, TokensFollow, ResumesFollow

LEMMA LateSteps ==
  ASSUME Inv, NEW j \in ChatJobs, Bind(j) \/ Accept(j) \/ RunAgent(j) \/ SaveToken(j) \/ SaveResult(j)
  PROVE  Inv'
<1>1. PICK from \in Late(j) : Moves(j, from)
  BY DEF Late, Bind, Accept, RunAgent, SaveToken, SaveResult
<1>2. /\ UNCHANGED <<sessions, session, attached, clears, resume, chainRoot>>
      /\ \A x \in tokens' : x \in tokens \/ x = [session |-> session[j], run |-> j]
  BY DEF Bind, Accept, RunAgent, SaveToken, SaveResult
<1>3. QED
  BY <1>1, <1>2, LateStepSafe

LEMMA StepSafe == ASSUME ConversationAssumption, Inv, [TalkNext]_talkVars PROVE Inv'
<1>1. ASSUME NEW j \in ChatJobs,
             \/ Record(j) \/ Resolve(j) \/ Attach(j) \/ Submit(j) \/ Bind(j)
             \/ Accept(j) \/ RunAgent(j) \/ SaveToken(j) \/ SaveResult(j)
      PROVE  Inv'
  BY <1>1, RecordSafe, ResolveSafe, AttachSafe, SubmitSafe, LateSteps
<1>2. CASE \E p \in Projects : Clear(p)
  BY <1>2, ClearSafe
<1>3. CASE UNCHANGED talkVars
  <2>1. \A k \in ChatJobs : Settled(k)' = Settled(k)
    BY <1>3 DEF Settled
  <2>2. QED
    BY <1>3, <2>1, UnrelatedIsSafe DEF Inv, Types
<1>4. QED
  BY <1>1, <1>2, <1>3 DEF TalkNext, Quiet

LEMMA Invariant == ASSUME ConversationAssumption PROVE TalkSpec => []Inv
BY StartSafe, StepSafe, PTL DEF TalkSpec

(* Two jobs share a CLI session exactly when their chains have one root in *)
(* one project with no /clear memory between them, and a token that is     *)
(* resumed was left in that very session (get_or_create_agent_session and  *)
(* the runner tokens of the sqlite store).                                 *)
THEOREM ThreadsHaveSessions ==
  ASSUME ConversationAssumption PROVE TalkSpec => []SessionsAreThreads
<1>1. ASSUME Inv PROVE SessionsAreThreads
  <2>1. \A j \in ChatJobs : HasSession(j) => Settled(j)
    BY <1>1, AttachedIsSettled DEF Inv
  <2>2. SessionIsItsRoot
    BY <1>1, <2>1 DEF Inv, Threads, SessionIsItsRoot
  <2>3. ResumesItsSession
    BY <1>1 DEF Inv, Types, Threads, ResumesFollow, ResumesItsSession
  <2>4. QED
    BY <2>2, <2>3 DEF SessionsAreThreads
<1>2. QED
  BY <1>1, Invariant, PTL

-----------------------------------------------------------------------------
(* Chains of replies.                                                      *)

Roles == {"user", "accepted", "result"}
Unresolved == {"new", "recorded"}
PastBind == {"bound", "accepted", "ran", "saved", "done"}

(* A message that is replied to was recorded before.                       *)
RepliesBack ==
  /\ DOMAIN reply = ChatJobs
  /\ \A j \in ChatJobs : reply[j] # None =>
       \E k \in ChatJobs, r \in Roles :
         /\ reply[j] = Message(k, r) /\ k < j /\ ProjectOf[k] = ProjectOf[j]
         /\ stage[k] # "new" /\ stage[j] # "new"

(* A user's row names its job once it is bound, and a bot's row comes later. *)
RowOK(x, now) ==
  /\ x.role = "user" => x.bound \in {None, x.job}
  /\ x.job \notin Fixes =>
       IF x.role = "user" THEN now[x.job] \in PastBind => x.bound = x.job
       ELSE now[x.job] \in PastBind
TableRow == [job : ChatJobs, role : Roles, bound : ChatJobs \cup {None}]
RowsOK ==
  /\ entries \in Seq(TableRow)
  /\ \A n \in 1 .. Len(entries) : RowOK(entries[n], stage)

(* A definition along the chain of replies has a value for every job: where *)
(* it stops, that of base, and elsewhere that of step.                     *)
Rising(up) ==
  /\ up \in [ChatJobs -> ChatJobs \cup {None}]
  /\ \A j \in ChatJobs : up[j] # None => up[j] < j
Chained(f, up, base, step) ==
  \A j \in ChatJobs : f[j] = IF up[j] = None THEN base[j] ELSE step[<<j, f[up[j]]>>]

LEMMA Along ==
  ASSUME ConversationAssumption, NEW T, NEW up, Rising(up),
         NEW base \in [ChatJobs -> T], NEW step \in [ChatJobs \X T -> T]
  PROVE  \E f \in [ChatJobs -> T] : Chained(f, up, base, step)
<1> DEFINE Below(n) == {j \in ChatJobs : j < n}
           Solves(f, n) ==
             \A j \in Below(n) : f[j] = IF up[j] = None THEN base[j] ELSE step[<<j, f[up[j]]>>]
           Bad == {n \in Nat : ~ \E f \in [Below(n) -> T] : Solves(f, n)}
<1>0. ChatJobs \subseteq Nat /\ IsFiniteSet(ChatJobs) /\ None \notin ChatJobs
  BY DEF ConversationAssumption
<1>1. ASSUME Bad # {} PROVE FALSE
  <2>1. PICK b \in Bad : \A m \in Bad : b <= m
    <3>1. Bad \in SUBSET Nat
      OBVIOUS
    <3> HIDE DEF Bad
    <3> QED BY <1>1, <3>1, LeastNumber
  <2>2. b # 0
    <3>1. Below(0) = {}
      <4>1. \A j \in Nat : ~(j < 0)
        OBVIOUS
      <4> QED BY <1>0, <4>1
    <3>2. [j \in Below(0) |-> base[j]] \in [Below(0) -> T] /\ Solves([j \in Below(0) |-> base[j]], 0)
      BY <3>1
    <3> HIDE DEF Below, Solves
    <3> QED BY <2>1, <3>2
  <2>3. b \in Nat /\ b - 1 \in Nat /\ b - 1 \notin Bad
    <3>1. b \in Nat
      OBVIOUS
    <3>2. b - 1 \in Nat /\ ~(b <= b - 1)
      BY <2>2, <3>1
    <3> HIDE DEF Bad
    <3> QED BY <2>1, <3>1, <3>2
  <2>4. PICK f \in [Below(b - 1) -> T] : Solves(f, b - 1)
    <3> HIDE DEF Below, Solves
    <3> QED BY <2>3
  <2> DEFINE i == b - 1
             value == IF up[i] = None THEN base[i] ELSE step[<<i, f[up[i]]>>]
             g == [j \in Below(b) |-> IF j = i THEN value ELSE f[j]]
  <2>5. \A j \in Below(b) : j = i \/ j \in Below(i)
    <3>1. \A j \in Nat : j < b => j = i \/ j < i
      BY <2>3
    <3> QED BY <1>0, <3>1
  <2>6. \A j \in Below(b) : up[j] # None => up[j] \in Below(i) /\ up[j] \in Below(b)
    <3>1. \A j, k \in Nat : j < b /\ k < j => k < i /\ k < b
      BY <2>3
    <3> QED BY <1>0, <3>1 DEF Rising
  <2>7. \A j \in Below(i) : g[j] = f[j] /\ j \in Below(b) /\ j # i
    <3>1. \A j \in Nat : j < i => j < b /\ j # i
      BY <2>3
    <3> QED BY <1>0, <3>1
  <2>8. i \in Below(b) => value \in T /\ g[i] = value
    BY <2>6
  <2>9. g \in [Below(b) -> T]
    <3> HIDE DEF Below, value
    <3> QED BY <2>5, <2>8
  <2>10. Solves(g, b)
    <3> SUFFICES ASSUME NEW j \in Below(b)
                 PROVE  g[j] = IF up[j] = None THEN base[j] ELSE step[<<j, g[up[j]]>>]
      OBVIOUS
    <3>1. up[j] # None => g[up[j]] = f[up[j]]
      BY <2>6, <2>7
    <3>2. CASE j = i
      <4> HIDE DEF g
      <4> QED BY <2>8, <3>1, <3>2
    <3>3. CASE j \in Below(i)
      <4>1. g[j] = f[j] /\ f[j] = IF up[j] = None THEN base[j] ELSE step[<<j, f[up[j]]>>]
        <5> HIDE DEF g, Below
        <5> QED BY <2>4, <2>7, <3>3
      <4> HIDE DEF g, Below
      <4> QED BY <3>1, <4>1
    <3> HIDE DEF Below, g
    <3> QED BY <2>5, <3>2, <3>3
  <2> HIDE DEF g, Below, Solves
  <2> QED
    BY <2>1, <2>9, <2>10
<1>2. \E n \in Nat : ChatJobs = Below(n)
  <2>1. CASE ChatJobs = {}
    BY <2>1
  <2>2. CASE ChatJobs # {}
    <3>1. Max(ChatJobs) \in ChatJobs /\ \A y \in ChatJobs : y <= Max(ChatJobs)
      BY <1>0, <2>2, Greatest
    <3>2. Max(ChatJobs) + 1 \in Nat /\ \A j \in ChatJobs : j < Max(ChatJobs) + 1
      <4>1. \A m \in Nat : m + 1 \in Nat /\ \A y \in Nat : y <= m => y < m + 1
        OBVIOUS
      <4> QED BY <1>0, <3>1, <4>1
    <3> QED BY <3>2
  <2> QED BY <2>1, <2>2
<1>3. PICK n \in Nat : ChatJobs = Below(n)
  <2> HIDE DEF Below
  <2> QED BY <1>2
<1>4. n \notin Bad
  <2> HIDE DEF Bad
  <2> QED BY <1>1
<1>5. PICK f \in [Below(n) -> T] : Solves(f, n)
  <2> HIDE DEF Below, Solves
  <2> QED BY <1>4
<1>6. \A j \in Below(n) : f[j] = IF up[j] = None THEN base[j] ELSE step[<<j, f[up[j]]>>]
  BY <1>5
<1> HIDE DEF Below
<1> QED
  BY <1>3, <1>5, <1>6 DEF Chained

-----------------------------------------------------------------------------
(* The functions of the chain.                                             *)

(* The oldest message of a chain of users' messages.                       *)
Top[j \in ChatJobs] ==
  IF reply[j] = None THEN j
  ELSE IF reply[j].role = "user" THEN Top[reply[j].job] ELSE j

LEMMA Replied ==
  ASSUME RepliesBack, NEW j \in ChatJobs, reply[j] # None
  PROVE  /\ reply[j].job \in ChatJobs /\ reply[j].job < j /\ reply[j].role \in Roles
         /\ reply[j] = Message(reply[j].job, reply[j].role)
         /\ ProjectOf[reply[j].job] = ProjectOf[j]
         /\ stage[reply[j].job] # "new" /\ stage[j] # "new"
BY DEF RepliesBack, Message

TopFollows ==
  \A j \in ChatJobs :
    Top[j] = IF reply[j] = None THEN j
             ELSE IF reply[j].role = "user" THEN Top[reply[j].job] ELSE j

LEMMA TopIs == ConversationAssumption /\ RepliesBack => TopFollows
<1> SUFFICES ASSUME ConversationAssumption, RepliesBack PROVE TopFollows
  OBVIOUS
<1> DEFINE follows(j) == reply[j] # None /\ reply[j].role = "user"
           up == [j \in ChatJobs |-> IF follows(j) THEN reply[j].job ELSE None]
           base == [j \in ChatJobs |-> j]
           step == [p \in ChatJobs \X ChatJobs |-> p[2]]
           body(f) == [j \in ChatJobs |->
                         IF reply[j] = None THEN j
                         ELSE IF reply[j].role = "user" THEN f[reply[j].job] ELSE j]
<1>0. None \notin ChatJobs
  BY DEF ConversationAssumption
<1>1. Rising(up)
  BY Replied DEF Rising
<1>2. base \in [ChatJobs -> ChatJobs] /\ step \in [ChatJobs \X ChatJobs -> ChatJobs]
  OBVIOUS
<1>3. PICK f \in [ChatJobs -> ChatJobs] : Chained(f, up, base, step)
  <2> HIDE DEF up, base, step
  <2> QED BY <1>1, <1>2, Along
<1>4. \A j \in ChatJobs : f[j] = body(f)[j]
  BY <1>0, <1>3, Replied DEF Chained
<1>5. f = body(f)
  <2>1. f = [j \in ChatJobs |-> f[j]] /\ body(f) = [j \in ChatJobs |-> body(f)[j]]
    OBVIOUS
  <2> HIDE DEF body
  <2> QED BY <1>4, <2>1
<1>6. Top = body(Top)
  BY <1>5 DEF Top
<1> QED
  BY <1>6 DEF TopFollows

UserChainFollows ==
  \A j \in ChatJobs :
    /\ UserChain[j] \in Nat \ {0}
    /\ UserChain[j] = IF j \in partial THEN MaxDepth + 1
                      ELSE IF reply[j] = None THEN 1
                      ELSE IF reply[j].role = "user" THEN 1 + UserChain[reply[j].job]
                      ELSE MaxDepth + 1

LEMMA UserChainIs == ConversationAssumption /\ RepliesBack => UserChainFollows
<1> SUFFICES ASSUME ConversationAssumption, RepliesBack PROVE UserChainFollows
  OBVIOUS
<1> DEFINE follows(j) == j \notin partial /\ reply[j] # None /\ reply[j].role = "user"
           T == Nat \ {0}
           up == [j \in ChatJobs |-> IF follows(j) THEN reply[j].job ELSE None]
           base == [j \in ChatJobs |-> IF j \notin partial /\ reply[j] = None THEN 1 ELSE MaxDepth + 1]
           step == [p \in ChatJobs \X T |-> 1 + p[2]]
           body(f) == [j \in ChatJobs |->
                         IF j \in partial THEN MaxDepth + 1
                         ELSE IF reply[j] = None THEN 1
                         ELSE IF reply[j].role = "user" THEN 1 + f[reply[j].job] ELSE MaxDepth + 1]
<1>0. None \notin ChatJobs /\ MaxDepth \in Nat \ {0}
  BY DEF ConversationAssumption
<1>1. Rising(up)
  BY Replied DEF Rising
<1>2. base \in [ChatJobs -> T] /\ step \in [ChatJobs \X T -> T]
  BY <1>0
<1>3. PICK f \in [ChatJobs -> T] : Chained(f, up, base, step)
  <2> HIDE DEF up, base, step, T
  <2> QED BY <1>1, <1>2, Along
<1>4. \A j \in ChatJobs : f[j] = body(f)[j]
  BY <1>0, <1>3, Replied DEF Chained
<1>5. f = body(f)
  <2>1. f = [j \in ChatJobs |-> f[j]] /\ body(f) = [j \in ChatJobs |-> body(f)[j]]
    OBVIOUS
  <2> HIDE DEF body
  <2> QED BY <1>4, <2>1
<1>6. UserChain = body(UserChain)
  BY <1>5 DEF UserChain
<1>7. \A j \in ChatJobs : UserChain[j] = body(UserChain)[j]
  <2> HIDE DEF body
  <2> QED BY <1>6
<1>8. UserChain \in [ChatJobs -> T]
  <2> DEFINE Bad == {n \in ChatJobs : UserChain[n] \notin T}
  <2>1. ASSUME Bad # {} PROVE FALSE
    <3>0. Bad \in SUBSET Nat /\ ChatJobs \subseteq Nat
      BY DEF ConversationAssumption
    <3>1. PICK b \in Bad : \A m \in Bad : b <= m
      <4> HIDE DEF Bad
      <4> QED BY <2>1, <3>0, LeastNumber
    <3>2. follows(b) => UserChain[reply[b].job] \in T
      <4>1. \A m, n \in Nat : m < n => ~(n <= m)
        OBVIOUS
      <4>2. follows(b) => reply[b].job \in ChatJobs /\ reply[b].job < b
        BY Replied
      <4> QED BY <3>0, <3>1, <4>1, <4>2
    <3> QED BY <1>0, <1>7, <3>1, <3>2
  <2>2. UserChain = [j \in ChatJobs |-> UserChain[j]]
    <3>1. body(UserChain) = [j \in ChatJobs |-> body(UserChain)[j]]
      OBVIOUS
    <3> HIDE DEF body
    <3> QED BY <1>6, <3>1
  <2> HIDE DEF T
  <2> QED BY <2>1, <2>2
<1> HIDE DEF T
<1>9. \A j \in ChatJobs : UserChain[j] \in T
  BY <1>8
<1> QED
  BY <1>7, <1>9 DEF T, UserChainFollows

LEMMA AncestorsIs ==
  ASSUME ConversationAssumption, RepliesBack
  PROVE  \A j \in ChatJobs :
           Ancestors[j] = IF reply[j] = None THEN {} ELSE {reply[j].job} \cup Ancestors[reply[j].job]
<1> DEFINE T == SUBSET ChatJobs
           up == [j \in ChatJobs |-> IF reply[j] = None THEN None ELSE reply[j].job]
           base == [j \in ChatJobs |-> {}]
           step == [p \in ChatJobs \X T |->
                      IF reply[p[1]] = None THEN p[2] ELSE {reply[p[1]].job} \cup p[2]]
           body(f) == [j \in ChatJobs |->
                         IF reply[j] = None THEN {} ELSE {reply[j].job} \cup f[reply[j].job]]
<1>0. None \notin ChatJobs
  BY DEF ConversationAssumption
<1>1. Rising(up)
  BY Replied DEF Rising
<1>2. base \in [ChatJobs -> T] /\ step \in [ChatJobs \X T -> T]
  BY Replied
<1>3. PICK f \in [ChatJobs -> T] : Chained(f, up, base, step)
  <2> HIDE DEF up, base, step, T
  <2> QED BY <1>1, <1>2, Along
<1>4. ASSUME NEW j \in ChatJobs PROVE f[j] = body(f)[j]
  <2>1. f[j] = IF up[j] = None THEN base[j] ELSE step[<<j, f[up[j]]>>]
    <3> HIDE DEF up, base, step, T, body
    <3> QED BY <1>3 DEF Chained
  <2>2. CASE reply[j] = None
    BY <2>1, <2>2
  <2>3. CASE reply[j] # None
    <3>1. up[j] = reply[j].job /\ up[j] \in ChatJobs /\ up[j] # None
      BY <1>0, <2>3, Replied
    <3>2. f[up[j]] \in T /\ <<j, f[up[j]]>> \in ChatJobs \X T
      <4> HIDE DEF up, base, step, T, body
      <4> QED BY <1>3, <3>1
    <3>3. step[<<j, f[up[j]]>>] = {reply[j].job} \cup f[up[j]]
      <4> HIDE DEF up, base, T, body
      <4> QED BY <2>3, <3>2 DEF step
    <3> QED BY <2>1, <2>3, <3>1, <3>3
  <2> QED BY <2>2, <2>3
<1>5. f = body(f)
  <2>1. f = [j \in ChatJobs |-> f[j]] /\ body(f) = [j \in ChatJobs |-> body(f)[j]]
    OBVIOUS
  <2> HIDE DEF body
  <2> QED BY <1>4, <2>1
<1>6. Ancestors = body(Ancestors)
  BY <1>5 DEF Ancestors
<1> QED
  BY <1>6

LEMMA OldestIs ==
  ASSUME ConversationAssumption, RepliesBack
  PROVE  \A j \in ChatJobs, depth \in Nat :
           Oldest[j][depth] =
             IF depth > 1 /\ reply[j] # None /\ reply[j].role = "user" /\ HasUser(reply[j].job)
             THEN Oldest[reply[j].job][depth - 1] ELSE j
<1> DEFINE follows(j) == reply[j] # None /\ reply[j].role = "user" /\ HasUser(reply[j].job)
           T == [Nat -> ChatJobs]
           up == [j \in ChatJobs |-> IF follows(j) THEN reply[j].job ELSE None]
           base == [j \in ChatJobs |-> [d \in Nat |-> j]]
           step == [p \in ChatJobs \X T |-> [d \in Nat |-> IF d > 1 THEN p[2][d - 1] ELSE p[1]]]
           body(f) == [j \in ChatJobs |->
                         [depth \in Nat |->
                           IF depth > 1 /\ reply[j] # None /\ reply[j].role = "user"
                              /\ HasUser(reply[j].job)
                           THEN f[reply[j].job][depth - 1] ELSE j]]
<1>0. None \notin ChatJobs
  BY DEF ConversationAssumption
<1>1. Rising(up)
  BY Replied DEF Rising
<1>2. base \in [ChatJobs -> T] /\ step \in [ChatJobs \X T -> T]
  OBVIOUS
<1>3. PICK f \in [ChatJobs -> T] : Chained(f, up, base, step)
  <2> HIDE DEF up, base, step, T
  <2> QED BY <1>1, <1>2, Along
<1>4. \A j \in ChatJobs : f[j] = body(f)[j]
  <2> SUFFICES ASSUME NEW j \in ChatJobs PROVE f[j] = body(f)[j]
    OBVIOUS
  <2>1. CASE follows(j)
    <3>1. up[j] = reply[j].job /\ up[j] \in ChatJobs /\ up[j] # None
      BY <1>0, <2>1, Replied
    <3>2. f[j] = [d \in Nat |-> IF d > 1 THEN f[reply[j].job][d - 1] ELSE j]
      BY <1>3, <3>1 DEF Chained
    <3> QED BY <2>1, <3>2
  <2>2. CASE ~follows(j)
    <3>1. f[j] = [d \in Nat |-> j]
      BY <1>3, <2>2 DEF Chained
    <3> QED BY <2>2, <3>1
  <2> QED BY <2>1, <2>2
<1>5. f = body(f)
  <2>1. f = [j \in ChatJobs |-> f[j]] /\ body(f) = [j \in ChatJobs |-> body(f)[j]]
    OBVIOUS
  <2> HIDE DEF body
  <2> QED BY <1>4, <2>1
<1>6. Oldest = body(Oldest)
  BY <1>5 DEF Oldest
<1>7. \A j \in ChatJobs, d \in Nat : Oldest[j][d] = body(Oldest)[j][d]
  <2> HIDE DEF body
  <2> QED BY <1>6
<1>8. \A j \in ChatJobs, depth \in Nat :
        body(Oldest)[j][depth] =
          IF depth > 1 /\ reply[j] # None /\ reply[j].role = "user" /\ HasUser(reply[j].job)
          THEN Oldest[reply[j].job][depth - 1] ELSE j
  OBVIOUS
<1> HIDE DEF body
<1> QED
  BY <1>7, <1>8

(* A chain of users' messages that memory holds is walked to its oldest.   *)
LEMMA OldestIsTop ==
  ASSUME ConversationAssumption, RepliesBack, NEW k \in ChatJobs,
         UserChain[k] <= MaxDepth, \A a \in Ancestors[k] : HasUser(a)
  PROVE  Oldest[k][MaxDepth] = Top[k]
<1> DEFINE Fine(j, d) ==
             UserChain[j] <= MaxDepth /\ UserChain[j] <= d /\ (\A a \in Ancestors[j] : HasUser(a))
               => Oldest[j][d] = Top[j]
           Bad == {j \in ChatJobs : ~ \A d \in Nat : Fine(j, d)}
<1>0. ChatJobs \subseteq Nat /\ MaxDepth \in Nat \ {0}
  BY DEF ConversationAssumption
<1>1. ASSUME Bad # {} PROVE FALSE
  <2>1. PICK b \in Bad : \A m \in Bad : b <= m
    <3>1. Bad \in SUBSET Nat
      BY <1>0
    <3> HIDE DEF Bad
    <3> QED BY <1>1, <3>1, LeastNumber
  <2>2. b \in ChatJobs
    OBVIOUS
  <2>3. PICK d \in Nat : ~Fine(b, d)
    OBVIOUS
  <2>4. /\ UserChain[b] <= MaxDepth /\ UserChain[b] <= d /\ Oldest[b][d] # Top[b]
        /\ \A a \in Ancestors[b] : HasUser(a)
    BY <2>3
  <2> HIDE DEF Fine
  <2>5. b \notin partial /\ (reply[b] = None \/ reply[b].role = "user")
    BY <1>0, <2>2, <2>4, UserChainIs DEF UserChainFollows
  <2>6. CASE reply[b] = None
    BY <2>2, <2>4, <2>6, OldestIs, TopIs DEF TopFollows
  <2>7. CASE reply[b] # None
    <3> DEFINE up == reply[b].job
    <3>1. up \in ChatJobs /\ up < b /\ reply[b].role = "user"
      BY <2>2, <2>5, <2>7, Replied
    <3>2. UserChain[b] = 1 + UserChain[up] /\ UserChain[up] \in Nat \ {0}
      BY <2>2, <2>5, <2>7, <3>1, UserChainIs DEF UserChainFollows
    <3>3. d > 1 /\ UserChain[up] <= MaxDepth /\ UserChain[up] <= d - 1 /\ d - 1 \in Nat
      BY <1>0, <2>4, <3>2
    <3>4. HasUser(up) /\ \A a \in Ancestors[up] : HasUser(a)
      BY <2>2, <2>4, <2>7, AncestorsIs
    <3>5. Oldest[b][d] = Oldest[up][d - 1] /\ Top[b] = Top[up]
      BY <2>2, <2>7, <3>1, <3>3, <3>4, OldestIs, TopIs DEF TopFollows
    <3>6. up \notin Bad
      <4>1. \A m, n \in Nat : m < n => ~(n <= m)
        OBVIOUS
      <4>2. up \in Nat /\ b \in Nat /\ ~(b <= up)
        <5> HIDE DEF up
        <5> QED BY <1>0, <2>2, <3>1, <4>1
      <4> HIDE DEF up
      <4> QED BY <2>1, <4>2
    <3>7. Fine(up, d - 1)
      <4> HIDE DEF up
      <4> QED BY <3>1, <3>3, <3>6
    <3> QED BY <2>4, <3>3, <3>4, <3>5, <3>7 DEF Fine
  <2> QED
    BY <2>6, <2>7
<1>2. Fine(k, MaxDepth)
  <2> HIDE DEF Fine
  <2> QED BY <1>0, <1>1
<1> QED
  BY <1>0, <1>2, UserChainIs

-----------------------------------------------------------------------------
(* The invariant.                                                          *)

Resolved(j) == stage[j] \notin Unresolved

(* A reply to up that must continue its session.                           *)
Follows(j, up) ==
  /\ Resolved(j) /\ reply[j] # None /\ j \notin partial /\ up = reply[j].job
  /\ UserChain[up] <= MaxDepth /\ (up \in Fixes => reply[j].role = "user")

RootsOfFirst == \A j \in ChatJobs : Resolved(j) /\ reply[j] = None => chainRoot[j] = j
RootsOfReplies == \A j, up \in ChatJobs : Follows(j, up) => chainRoot[j] = Top[up]

ChainInv == RepliesBack /\ RowsOK /\ RootsOfFirst /\ RootsOfReplies

LEMMA Moved ==
  ASSUME Types, NEW j \in ChatJobs, NEW from \in {"new", "recorded", "rooted"} \cup Late(j), Moves(j, from)
  PROVE  /\ stage[j] = from /\ stage' \in [ChatJobs -> Stages]
         /\ \A k \in ChatJobs \ {j} : stage'[k] = stage[k]
         /\ stage'[j] # "new" /\ (stage'[j] \in Unresolved <=> from = "new")
         /\ j \notin Fixes => (stage'[j] \in PastBind <=> from \in PastBind \cup {"submitted"})
<1> DEFINE next == Steps(j)[Rank(j, from) + 1]
<1>1. stage[j] = from /\ stage' = [stage EXCEPT ![j] = next]
  BY DEF Moves
<1>2. Rank(j, "new") = 1 /\ Rank(j, "recorded") = 2 /\ Rank(j, "rooted") = 3 /\ Rank(j, "attached") = 4
      /\ Rank(j, "submitted") = 5
  BY DEF Rank, Steps
<1>3. /\ next \in Stages \ {"new"} /\ (next \in Unresolved <=> from = "new")
      /\ j \notin Fixes => (next \in PastBind <=> from \in PastBind \cup {"submitted"})
  <2>1. CASE j \in Fixes
    <3>1. Rank(j, "ran") = 6 /\ Rank(j, "accepted") = 7 /\ Rank(j, "saved") = 8
      BY <2>1 DEF Rank, Steps
    <3> QED BY <1>2, <2>1, <3>1 DEF Steps, Late, Stages, Before, Unresolved
  <2>2. CASE j \notin Fixes
    <3>1. Rank(j, "bound") = 6 /\ Rank(j, "accepted") = 7 /\ Rank(j, "ran") = 8 /\ Rank(j, "saved") = 9
      BY <2>2 DEF Rank, Steps
    <3> QED BY <1>2, <2>2, <3>1 DEF Steps, Late, Stages, Before, Unresolved, PastBind
  <2> QED BY <2>1, <2>2
<1> HIDE DEF next
<1> QED
  BY <1>1, <1>3 DEF Types

(* What is older than a reply does not change under it, but for jobs that were *)
(* found to reply to what memory lacks.                                    *)
LEMMA ChainKept ==
  ASSUME ConversationAssumption, RepliesBack, RepliesBack', partial \subseteq partial',
         \A k \in ChatJobs : stage[k] # "new" => reply'[k] = reply[k]
  PROVE  \A k \in ChatJobs : stage[k] # "new" =>
           /\ Top'[k] = Top[k]
           /\ UserChain'[k] <= MaxDepth => UserChain'[k] = UserChain[k]
<1> DEFINE Same(k) == stage[k] # "new" =>
                        /\ Top'[k] = Top[k]
                        /\ UserChain'[k] <= MaxDepth => UserChain'[k] = UserChain[k]
           Bad == {k \in ChatJobs : ~Same(k)}
<1>0. ChatJobs \subseteq Nat /\ MaxDepth \in Nat \ {0}
  BY DEF ConversationAssumption
<1>1. TopFollows'
  <2>1. (ConversationAssumption /\ RepliesBack => TopFollows)'
    BY TopIs, PTL
  <2> QED BY <2>1 DEF ConversationAssumption
<1>2. UserChainFollows'
  <2>1. (ConversationAssumption /\ RepliesBack => UserChainFollows)'
    BY UserChainIs, PTL
  <2> QED BY <2>1 DEF ConversationAssumption
<1>3. ASSUME Bad # {} PROVE FALSE
  <2>1. PICK b \in Bad : \A m \in Bad : b <= m
    <3>1. Bad \in SUBSET Nat
      BY <1>0
    <3> HIDE DEF Bad
    <3> QED BY <1>3, <3>1, LeastNumber
  <2>2. b \in ChatJobs /\ ~Same(b)
    <3> HIDE DEF Same
    <3> QED BY <2>1
  <2>3. stage[b] # "new" /\ reply'[b] = reply[b]
    BY <2>2
  <2> DEFINE up == reply[b].job
  <2>4. reply[b] # None => up \in ChatJobs /\ stage[up] # "new" /\ Same(up)
    <3> SUFFICES ASSUME reply[b] # None PROVE up \in ChatJobs /\ stage[up] # "new" /\ Same(up)
      OBVIOUS
    <3>1. up \in ChatJobs /\ up < b /\ stage[up] # "new"
      BY <2>2, Replied
    <3>2. \A m, n \in Nat : m < n => ~(n <= m)
      OBVIOUS
    <3>3. ~(b <= up)
      <4> HIDE DEF up
      <4> QED BY <1>0, <2>2, <3>1, <3>2
    <3>4. up \notin Bad
      <4> HIDE DEF Bad
      <4> QED BY <2>1, <3>3
    <3> HIDE DEF up, Same
    <3> QED BY <3>1, <3>4
  <2>5. Top'[b] = Top[b]
    BY <1>1, <2>2, <2>3, <2>4, TopIs DEF TopFollows
  <2>6. ASSUME UserChain'[b] <= MaxDepth PROVE UserChain'[b] = UserChain[b]
    <3>1. /\ UserChain[b] = IF b \in partial THEN MaxDepth + 1
                            ELSE IF reply[b] = None THEN 1
                            ELSE IF reply[b].role = "user" THEN 1 + UserChain[up]
                            ELSE MaxDepth + 1
      BY <2>2, UserChainIs DEF UserChainFollows
    <3>2. /\ b \notin partial' /\ b \notin partial
          /\ reply[b] = None \/ reply[b].role = "user"
      BY <1>0, <1>2, <2>2, <2>3, <2>6 DEF UserChainFollows
    <3>3. CASE reply[b] = None
      BY <1>2, <2>2, <2>3, <3>1, <3>2, <3>3 DEF UserChainFollows
    <3>4. CASE reply[b] # None
      <4>1. UserChain'[b] = 1 + UserChain'[up] /\ UserChain'[up] \in Nat \ {0} /\ UserChain[b] = 1 + UserChain[up]
        BY <1>2, <2>2, <2>3, <2>4, <3>1, <3>2, <3>4 DEF UserChainFollows
      <4>2. UserChain'[up] <= MaxDepth
        <5> HIDE DEF up
        <5> QED BY <1>0, <2>6, <4>1
      <4> QED BY <2>4, <3>4, <4>1, <4>2
    <3> QED BY <3>3, <3>4
  <2> QED
    BY <2>2, <2>5, <2>6
<1> QED
  BY <1>3

(* A job whose root is resolved keeps to it.                               *)
LEMMA RootStays ==
  ASSUME ConversationAssumption, ChainInv, RepliesBack', partial \subseteq partial',
         \A k \in ChatJobs : stage[k] # "new" => reply'[k] = reply[k],
         NEW j \in ChatJobs, Resolved(j), chainRoot'[j] = chainRoot[j]
  PROVE  /\ reply'[j] = None => chainRoot'[j] = j
         /\ \A up \in ChatJobs : Follows(j, up)' => chainRoot'[j] = Top'[up]
<1>1. reply'[j] = reply[j] /\ RepliesBack /\ stage[j] # "new"
  BY DEF ChainInv, Resolved, Unresolved
<1>2. reply'[j] = None => chainRoot'[j] = j
  BY <1>1 DEF ChainInv, RootsOfFirst
<1>3. ASSUME NEW up \in ChatJobs, Follows(j, up)' PROVE chainRoot'[j] = Top'[up]
  <2>1. /\ reply[j] # None /\ j \notin partial /\ up = reply[j].job /\ UserChain'[up] <= MaxDepth
        /\ up \in Fixes => reply[j].role = "user"
    BY <1>1, <1>3 DEF Follows
  <2>2. stage[up] # "new"
    BY <1>1, <2>1, Replied
  <2>3. Top'[up] = Top[up] /\ UserChain[up] <= MaxDepth
    BY <1>1, <2>1, <2>2, ChainKept
  <2> QED
    BY <2>1, <2>3 DEF Follows, ChainInv, RootsOfReplies
<1> QED
  BY <1>2, <1>3

LEMMA ChainStays ==
  ASSUME ConversationAssumption, ChainInv, RepliesBack', RowsOK', partial \subseteq partial',
         \A k \in ChatJobs : stage[k] # "new" => reply'[k] = reply[k],
         \A k \in ChatJobs : Resolved(k)' => Resolved(k) /\ chainRoot'[k] = chainRoot[k]
  PROVE  ChainInv'
<1>1. RootsOfFirst'
  BY RootStays DEF RootsOfFirst
<1>2. RootsOfReplies'
  <2> SUFFICES ASSUME NEW j \in ChatJobs, NEW up \in ChatJobs, Follows(j, up)'
               PROVE  chainRoot'[j] = Top'[up]
    BY DEF RootsOfReplies
  <2>1. Resolved(j) /\ chainRoot'[j] = chainRoot[j]
    BY DEF Follows
  <2> QED BY <2>1, RootStays
<1> QED
  BY <1>1, <1>2 DEF ChainInv

-----------------------------------------------------------------------------
(* The rows.                                                               *)

(* Eviction leaves rows that there were.                                   *)
LEMMA Evicted ==
  ASSUME ConversationAssumption, NEW X, NEW s \in Seq(X), NEW t \in EvictBytes(EvictRows(s))
  PROVE  t \in Seq(X) /\ \A n \in 1 .. Len(t) : \E m \in 1 .. Len(s) : t[n] = s[m]
<1>1. ASSUME NEW u \in Seq(X), NEW n \in 1 .. Len(u) + 1, NEW v, v = SubSeq(u, n, Len(u))
      PROVE  v \in Seq(X) /\ \A k \in 1 .. Len(v) : \E m \in 1 .. Len(u) : v[k] = u[m]
  <2>1. Len(u) \in Nat /\ v \in Seq(X) /\ Len(v) = Len(u) - n + 1
    BY <1>1
  <2>2. ASSUME NEW k \in 1 .. Len(v) PROVE n + k - 1 \in 1 .. Len(u) /\ v[k] = u[n + k - 1]
    BY <1>1, <2>1
  <2> QED
    BY <2>1, <2>2
<1>2. EvictRows(s) \in Seq(X) /\ \A k \in 1 .. Len(EvictRows(s)) : \E m \in 1 .. Len(s) : EvictRows(s)[k] = s[m]
  <2>1. CASE MaxRows > 0 /\ Len(s) > MaxRows
    <3>1. PICK n \in 1 .. Len(s) + 1 : EvictRows(s) = SubSeq(s, n, Len(s))
      BY <2>1 DEF EvictRows, ConversationAssumption
    <3> QED BY <1>1, <3>1
  <2>2. CASE ~(MaxRows > 0 /\ Len(s) > MaxRows)
    BY <2>2 DEF EvictRows
  <2> QED BY <2>1, <2>2
<1> DEFINE u == EvictRows(s)
<1>3. t \in Seq(X) /\ \A k \in 1 .. Len(t) : \E m \in 1 .. Len(u) : t[k] = u[m]
  <2>1. CASE ByteLimit
    <3>1. PICK n \in 1 .. Len(u) + 1 : t = SubSeq(u, n, Len(u))
      BY <2>1 DEF EvictBytes
    <3> HIDE DEF u
    <3> QED BY <1>1, <1>2, <3>1 DEF u
  <2>2. CASE ~ByteLimit
    <3>1. t = u
      BY <2>2 DEF EvictBytes
    <3> QED BY <1>2, <3>1
  <2> QED BY <2>1, <2>2
<1> QED
  BY <1>2, <1>3

LEMMA RecordedRows ==
  ASSUME ConversationAssumption, RowsOK, NEW x \in TableRow, Recorded(x)
  PROVE  /\ entries' \in Seq(TableRow)
         /\ \A n \in 1 .. Len(entries') : entries'[n] = x \/ RowOK(entries'[n], stage)
<1>1. /\ Append(entries, x) \in Seq(TableRow)
      /\ \A n \in 1 .. Len(Append(entries, x)) :
           Append(entries, x)[n] = x \/ RowOK(Append(entries, x)[n], stage)
  BY DEF RowsOK
<1> DEFINE s == Append(entries, x)
<1>2. entries' \in EvictBytes(EvictRows(s))
  BY DEF Recorded
<1> HIDE DEF s
<1>3. entries' \in Seq(TableRow) /\ \A n \in 1 .. Len(entries') : \E m \in 1 .. Len(s) : entries'[n] = s[m]
  BY <1>1, <1>2, Evicted DEF s
<1> QED
  BY <1>1, <1>3 DEF s

(* A step that binds no row may write rows of its job.                     *)
LEMMA RowsStay ==
  ASSUME Types, RowsOK, NEW j \in ChatJobs, NEW from \in {"new", "recorded", "rooted"} \cup Late(j),
         Moves(j, from), j \in Fixes \/ from # "submitted",
         entries' \in Seq(TableRow), \A n \in 1 .. Len(entries') : RowOK(entries'[n], stage) \/ RowOK(entries'[n], stage')
  PROVE  RowsOK'
<1>1. \A k \in ChatJobs \ Fixes : stage'[k] \in PastBind <=> stage[k] \in PastBind
  BY Moved
<1>2. ASSUME NEW n \in 1 .. Len(entries') PROVE RowOK(entries'[n], stage')
  <2> DEFINE x == entries'[n]
  <2>1. x \in TableRow
    OBVIOUS
  <2> HIDE DEF x
  <2>2. x.job \in ChatJobs
    BY <2>1 DEF TableRow
  <2>3. RowOK(x, stage) \/ RowOK(x, stage')
    BY DEF x
  <2>4. RowOK(x, stage')
    BY <1>1, <2>2, <2>3 DEF RowOK
  <2> QED
    BY <2>4 DEF x
<1> QED
  BY <1>2 DEF RowsOK

-----------------------------------------------------------------------------
(* The steps.                                                              *)

(* A step of a job that is recorded, resolves no root and binds no row.    *)
LEMMA LaterStepChained ==
  ASSUME ConversationAssumption, Types, ChainInv, NEW j \in ChatJobs,
         NEW from \in {"rooted"} \cup Late(j), Moves(j, from),
         UNCHANGED <<reply, chainRoot, partial>>, RowsOK'
  PROVE  ChainInv'
<1>1. /\ stage[j] = from /\ (\A k \in ChatJobs \ {j} : stage'[k] = stage[k]) /\ stage'[j] # "new"
      /\ from # "new" /\ from # "recorded" /\ stage'[j] \notin Unresolved
  <2>1. from \notin {"new", "recorded"}
    BY DEF Late
  <2> QED BY <2>1, Moved
<1>2. RepliesBack'
  BY <1>1 DEF ChainInv, RepliesBack
<1>3. \A k \in ChatJobs : Resolved(k)' => Resolved(k)
  BY <1>1 DEF Resolved, Unresolved
<1> QED
  BY <1>2, <1>3, ChainStays

LEMMA RecordChained ==
  ASSUME ConversationAssumption, Types, ChainInv, NEW j \in ChatJobs, Record(j) PROVE ChainInv'
<1>1. /\ Moves(j, "new") /\ Recorded(Row(j, "user", None))
      /\ UNCHANGED <<chainRoot, partial>>
  BY DEF Record
<1>2. PICK m \in {None} \cup UNION {Visible(k) : k \in Earlier(j)} : reply' = [reply EXCEPT ![j] = m]
  BY DEF Record
<1>3. /\ stage[j] = "new" /\ (\A k \in ChatJobs \ {j} : stage'[k] = stage[k]) /\ stage'[j] # "new"
      /\ stage'[j] \in Unresolved
  BY <1>1, Moved
<1>4. ASSUME m # None
      PROVE  \E k \in ChatJobs, r \in Roles :
               m = Message(k, r) /\ k < j /\ ProjectOf[k] = ProjectOf[j] /\ stage[k] # "new"
  <2>1. PICK k \in Earlier(j) : m \in Visible(k)
    BY <1>4
  <2>2. k \in ChatJobs /\ k < j /\ ProjectOf[k] = ProjectOf[j]
    BY DEF Earlier
  <2>3. PICK r \in Roles : m = Message(k, r) /\ (Reached(k, "recorded") \/ Reached(k, "submitted") \/ Reached(k, "ran"))
    BY <2>1 DEF Visible, Roles
  <2>4. stage[k] # "new"
    <3>1. Rank(k, "new") = 1 /\ Rank(k, "recorded") = 2 /\ Rank(k, "submitted") = 5
      BY DEF Rank, Steps
    <3>2. Rank(k, "ran") \in {6, 8}
      BY DEF Rank, Steps
    <3> QED BY <2>3, <3>1, <3>2 DEF Reached
  <2> QED BY <2>2, <2>3, <2>4
<1>5. RepliesBack'
  <2>1. \A i \in ChatJobs \ {j} : reply'[i] = reply[i]
    BY <1>2 DEF ChainInv, RepliesBack
  <2>2. DOMAIN reply' = ChatJobs /\ reply'[j] = m
    BY <1>2 DEF ChainInv, RepliesBack
  <2>3. \A i \in ChatJobs : stage[i] # "new" => stage'[i] # "new"
    BY <1>3
  <2>4. ASSUME NEW i \in ChatJobs, reply'[i] # None
        PROVE  \E k \in ChatJobs, r \in Roles :
                 /\ reply'[i] = Message(k, r) /\ k < i /\ ProjectOf[k] = ProjectOf[i]
                 /\ stage'[k] # "new" /\ stage'[i] # "new"
    <3>1. CASE i = j
      BY <1>3, <1>4, <2>2, <2>3, <2>4, <3>1
    <3>2. CASE i # j
      BY <2>1, <2>3, <2>4, <3>2 DEF ChainInv, RepliesBack
    <3> QED BY <3>1, <3>2
  <2> QED BY <2>2, <2>4 DEF RepliesBack
<1>6. RowsOK'
  <2>1. Row(j, "user", None) \in TableRow
    BY DEF Row, TableRow, Roles
  <2>2. RowOK(Row(j, "user", None), stage')
    <3>1. stage'[j] \notin PastBind
      BY <1>3 DEF Unresolved, PastBind
    <3> QED BY <3>1 DEF Row, RowOK
  <2>3. /\ entries' \in Seq(TableRow)
        /\ \A n \in 1 .. Len(entries') : RowOK(entries'[n], stage) \/ RowOK(entries'[n], stage')
    BY <1>1, <2>1, <2>2, RecordedRows DEF ChainInv
  <2> QED
    BY <1>1, <2>3, RowsStay DEF ChainInv
<1>7. \A k \in ChatJobs : stage[k] # "new" => reply'[k] = reply[k]
  BY <1>2, <1>3 DEF ChainInv, RepliesBack
<1>8. \A k \in ChatJobs : Resolved(k)' => Resolved(k)
  BY <1>3 DEF Resolved
<1> QED
  BY <1>1, <1>5, <1>6, <1>7, <1>8, ChainStays

(* A job that replies to what memory holds finds the oldest of its chain, if *)
(* that is of users and no longer than the limit.                          *)
LEMMA ResolveChained ==
  ASSUME ConversationAssumption, Types, ChainInv, NEW j \in ChatJobs, Resolve(j) PROVE ChainInv'
<1>1. /\ Moves(j, "recorded") /\ chainRoot' = [chainRoot EXCEPT ![j] = RootOf(j)]
      /\ UNCHANGED <<entries, reply>> /\ partial \subseteq partial'
      /\ j \notin partial' =>
           reply[j] = None \/ (RowsOf(reply[j]) # {} /\ \A a \in Ancestors[j] : HasUser(a))
  BY DEF Resolve
<1>2. /\ stage[j] = "recorded" /\ (\A k \in ChatJobs \ {j} : stage'[k] = stage[k])
      /\ stage'[j] # "new" /\ stage'[j] \notin Unresolved
  BY <1>1, Moved
<1>3. RepliesBack'
  BY <1>1, <1>2 DEF ChainInv, RepliesBack
<1>4. RowsOK'
  <2>1. entries' \in Seq(TableRow) /\ \A n \in 1 .. Len(entries') : RowOK(entries'[n], stage)
    BY <1>1 DEF ChainInv, RowsOK
  <2> QED
    BY <1>1, <2>1, RowsStay DEF ChainInv
<1>5. chainRoot'[j] = RootOf(j) /\ \A k \in ChatJobs \ {j} : chainRoot'[k] = chainRoot[k]
  BY <1>1 DEF Types
<1>6. \A k \in ChatJobs \ {j} : Resolved(k)' => Resolved(k)
  BY <1>2 DEF Resolved
<1>7. reply[j] = None => chainRoot'[j] = j
  BY <1>5 DEF RootOf
<1>8. ASSUME NEW up \in ChatJobs, Follows(j, up)' PROVE chainRoot'[j] = Top'[up]
  <2>1. /\ reply[j] # None /\ j \notin partial' /\ up = reply[j].job
        /\ UserChain'[up] <= MaxDepth /\ (up \in Fixes => reply[j].role = "user")
    BY <1>1, <1>8 DEF Follows
  <2>2. stage[up] # "new" /\ reply[j].role \in Roles /\ reply[j] = Message(up, reply[j].role)
    BY <2>1, Replied DEF ChainInv
  <2>3. Top'[up] = Top[up] /\ UserChain[up] <= MaxDepth
    BY <1>1, <1>3, <2>1, <2>2, ChainKept DEF ChainInv
  <2>4. RowsOf(reply[j]) # {} /\ HasUser(up) /\ \A a \in Ancestors[up] : HasUser(a)
    BY <1>1, <2>1, AncestorsIs DEF ChainInv
  <2>5. Start(reply[j]) = up
    <3>1. CASE reply[j].role = "user"
      BY <2>1, <2>4, <3>1 DEF Start
    <3>2. CASE reply[j].role # "user"
      <4>1. /\ DOMAIN entries = 1 .. Len(entries)
            /\ \A n \in DOMAIN entries : RowOK(entries[n], stage)
        BY DEF ChainInv, RowsOK
      <4>2. PICK n \in DOMAIN entries : entries[n].job = up /\ entries[n].role = reply[j].role
        <5>1. PICK n \in DOMAIN entries : Message(entries[n].job, entries[n].role) = reply[j]
          BY <2>4 DEF RowsOf
        <5>2. entries[n].job = reply[j].job /\ entries[n].role = reply[j].role
          BY <5>1 DEF Message
        <5> QED BY <2>1, <5>2
      <4>3. up \notin Fixes /\ stage[up] \in PastBind
        BY <2>1, <3>2, <4>1, <4>2 DEF RowOK
      <4>4. PICK m \in DOMAIN entries : entries[m].job = up /\ entries[m].role = "user"
        BY <2>4 DEF HasUser, RowsOf, Message
      <4>5. entries[m].bound = up
        BY <4>1, <4>3, <4>4 DEF RowOK
      <4>6. UserOf(up) = up
        BY <4>4, <4>5 DEF UserOf
      <4> QED
        BY <2>1, <2>4, <3>2, <4>6 DEF Start
    <3> QED BY <3>1, <3>2
  <2>6. up # None
    BY DEF ConversationAssumption
  <2>7. RootOf(j) = Oldest[up][MaxDepth]
    BY <2>1, <2>4, <2>5, <2>6 DEF RootOf
  <2> QED
    BY <1>5, <2>3, <2>4, <2>7, OldestIsTop DEF ChainInv
<1>9. ASSUME NEW k \in ChatJobs, Resolved(k)'
      PROVE  /\ reply'[k] = None => chainRoot'[k] = k
             /\ \A up \in ChatJobs : Follows(k, up)' => chainRoot'[k] = Top'[up]
  <2>1. CASE k = j
    BY <1>1, <1>7, <1>8, <2>1
  <2>2. CASE k # j
    BY <1>1, <1>3, <1>5, <1>6, <1>9, <2>2, RootStays
  <2> QED BY <2>1, <2>2
<1>10. RootsOfFirst' /\ RootsOfReplies'
  <2>1. RootsOfFirst'
    BY <1>9 DEF RootsOfFirst
  <2>2. ASSUME NEW k \in ChatJobs, NEW up \in ChatJobs, Follows(k, up)' PROVE chainRoot'[k] = Top'[up]
    <3>1. Resolved(k)'
      BY <2>2 DEF Follows
    <3> QED BY <1>9, <2>2, <3>1
  <2> QED BY <2>1, <2>2 DEF RootsOfReplies
<1> QED
  BY <1>3, <1>4, <1>10 DEF ChainInv

(* Steps that write no row.                                                *)
LEMMA SilentStepChained ==
  ASSUME ConversationAssumption, Types, ChainInv, NEW j \in ChatJobs,
         Attach(j) \/ Submit(j) \/ RunAgent(j) \/ SaveToken(j)
  PROVE  ChainInv'
<1>1. UNCHANGED <<entries, reply, chainRoot, partial>>
  BY DEF Attach, Submit, RunAgent, SaveToken
<1>2. PICK from \in {"rooted"} \cup Late(j) : Moves(j, from) /\ (j \in Fixes \/ from # "submitted")
  BY DEF Attach, Submit, RunAgent, SaveToken, Late
<1>3. RowsOK'
  <2>1. entries' \in Seq(TableRow) /\ \A n \in 1 .. Len(entries') : RowOK(entries'[n], stage)
    BY <1>1 DEF ChainInv, RowsOK
  <2> QED
    BY <1>2, <2>1, RowsStay DEF ChainInv
<1> QED
  BY <1>1, <1>2, <1>3, LaterStepChained

LEMMA BindChained ==
  ASSUME ConversationAssumption, Types, ChainInv, NEW j \in ChatJobs, Bind(j) PROVE ChainInv'
<1>1. /\ Moves(j, "submitted") /\ j \notin Fixes /\ UNCHANGED <<reply, chainRoot, partial>>
      /\ entries' = [n \in DOMAIN entries |->
           IF Message(entries[n].job, entries[n].role) = Message(j, "user")
           THEN [entries[n] EXCEPT !.bound = j] ELSE entries[n]]
  BY DEF Bind
<1>2. entries \in Seq(TableRow) /\ \A n \in 1 .. Len(entries) : RowOK(entries[n], stage)
  BY DEF ChainInv, RowsOK
<1>3. "submitted" \in Late(j)
  BY DEF Late
<1>4. stage[j] = "submitted" /\ \A k \in ChatJobs \ {j} : stage'[k] = stage[k]
  BY <1>1, <1>3, Moved
<1>5. ASSUME NEW x \in TableRow, RowOK(x, stage), NEW y,
             y = IF Message(x.job, x.role) = Message(j, "user") THEN [x EXCEPT !.bound = j] ELSE x
      PROVE  y \in TableRow /\ RowOK(y, stage')
  <2>1. CASE x.job = j /\ x.role = "user"
    <3>1. y = [x EXCEPT !.bound = j]
      BY <1>5, <2>1 DEF Message
    <3>2. y \in TableRow /\ y.job = j /\ y.role = "user" /\ y.bound = j
      BY <2>1, <3>1 DEF TableRow
    <3> QED BY <3>2 DEF RowOK
  <2>2. CASE ~(x.job = j /\ x.role = "user")
    <3>1. y = x
      BY <1>5, <2>2 DEF Message
    <3>2. x.job = j => x.role # "user" /\ FALSE
      BY <1>1, <1>4, <1>5, <2>2 DEF RowOK, PastBind
    <3>3. x.job \in ChatJobs
      BY DEF TableRow
    <3> QED BY <1>4, <1>5, <3>1, <3>2, <3>3 DEF RowOK
  <2> QED BY <2>1, <2>2
<1>6. /\ DOMAIN entries = 1 .. Len(entries) /\ Len(entries) \in Nat
      /\ \A n \in 1 .. Len(entries) : entries'[n] \in TableRow /\ RowOK(entries'[n], stage')
  <2>0. DOMAIN entries = 1 .. Len(entries)
    BY <1>2
  <2>1. ASSUME NEW n \in 1 .. Len(entries) PROVE entries'[n] \in TableRow /\ RowOK(entries'[n], stage')
    <3> DEFINE x == entries[n]
               y == entries'[n]
    <3>1. x \in TableRow /\ RowOK(x, stage)
      BY <1>2
    <3>2. y = IF Message(x.job, x.role) = Message(j, "user") THEN [x EXCEPT !.bound = j] ELSE x
      BY <1>1, <2>0
    <3> HIDE DEF x, y
    <3>3. y \in TableRow /\ RowOK(y, stage')
      BY <1>5, <3>1, <3>2
    <3> QED BY <3>3 DEF y
  <2> QED BY <1>2, <2>1
<1>7. RowsOK'
  <2>1. entries' = [n \in 1 .. Len(entries) |-> entries'[n]]
    BY <1>1, <1>6
  <2>2. entries' \in Seq(TableRow) /\ Len(entries') = Len(entries)
    BY <1>6, <2>1
  <2> QED BY <1>6, <2>2 DEF RowsOK
<1> QED
  BY <1>1, <1>3, <1>7, LaterStepChained

(* A bot's row, of a job that has bound the row of its user.               *)
LEMMA WriteChained ==
  ASSUME ConversationAssumption, Types, ChainInv, NEW j \in ChatJobs, Accept(j) \/ SaveResult(j)
  PROVE  ChainInv'
<1>1. UNCHANGED <<reply, chainRoot, partial>>
  BY DEF Accept, SaveResult
<1>2. PICK from \in Late(j), r \in {"accepted", "result"} :
        /\ Moves(j, from) /\ Recorded(Row(j, r, j)) /\ (j \in Fixes \/ from # "submitted")
        /\ j \in Fixes \/ from \in PastBind
  BY DEF Accept, SaveResult, Late, PastBind
<1>3. Row(j, r, j) \in TableRow
  BY DEF Row, TableRow, Roles
<1>4. RowOK(Row(j, r, j), stage')
  <2>1. j \notin Fixes => stage'[j] \in PastBind
    BY <1>2, Moved
  <2> QED BY <2>1 DEF Row, RowOK
<1>5. RowsOK'
  <2>1. /\ entries' \in Seq(TableRow)
        /\ \A n \in 1 .. Len(entries') : RowOK(entries'[n], stage) \/ RowOK(entries'[n], stage')
    BY <1>2, <1>3, <1>4, RecordedRows DEF ChainInv
  <2> QED
    BY <1>2, <2>1, RowsStay DEF ChainInv
<1> QED
  BY <1>1, <1>2, <1>5, LaterStepChained

LEMMA ClearChained ==
  ASSUME ConversationAssumption, Types, ChainInv, NEW p \in Projects, Clear(p) PROVE ChainInv'
<1>1. entries' = Selected(entries, RowsBeside(p)) /\ UNCHANGED <<stage, reply, chainRoot, partial>>
  BY DEF Clear
<1>2. entries \in Seq(TableRow) /\ \A n \in 1 .. Len(entries) : RowOK(entries[n], stage)
  BY DEF ChainInv, RowsOK
<1>3. InOrder(entries, TableRow \X TableRow)
  BY <1>2 DEF InOrder
<1>4. entries' \in Seq(TableRow) /\ IsSelected(entries, RowsBeside(p), entries', Len(entries))
  BY <1>1, <1>2, <1>3, SelectedIs
<1>5. RowsOK'
  BY <1>1, <1>2, <1>4 DEF RowsOK, IsSelected
<1>6. RepliesBack'
  BY <1>1 DEF ChainInv, RepliesBack
<1> QED
  BY <1>1, <1>5, <1>6, ChainStays DEF Resolved

LEMMA StepChained ==
  ASSUME ConversationAssumption, Types, ChainInv, [TalkNext]_talkVars PROVE ChainInv'
<1>1. CASE UNCHANGED talkVars
  <2>1. RowsOK' /\ RepliesBack'
    BY <1>1 DEF ChainInv, RowsOK, RepliesBack
  <2> QED BY <1>1, <2>1, ChainStays DEF Resolved
<1>2. CASE Quiet
  BY <1>1, <1>2 DEF Quiet
<1> QED
  BY <1>1, <1>2, RecordChained, ResolveChained, SilentStepChained, BindChained, WriteChained, ClearChained
     DEF TalkNext

LEMMA StartChained == ASSUME ConversationAssumption, TalkInit PROVE ChainInv
<1>1. RepliesBack
  BY DEF TalkInit, RepliesBack
<1>2. RowsOK
  BY DEF TalkInit, RowsOK
<1>3. RootsOfFirst /\ RootsOfReplies
  BY DEF TalkInit, RootsOfFirst, RootsOfReplies, Follows, Resolved, Unresolved
<1> QED
  BY <1>1, <1>2, <1>3 DEF ChainInv

LEMMA ChainInvariant == ASSUME ConversationAssumption PROVE TalkSpec => []ChainInv
<1>1. Inv /\ ChainInv /\ [TalkNext]_talkVars => ChainInv'
  BY StepChained DEF Inv
<1> QED
  BY <1>1, StartChained, Invariant, PTL DEF TalkSpec

(* A reply to a job continues its session, whatever /clear memory, eviction *)
(* and other jobs do meanwhile, if the chain below is of users' messages, all *)
(* in memory when they were asked about and at most MaxDepth long, and the *)
(* message is not a bot's of a fix job (resolve_root_message_id, sqlite_store). *)
THEOREM RepliesKeepSessions ==
  ASSUME ConversationAssumption PROVE TalkSpec => []ReplyFollowsUsers
<1>1. ASSUME Inv, ChainInv PROVE ReplyFollowsUsers
  <2> SUFFICES ASSUME NEW j \in ChatJobs, HasSession(j), reply[j] # None, j \notin partial,
                      NEW up, up = reply[j].job, HasSession(up), attached[up] = attached[j],
                      UserChain[up] <= MaxDepth, up \in Fixes => reply[j].role = "user"
               PROVE  session[j] = session[up]
    BY DEF ReplyFollowsUsers
  <2>1. up \in ChatJobs /\ ProjectOf[up] = ProjectOf[j]
    BY <1>1, Replied DEF ChainInv
  <2>2. Settled(j) /\ Settled(up)
    BY <1>1, <2>1, AttachedIsSettled DEF Inv
  <2>3. Resolved(j) /\ Resolved(up)
    BY <2>2 DEF Settled, Before, Resolved, Unresolved
  <2>4. chainRoot[j] = Top[up]
    BY <1>1, <2>1, <2>3 DEF ChainInv, RootsOfReplies, Follows
  <2>5. up \notin partial /\ (reply[up] = None \/ reply[up].role = "user")
    BY <1>1, <2>1, UserChainIs DEF ChainInv, ConversationAssumption, UserChainFollows
  <2>6. chainRoot[up] = Top[up]
    <3>1. CASE reply[up] = None
      BY <1>1, <2>1, <2>3, <3>1, TopIs DEF ChainInv, RootsOfFirst, TopFollows
    <3>2. CASE reply[up] # None
      <4> DEFINE above == reply[up].job
      <4>1. above \in ChatJobs /\ reply[up].role = "user"
        BY <1>1, <2>1, <2>5, <3>2, Replied DEF ChainInv
      <4>2. UserChain[up] = 1 + UserChain[above] /\ UserChain[above] \in Nat
        BY <1>1, <2>1, <2>5, <3>2, <4>1, UserChainIs DEF ChainInv, UserChainFollows
      <4>3. UserChain[above] <= MaxDepth
        <5> HIDE DEF above
        <5> QED BY <4>2 DEF ConversationAssumption
      <4>4. chainRoot[up] = Top[above]
        BY <1>1, <2>1, <2>3, <2>5, <3>2, <4>1, <4>3 DEF ChainInv, RootsOfReplies, Follows
      <4> QED
        BY <1>1, <2>1, <3>2, <4>1, <4>4, TopIs DEF ChainInv, TopFollows
    <3> QED BY <3>1, <3>2
  <2> QED
    BY <1>1, <2>1, <2>2, <2>4, <2>6 DEF Inv, Threads
<1> QED
  BY <1>1, Invariant, ChainInvariant, PTL

-----------------------------------------------------------------------------
(***************************************************************************)
(* What the model reads of a session and what a run leaves behind, for any *)
(* number of runs, any limits and any answers.                             *)
(*                                                                         *)
(* The runs follow each other (InTurn), so a line of the transcript is of a *)
(* run that ended, except the prompt between its two writes (OldLines); the *)
(* lines are a conversation (Conversing), as is every end of them that the *)
(* limits leave.  The tree has a beginning of the answer's patches (Applies). *)
(***************************************************************************)

Lines == [run : Runs, role : {"user", "assistant"}, size : Sizes]
Places == {"queued", "loaded", "asked", "applying", "applied", "written"}

(* A sequence of lines is a conversation.                                  *)
Conversing(s) ==
  \A n \in 2 .. Len(s) :
    /\ s[n - 1].run <= s[n].run
    /\ s[n].role = "assistant" => s[n - 1].run = s[n].run /\ s[n - 1].role = "user"

OllamaTypes ==
  /\ rows \in Seq(Lines) /\ sent \in Seq(Lines)
  /\ at \in Places /\ exit \in [Runs -> {None} \cup Outcomes]
  /\ at \in {"applying", "applied", "written"} => answer \in Answers
  /\ tree \in Seq(Patches \cup {"part"})

InTurn == \A r \in Runs : exit[r] # None => \A q \in Runs : q < r => exit[q] # None

(* The prompt is written, the answer is not yet.                           *)
Half(r) == at = "written" /\ AtWork(r)
OldLines ==
  /\ \A n \in DOMAIN rows :
       exit[rows[n].run] # None \/ (Half(rows[n].run) /\ n = Len(rows) /\ rows[n].role = "user")
  /\ \A r \in Runs : Half(r) => rows # <<>> /\ rows[Len(rows)].run = r
  /\ at = "written" => \E r \in Runs : AtWork(r)

Asks == at # "queued" => sent # <<>> /\ \A r \in Runs : AtWork(r) => sent[Len(sent)].run = r
Reads == sent # <<>> => sent[Len(sent)].role = "user" /\ Conversing(sent)

AllOf(r) == tree = IF r \in ReadOnly THEN <<>> ELSE answer.patches
Applies ==
  /\ at \in {"loaded", "asked"} => tree = <<>>
  /\ at = "applying" =>
       /\ Len(tree) <= Len(answer.patches)
       /\ \A n \in 1 .. Len(tree) : tree[n] = answer.patches[n]
       /\ \A r \in Runs : AtWork(r) => r \notin ReadOnly
  /\ at \in {"applied", "written"} => \A r \in Runs : AtWork(r) => AllOf(r)

OllamaInv ==
  /\ OllamaTypes /\ InTurn /\ OldLines /\ Conversing(rows) /\ Asks /\ Reads /\ Applies
  /\ OutcomeHolds

-----------------------------------------------------------------------------
(* Lemmas about the runs and their lines.                                  *)

(* One run is at work at a time.                                           *)
LEMMA OneAtWork ==
  ASSUME OllamaAssumption, NEW r \in Runs, NEW q \in Runs, AtWork(r), AtWork(q)
  PROVE  r = q
BY DEF OllamaAssumption, AtWork

(* Those that ended come before it.                                        *)
LEMMA EndedBefore ==
  ASSUME OllamaAssumption, InTurn, NEW r \in Runs, AtWork(r), NEW q \in Runs, exit[q] # None
  PROVE  q < r
BY DEF OllamaAssumption, AtWork, InTurn

(* What the limits leave of the transcript is its end.                     *)
LEMMA HistoryIsEnd ==
  ASSUME OllamaTypes
  PROVE  /\ History \in Seq(Lines) /\ Len(History) <= Len(rows)
         /\ \A n \in 1 .. Len(History) : History[n] = rows[Len(rows) - Len(History) + n]
<1> DEFINE k == Max(Fitting)
<1>1. k \in 0 .. Len(rows)
  <2>1. Len(rows) \in Nat
    BY DEF OllamaTypes
  <2>2. Fitting \in SUBSET (0 .. Len(rows)) /\ Fitting # {}
    BY <2>1 DEF Fitting
  <2>3. Fitting \in SUBSET Nat
    BY <2>1, <2>2
  <2>4. IsFiniteSet(0 .. Len(rows))
    BY <2>1, FS_Interval
  <2>5. IsFiniteSet(Fitting)
    BY <2>2, <2>4, FS_Subset
  <2>6. QED
    BY <2>1, <2>2, <2>3, <2>5, Greatest
<1> HIDE DEF k
<1>2. History = SubSeq(rows, Len(rows) - k + 1, Len(rows))
  BY DEF History, Newest, k
<1>3. \A n \in Len(rows) - k + 1 .. Len(rows) : rows[n] \in Lines
  BY <1>1 DEF OllamaTypes
<1>4. QED
  BY <1>1, <1>2, <1>3, SubSeqProperties DEF OllamaTypes

(* Its messages are a conversation, of runs that ended.                    *)
LEMMA HistoryTalks ==
  ASSUME OllamaInv, at = "queued"
  PROVE  /\ History \in Seq(Lines) /\ Conversing(History)
         /\ \A n \in 1 .. Len(History) : exit[History[n].run] # None
<1>1. /\ History \in Seq(Lines) /\ Len(History) <= Len(rows)
      /\ \A n \in 1 .. Len(History) : History[n] = rows[Len(rows) - Len(History) + n]
  BY HistoryIsEnd DEF OllamaInv
<1> DEFINE d == Len(rows) - Len(History)
<1>2. d \in Nat /\ \A n \in 1 .. Len(History) : n + d \in 1 .. Len(rows)
  BY <1>1 DEF OllamaInv, OllamaTypes
<1>3. Conversing(History)
  <2>1. ASSUME NEW n \in 2 .. Len(History)
        PROVE  /\ History[n] = rows[n + d] /\ History[n - 1] = rows[(n + d) - 1]
               /\ n + d \in 2 .. Len(rows)
    BY <1>1, <1>2
  <2> HIDE DEF d
  <2>2. QED
    BY <2>1 DEF OllamaInv, Conversing
<1>4. \A n \in 1 .. Len(History) : exit[History[n].run] # None
  <2>1. \A n \in 1 .. Len(History) : n + d \in DOMAIN rows /\ History[n] = rows[n + d]
    BY <1>1, <1>2 DEF OllamaInv, OllamaTypes
  <2> HIDE DEF d
  <2>2. QED
    BY <2>1 DEF OllamaInv, OldLines, Half
<1>5. QED
  BY <1>1, <1>3, <1>4

-----------------------------------------------------------------------------
(* The steps.                                                              *)

LEMMA OllamaStartSafe == ASSUME OllamaAssumption, OllamaInit PROVE OllamaInv
<1>1. OllamaTypes
  BY DEF OllamaInit, OllamaTypes, Places
<1>2. InTurn /\ OldLines /\ Conversing(rows) /\ Asks /\ Reads /\ Applies
  BY DEF OllamaInit, InTurn, OldLines, Half, Conversing, Asks, Reads, Applies
<1>3. OutcomeHolds
  BY DEF OllamaInit, OutcomeHolds, FailedRunsForgotten, SuccessAppliedAll, LastEnded
<1>4. QED
  BY <1>1, <1>2, <1>3 DEF OllamaInv

(* A run goes on: it stays the one at work, and the others as they are.    *)
LEMMA GoesOn ==
  ASSUME OllamaAssumption, OllamaInv, NEW r \in Runs, NEW from, NEW to, Proceeds(r, from, to)
  PROVE  /\ exit' = exit /\ AtWork(r) /\ at = from /\ at' = to /\ InTurn'
         /\ \A q \in Runs : AtWork(q)' <=> AtWork(q)
         /\ \A q \in Runs : AtWork(q) <=> q = r
BY OneAtWork DEF Proceeds, OllamaInv, InTurn, AtWork

(* A run ends: it is the last that ended.                                  *)
LEMMA Ended ==
  ASSUME OllamaAssumption, OllamaInv, NEW r \in Runs, NEW from, NEW how \in Outcomes, Exits(r, from, how)
  PROVE  /\ exit' \in [Runs -> {None} \cup Outcomes] /\ exit'[r] = how
         /\ \A q \in Runs \ {r} : exit'[q] = exit[q]
         /\ AtWork(r) /\ at = from /\ at' = "queued" /\ InTurn'
         /\ LastEnded' \subseteq {r}
<1>1. /\ exit' \in [Runs -> {None} \cup Outcomes] /\ exit'[r] = how
      /\ \A q \in Runs \ {r} : exit'[q] = exit[q]
      /\ AtWork(r) /\ at = from /\ at' = "queued"
  BY DEF Exits, OllamaInv, OllamaTypes
<1>2. InTurn'
  BY <1>1 DEF InTurn, OllamaInv, AtWork, OllamaAssumption
<1>3. ASSUME NEW q \in LastEnded' PROVE q = r
  <2>1. q \in Runs /\ r <= q /\ exit'[q] # None
    BY <1>1 DEF LastEnded, OllamaAssumption
  <2>2. CASE q # r
    BY <1>1, <2>1, <2>2, EndedBefore DEF OllamaInv, OllamaAssumption
  <2>3. QED
    BY <2>2
<1>4. QED
  BY <1>1, <1>2, <1>3

(* A run that fails, raises or is lost, whatever it leaves in its tree.    *)
LEMMA FailsSafe ==
  ASSUME OllamaAssumption, OllamaInv, NEW r \in Runs, NEW from,
         NEW how \in {"failed", "raised", "lost"}, Exits(r, from, how),
         how = "failed" => from # "written",
         UNCHANGED rows, sent' \in {sent, <<>>}, tree' \in Seq(Patches \cup {"part"})
  PROVE  OllamaInv'
<1>1. /\ exit' \in [Runs -> {None} \cup Outcomes] /\ exit'[r] = how
      /\ \A q \in Runs \ {r} : exit'[q] = exit[q]
      /\ AtWork(r) /\ at = from /\ at' = "queued" /\ InTurn'
      /\ LastEnded' \subseteq {r}
  BY Ended DEF Outcomes
<1>2. OllamaTypes'
  <2>1. rows' \in Seq(Lines) /\ sent' \in Seq(Lines)
    <3>1. rows \in Seq(Lines) /\ sent \in Seq(Lines) /\ <<>> \in Seq(Lines)
      BY DEF OllamaInv, OllamaTypes
    <3>2. QED
      BY <3>1
  <2>2. QED
    BY <1>1, <2>1 DEF OllamaTypes, Places
<1>3. \A n \in DOMAIN rows : rows[n].run \in Runs
  <2>1. \A n \in DOMAIN rows : rows[n] \in Lines
    BY DEF OllamaInv, OllamaTypes
  <2>2. QED
    BY <2>1 DEF Lines
<1>4. \A n \in DOMAIN rows : exit[rows[n].run] # None \/ (rows[n].run = r /\ at = "written")
  BY <1>1, <1>3, OneAtWork DEF OllamaInv, OldLines, Half
<1>5. OldLines'
  BY <1>1, <1>3, <1>4 DEF OldLines, Half, OllamaAssumption, Outcomes
<1>6. Conversing(rows)' /\ Reads'
  BY DEF OllamaInv, Conversing, Reads
<1>7. Asks' /\ Applies'
  BY <1>1 DEF Asks, Applies
<1>8. FailedRunsForgotten'
  BY <1>1, <1>3, <1>4 DEF OllamaInv, OutcomeHolds, FailedRunsForgotten, AtWork
<1>9. SuccessAppliedAll'
  BY <1>1 DEF SuccessAppliedAll
<1>10. QED
  BY <1>1, <1>2, <1>5, <1>6, <1>7, <1>8, <1>9 DEF OllamaInv, OutcomeHolds

(* A run that goes on and writes nothing yet.                              *)
LEMMA GoesOnSafe ==
  ASSUME OllamaAssumption, OllamaInv, NEW r \in Runs, NEW from, NEW to \in Places \ {"queued", "written"},
         Proceeds(r, from, to), from # "written",
         UNCHANGED rows, OllamaTypes', Asks', Reads', Applies'
  PROVE  OllamaInv'
<1>1. /\ exit' = exit /\ AtWork(r) /\ at = from /\ at' = to /\ InTurn'
      /\ \A q \in Runs : AtWork(q)' <=> AtWork(q)
  BY GoesOn
<1>2. OldLines'
  BY <1>1 DEF OllamaInv, OldLines, Half
<1>3. Conversing(rows)'
  BY DEF OllamaInv, Conversing
<1>4. OutcomeHolds'
  BY <1>1 DEF OllamaInv, OutcomeHolds, FailedRunsForgotten, SuccessAppliedAll, LastEnded
<1>5. QED
  BY <1>1, <1>2, <1>3, <1>4 DEF OllamaInv

LEMMA LoadSafe == ASSUME OllamaAssumption, OllamaInv, NEW r \in Runs, Load(r) PROVE OllamaInv'
<1>1. PICK size \in Sizes, past \in {<<>>, History} : sent' = Append(past, Line(r, "user", size))
  BY DEF Load
<1>2. Proceeds(r, "queued", "loaded") /\ tree' = <<>> /\ UNCHANGED rows
  BY DEF Load
<1>3. /\ exit' = exit /\ AtWork(r) /\ at = "queued" /\ at' = "loaded"
      /\ \A q \in Runs : AtWork(q)' <=> q = r
  BY <1>2, GoesOn
<1>4. /\ past \in Seq(Lines) /\ Conversing(past)
      /\ \A n \in 1 .. Len(past) : exit[past[n].run] # None
  <2>1. <<>> \in Seq(Lines) /\ Len(<<>>) = 0 /\ Conversing(<<>>)
    BY DEF Conversing
  <2>2. CASE past = <<>>
    BY <2>1, <2>2
  <2>3. CASE past = History
    BY <1>3, <2>3, HistoryTalks
  <2>4. QED
    BY <2>2, <2>3
<1> DEFINE new == Line(r, "user", size)
<1>5. new \in Lines /\ new.run = r /\ new.role = "user"
  BY DEF Line, Lines
<1> HIDE DEF new
<1>6. /\ sent' \in Seq(Lines) /\ sent' # <<>> /\ Len(sent') = Len(past) + 1 /\ Len(past) \in Nat
      /\ sent'[Len(sent')] = new /\ \A n \in 1 .. Len(past) : sent'[n] = past[n]
  BY <1>1, <1>4, <1>5 DEF new
<1>7. Conversing(sent')
  <2>1. ASSUME NEW n \in 2 .. Len(past) PROVE sent'[n] = past[n] /\ sent'[n - 1] = past[n - 1]
    BY <1>4, <1>6
  <2>2. ASSUME Len(past) # 0 PROVE sent'[Len(past)].run <= r
    <3>1. past[Len(past)].run \in Runs /\ exit[past[Len(past)].run] # None
      <4>1. Len(past) \in 1 .. Len(past) /\ past[Len(past)] \in Lines
        BY <1>4, <1>6, <2>2
      <4>2. QED
        BY <1>4, <4>1 DEF Lines
    <3>2. past[Len(past)].run < r
      BY <1>3, <3>1, EndedBefore DEF OllamaInv
    <3>3. QED
      <4>1. sent'[Len(past)] = past[Len(past)] /\ \A q \in Runs : q \in Nat
        BY <1>6, <2>2 DEF OllamaAssumption
      <4>2. QED
        BY <3>1, <3>2, <4>1
  <2>3. QED
    BY <1>4, <1>5, <1>6, <2>1, <2>2 DEF Conversing
<1>8. OllamaTypes'
  BY <1>2, <1>3, <1>6 DEF OllamaInv, OllamaTypes, Places
<1>9. Asks' /\ Reads' /\ Applies'
  BY <1>2, <1>3, <1>5, <1>6, <1>7 DEF Asks, Reads, Applies, Conversing
<1>10. QED
  BY <1>2, <1>8, <1>9, GoesOnSafe DEF Places

LEMMA AskSafe == ASSUME OllamaAssumption, OllamaInv, NEW r \in Runs, Ask(r) PROVE OllamaInv'
<1>1. CASE r \in cancelled
  BY <1>1, FailsSafe DEF Ask, OllamaInv, OllamaTypes
<1>2. CASE r \notin cancelled
  <2>1. /\ Proceeds(r, "loaded", "asked") /\ UNCHANGED <<rows, sent, answer, tree>>
        /\ exit' = exit /\ at = "loaded" /\ at' = "asked" /\ \A q \in Runs : AtWork(q)' <=> AtWork(q)
    BY <1>2, GoesOn DEF Ask
  <2>2. OllamaTypes'
    BY <2>1 DEF OllamaInv, OllamaTypes, Places
  <2>3. Asks' /\ Reads' /\ Applies'
    BY <2>1 DEF OllamaInv, Asks, Reads, Applies, Conversing
  <2>4. QED
    BY <2>1, <2>2, <2>3, GoesOnSafe DEF Places
<1>3. QED
  BY <1>1, <1>2

LEMMA ChatSafe == ASSUME OllamaAssumption, OllamaInv, NEW r \in Runs, Chat(r) PROVE OllamaInv'
<1> DEFINE to == IF r \in ReadOnly THEN "applied" ELSE "applying"
<1>1. Proceeds(r, "asked", to) /\ answer' \in Answers /\ UNCHANGED <<rows, sent, tree>>
  BY DEF Chat
<1>2. /\ exit' = exit /\ at = "asked" /\ at' = to /\ \A q \in Runs : AtWork(q)' <=> AtWork(q)
      /\ \A q \in Runs : AtWork(q) <=> q = r
  BY <1>1, GoesOn
<1>3. OllamaTypes'
  BY <1>1, <1>2 DEF OllamaInv, OllamaTypes, Places
<1>4. Asks' /\ Reads'
  BY <1>1, <1>2 DEF OllamaInv, Asks, Reads, Conversing
<1>5. Applies'
  <2>1. tree' = <<>> /\ answer'.patches \in Seq(Patches)
    BY <1>1, <1>2 DEF OllamaInv, Applies, Answers, OllamaAssumption
  <2>2. QED
    BY <1>1, <1>2, <2>1 DEF Applies, AllOf
<1>6. QED
  BY <1>1, <1>3, <1>4, <1>5, GoesOnSafe DEF Places

LEMMA ApplyPatchSafe == ASSUME OllamaAssumption, OllamaInv, NEW r \in Runs, ApplyPatch(r) PROVE OllamaInv'
<1>1. /\ at = "applying" /\ Len(tree) < Len(answer.patches) /\ UNCHANGED <<rows, sent, answer>>
      /\ tree \in Seq(Patches \cup {"part"}) /\ tree' \in Seq(Patches \cup {"part"})
  <2>1. at = "applying" /\ Len(tree) < Len(answer.patches) /\ UNCHANGED <<rows, sent, answer>>
    BY DEF ApplyPatch, Unapplied
  <2>2. tree \in Seq(Patches \cup {"part"}) /\ tree' \in {tree, Append(tree, "part"), Append(tree, "applies")}
    BY DEF ApplyPatch, OllamaInv, OllamaTypes
  <2>3. QED
    BY <2>1, <2>2 DEF Patches
<1>2. CASE Patch = "applies"
  <2>1. Proceeds(r, "applying", "applying") /\ tree' = Append(tree, "applies")
    BY <1>2 DEF ApplyPatch
  <2>2. exit' = exit /\ at' = "applying" /\ \A q \in Runs : AtWork(q)' <=> AtWork(q)
    BY <2>1, GoesOn
  <2>3. OllamaTypes'
    BY <1>1, <2>2 DEF OllamaInv, OllamaTypes
  <2>4. Asks' /\ Reads'
    BY <1>1, <2>2 DEF OllamaInv, Asks, Reads, Conversing
  <2>5. Applies'
    <3>1. /\ Len(tree') = Len(tree) + 1 /\ tree'[Len(tree) + 1] = "applies" /\ Len(tree) \in Nat
          /\ \A n \in 1 .. Len(tree) : tree'[n] = tree[n]
      BY <1>1, <2>1
    <3>2. /\ \A n \in 1 .. Len(tree) : tree[n] = answer.patches[n]
          /\ \A q \in Runs : AtWork(q) => q \notin ReadOnly
      BY <1>1 DEF OllamaInv, Applies
    <3>3. answer.patches \in Seq(Patches) /\ Len(answer.patches) \in Nat
      BY <1>1 DEF OllamaInv, OllamaTypes, Answers, OllamaAssumption
    <3>4. Len(tree') <= Len(answer.patches) /\ \A n \in 1 .. Len(tree') : tree'[n] = answer.patches[n]
      BY <1>1, <1>2, <3>1, <3>2, <3>3 DEF Patch
    <3>5. QED
      BY <1>1, <2>2, <3>2, <3>4 DEF Applies
  <2>6. QED
    BY <1>1, <2>1, <2>3, <2>4, <2>5, GoesOnSafe DEF Places
<1>3. CASE Patch # "applies"
  <2>1. Exits(r, "applying", "failed")
    BY <1>3 DEF ApplyPatch
  <2>2. QED
    BY <1>1, <2>1, FailsSafe
<1>4. QED
  BY <1>2, <1>3

LEMMA AppliedSafe == ASSUME OllamaAssumption, OllamaInv, NEW r \in Runs, Applied(r) PROVE OllamaInv'
<1>1. /\ Proceeds(r, "applying", "applied") /\ UNCHANGED <<rows, sent, answer, tree>>
      /\ at = "applying" /\ at' = "applied" /\ exit' = exit
      /\ \A q \in Runs : AtWork(q)' <=> AtWork(q)
  BY GoesOn DEF Applied
<1>2. OllamaTypes'
  BY <1>1 DEF OllamaInv, OllamaTypes, Places
<1>3. Asks' /\ Reads'
  BY <1>1 DEF OllamaInv, Asks, Reads, Conversing
<1>4. tree = answer.patches
  <2>1. tree \in Seq(Patches \cup {"part"}) /\ answer.patches \in Seq(Patches \cup {"part"})
    BY <1>1 DEF OllamaInv, OllamaTypes, Answers, OllamaAssumption
  <2>2. Len(tree) = Len(answer.patches) /\ \A n \in 1 .. Len(tree) : tree[n] = answer.patches[n]
    BY <1>1, <2>1 DEF Applied, Unapplied, OllamaInv, Applies
  <2>3. QED
    BY <2>1, <2>2, SeqEqual
<1>5. Applies'
  BY <1>1, <1>4 DEF OllamaInv, Applies, AllOf
<1>6. QED
  BY <1>1, <1>2, <1>3, <1>5, GoesOnSafe DEF Places

LEMMA WritePromptSafe == ASSUME OllamaAssumption, OllamaInv, NEW r \in Runs, WritePrompt(r) PROVE OllamaInv'
<1>1. CASE Exits(r, "applied", "raised") /\ UNCHANGED rows
  BY <1>1, FailsSafe DEF WritePrompt, OllamaInv, OllamaTypes
<1>2. CASE Proceeds(r, "applied", "written") /\ Remember(Prompt)
  <2>1. /\ UNCHANGED <<sent, answer, tree>> /\ rows' = Append(rows, Prompt)
        /\ exit' = exit /\ at = "applied" /\ at' = "written" /\ InTurn'
        /\ \A q \in Runs : AtWork(q)' <=> AtWork(q)
        /\ \A q \in Runs : AtWork(q) <=> q = r
    BY <1>2, GoesOn DEF WritePrompt, Remember
  <2>2. Prompt \in Lines /\ Prompt.run = r /\ Prompt.role = "user"
    <3>1. sent \in Seq(Lines) /\ sent # <<>>
      BY <2>1 DEF OllamaInv, OllamaTypes, Asks
    <3>2. Prompt = sent[Len(sent)] /\ Prompt \in Lines
      BY <3>1 DEF Prompt, Last
    <3>3. QED
      BY <2>1, <3>1, <3>2 DEF OllamaInv, Asks, Reads
  <2>3. /\ rows' \in Seq(Lines) /\ Len(rows') = Len(rows) + 1 /\ Len(rows) \in Nat
        /\ DOMAIN rows' = 1 .. Len(rows) + 1 /\ DOMAIN rows = 1 .. Len(rows) /\ rows' # <<>>
        /\ rows'[Len(rows) + 1] = Prompt /\ \A n \in 1 .. Len(rows) : rows'[n] = rows[n]
    <3>1. rows \in Seq(Lines)
      BY DEF OllamaInv, OllamaTypes
    <3>2. QED
      BY <2>1, <2>2, <3>1
  <2>4. \A n \in DOMAIN rows : rows[n].run \in Runs /\ exit[rows[n].run] # None /\ rows[n].run < r
    <3>1. \A n \in DOMAIN rows : rows[n] \in Lines
      BY DEF OllamaInv, OllamaTypes
    <3>2. \A n \in DOMAIN rows : rows[n].run \in Runs /\ exit[rows[n].run] # None
      BY <2>1, <3>1 DEF OllamaInv, OldLines, Half, Lines
    <3>3. QED
      BY <2>1, <3>2, EndedBefore DEF OllamaInv
  <2>5. OllamaTypes'
    BY <2>1, <2>3 DEF OllamaInv, OllamaTypes, Places
  <2>6. OldLines'
    BY <2>1, <2>2, <2>3, <2>4 DEF OldLines, Half
  <2>7. Conversing(rows)'
    <3>1. ASSUME NEW n \in 2 .. Len(rows) PROVE rows'[n] = rows[n] /\ rows'[n - 1] = rows[n - 1]
      BY <2>3
    <3>2. ASSUME Len(rows) # 0 PROVE rows'[Len(rows)].run <= r
      <4>1. Len(rows) \in DOMAIN rows /\ rows'[Len(rows)] = rows[Len(rows)]
        BY <2>3, <3>2
      <4>2. QED
        <5>1. rows[Len(rows)].run \in Nat /\ r \in Nat /\ rows[Len(rows)].run < r
          BY <2>4, <4>1 DEF OllamaAssumption
        <5>2. QED
          BY <4>1, <5>1
    <3>3. QED
      BY <2>2, <2>3, <3>1, <3>2 DEF OllamaInv, Conversing
  <2>8. Asks' /\ Reads' /\ Applies'
    BY <2>1 DEF OllamaInv, Asks, Reads, Conversing, Applies, AllOf
  <2>9. OutcomeHolds'
    <3>1. FailedRunsForgotten'
      BY <2>1, <2>2, <2>3 DEF OllamaInv, OutcomeHolds, FailedRunsForgotten, AtWork, OllamaAssumption, Outcomes
    <3>2. SuccessAppliedAll'
      BY <2>1 DEF SuccessAppliedAll, LastEnded
    <3>3. QED
      BY <3>1, <3>2 DEF OutcomeHolds
  <2>10. QED
    BY <2>1, <2>5, <2>6, <2>7, <2>8, <2>9 DEF OllamaInv
<1>3. QED
  BY <1>1, <1>2 DEF WritePrompt

LEMMA WriteAnswerSafe == ASSUME OllamaAssumption, OllamaInv, NEW r \in Runs, WriteAnswer(r) PROVE OllamaInv'
<1>1. CASE Exits(r, "written", "raised") /\ UNCHANGED rows
  BY <1>1, FailsSafe DEF WriteAnswer, OllamaInv, OllamaTypes
<1>2. CASE Exits(r, "written", "ok") /\ Remember(Line(r, "assistant", answer.size))
  <2> DEFINE new == Line(r, "assistant", answer.size)
  <2>1. /\ UNCHANGED <<sent, answer, tree>> /\ rows' = Append(rows, new)
        /\ exit' \in [Runs -> {None} \cup Outcomes] /\ exit'[r] = "ok"
        /\ \A q \in Runs \ {r} : exit'[q] = exit[q]
        /\ AtWork(r) /\ at = "written" /\ at' = "queued" /\ InTurn'
        /\ LastEnded' \subseteq {r}
    BY <1>2, Ended DEF WriteAnswer, Remember, Outcomes
  <2>2. new \in Lines /\ new.run = r /\ new.role = "assistant"
    BY <2>1 DEF Line, Lines, OllamaInv, OllamaTypes, Answers
  <2> HIDE DEF new
  <2>3. /\ rows' \in Seq(Lines) /\ Len(rows') = Len(rows) + 1 /\ Len(rows) \in Nat
        /\ DOMAIN rows' = 1 .. Len(rows) + 1 /\ DOMAIN rows = 1 .. Len(rows)
        /\ rows'[Len(rows) + 1] = new /\ \A n \in 1 .. Len(rows) : rows'[n] = rows[n]
    BY <2>1, <2>2 DEF OllamaInv, OllamaTypes
  <2>4. /\ rows # <<>> /\ Len(rows) \in DOMAIN rows /\ rows[Len(rows)].run = r
        /\ rows[Len(rows)].role = "user"
    <3>1. rows # <<>> /\ rows[Len(rows)].run = r
      BY <2>1 DEF OllamaInv, OldLines, Half
    <3>2. Len(rows) \in DOMAIN rows
      BY <3>1 DEF OllamaInv, OllamaTypes
    <3>3. QED
      BY <2>1, <3>1, <3>2 DEF OllamaInv, OldLines, AtWork
  <2>5. \A n \in DOMAIN rows : rows[n].run \in Runs /\ (exit[rows[n].run] # None \/ rows[n].run = r)
    <3>1. \A n \in DOMAIN rows : rows[n] \in Lines
      BY DEF OllamaInv, OllamaTypes
    <3>2. \A n \in DOMAIN rows : rows[n].run \in Runs
      BY <3>1 DEF Lines
    <3>3. QED
      BY <2>1, <3>2, OneAtWork DEF OllamaInv, OldLines, Half
  <2>6. OllamaTypes'
    BY <2>1, <2>3 DEF OllamaInv, OllamaTypes, Places
  <2>7. OldLines'
    <3>1. \A n \in DOMAIN rows' : rows'[n] = new \/ (n \in DOMAIN rows /\ rows'[n] = rows[n])
      BY <2>3
    <3>2. \A n \in DOMAIN rows' : rows'[n].run \in Runs /\ exit'[rows'[n].run] # None
      <4>1. \A q \in Runs : exit[q] # None \/ q = r => exit'[q] # None
        BY <2>1 DEF OllamaAssumption, Outcomes
      <4>2. QED
        BY <2>2, <2>5, <3>1, <4>1
    <3>3. QED
      BY <2>1, <3>2 DEF OldLines, Half
  <2>8. Conversing(rows)'
    <3>1. ASSUME NEW n \in 2 .. Len(rows) PROVE rows'[n] = rows[n] /\ rows'[n - 1] = rows[n - 1]
      BY <2>3
    <3>2. Len(rows) # 0 /\ rows'[Len(rows)] = rows[Len(rows)] /\ r <= r
      BY <2>3, <2>4 DEF OllamaAssumption
    <3>3. QED
      BY <2>2, <2>3, <2>4, <3>1, <3>2 DEF OllamaInv, Conversing
  <2>9. Asks' /\ Reads' /\ Applies'
    BY <2>1 DEF OllamaInv, Asks, Reads, Conversing, Applies
  <2>10. OutcomeHolds'
    <3>1. FailedRunsForgotten'
      BY <2>1, <2>2, <2>3, <2>5 DEF OllamaInv, OutcomeHolds, FailedRunsForgotten
    <3>2. SuccessAppliedAll'
      BY <2>1 DEF OllamaInv, Applies, AllOf, SuccessAppliedAll
    <3>3. QED
      BY <3>1, <3>2 DEF OutcomeHolds
  <2>11. QED
    BY <2>1, <2>6, <2>7, <2>8, <2>9, <2>10 DEF OllamaInv
<1>3. QED
  BY <1>1, <1>2 DEF WriteAnswer

LEMMA OllamaStepSafe == ASSUME OllamaAssumption, OllamaInv, [OllamaNext]_ollamaVars PROVE OllamaInv'
<1>1. ASSUME UNCHANGED <<rows, at, sent, answer, tree, exit>> PROVE OllamaInv'
  BY <1>1 DEF OllamaInv, OllamaTypes, InTurn, OldLines, Half, AtWork, Conversing, Asks, Reads, Applies, AllOf,
     OutcomeHolds, FailedRunsForgotten, SuccessAppliedAll, LastEnded
<1>2. ASSUME NEW r \in Runs, NoModel(r) PROVE OllamaInv'
  BY <1>2, FailsSafe DEF NoModel
<1>3. ASSUME NEW r \in Runs, ChatFails(r) PROVE OllamaInv'
  BY <1>3, FailsSafe DEF ChatFails, OllamaInv, OllamaTypes
<1>4. ASSUME NEW r \in Runs, Lose(r) PROVE OllamaInv'
  BY <1>4, FailsSafe DEF Lose, OllamaInv, OllamaTypes
<1>5. ASSUME NEW r \in Runs, Cancel(r) PROVE OllamaInv'
  BY <1>1, <1>5 DEF Cancel
<1>6. QED
  BY <1>1, <1>2, <1>3, <1>4, <1>5, LoadSafe, AskSafe, ChatSafe, ApplyPatchSafe, AppliedSafe,
     WritePromptSafe, WriteAnswerSafe DEF OllamaNext

LEMMA OllamaInvariant == ASSUME OllamaAssumption PROVE OllamaSpec => []OllamaInv
BY OllamaStartSafe, OllamaStepSafe, PTL DEF OllamaSpec

-----------------------------------------------------------------------------
(* The theorems.                                                           *)

(* What the model reads is a conversation, whatever runs failed, crashed or *)
(* were cut off by the limits before (ai/ollama.py:95-122, 250-252, 312-320). *)
THEOREM ReadsConversation ==
  ASSUME OllamaAssumption PROVE OllamaSpec => []ModelReadsConversation
<1>1. OllamaInv => ModelReadsConversation
  BY DEF OllamaInv, OllamaTypes, Reads, Conversing, ModelReadsConversation, Prompt, Last
<1>2. QED
  BY <1>1, OllamaInvariant, PTL

(* A failed run leaves nothing in the transcript, and a success has applied *)
(* all patches of its answer (ai/ollama.py:274-320 and 371-417).           *)
THEOREM OutcomesHold ==
  ASSUME OllamaAssumption PROVE OllamaSpec => []OutcomeHolds
<1>1. OllamaInv => OutcomeHolds
  BY DEF OllamaInv
<1>2. QED
  BY <1>1, OllamaInvariant, PTL
=============================================================================
