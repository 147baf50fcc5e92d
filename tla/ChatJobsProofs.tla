--------------------------- MODULE ChatJobsProofs ---------------------------
(***************************************************************************)
(* Proofs about ChatJobs, for any nodes, principals, models, timer runs,   *)
(* timeouts and bounds.                                                    *)
(***************************************************************************)
EXTENDS ChatJobs, WellFoundedInduction, TLAPS

(***************************************************************************)
(* What the two mutations of a map do to its domain and to its values.     *)
(***************************************************************************)
\* Insert adds one key, gives it its value and keeps every other one.
LEMMA InsertFacts ==
    ASSUME NEW f, NEW k, NEW v
    PROVE  /\ DOMAIN Insert(f, k, v) = DOMAIN f \cup {k}
           /\ Insert(f, k, v)[k] = v
           /\ \A x \in DOMAIN f : x # k => Insert(f, k, v)[x] = f[x]
BY DEF Insert

\* Insert stays within a set of records that holds the new value.
LEMMA InsertType ==
    ASSUME NEW R, NEW f, IsMap(f, R), NEW k \in Nat \ {0}, NEW v \in R
    PROVE  IsMap(Insert(f, k, v), R)
BY DEF Insert, IsMap

\* RemoveKeys drops the keys given and keeps every other value.
LEMMA RemoveFacts ==
    ASSUME NEW f, NEW K
    PROVE  /\ DOMAIN RemoveKeys(f, K) = DOMAIN f \ K
           /\ \A x \in DOMAIN f \ K : RemoveKeys(f, K)[x] = f[x]
BY DEF RemoveKeys

\* RemoveKeys stays within a set of records.
LEMMA RemoveType ==
    ASSUME NEW R, NEW f, IsMap(f, R), NEW K
    PROVE  IsMap(RemoveKeys(f, K), R)
BY DEF RemoveKeys, IsMap

\* A new message is a message, whoever writes it.
LEMMA NewMessageType ==
    ASSUME NEW c \in Nat, NEW parent \in Nat, NEW role \in Roles, NEW b \in BOOLEAN
    PROVE  NewMessage(c, parent, role, b) \in Message
BY DEF NewMessage, Message

\* The tail of every handler that starts a generation keeps the stores typed.
LEMMA StartGenerationType ==
    ASSUME TypeOK, NEW c \in Nat \ {0}, NEW chat \in Chat, NEW kept, IsMap(kept, Message),
           NEW parent \in Nat, NEW count \in Nat, NEW role \in Roles,
           NEW n \in NodeIds, StartGeneration(c, chat, kept, parent, count, role, n),
           next_chat_id' \in Nat \ {0}
    PROVE  TypeOK'
<1> DEFINE ai == next_message_id + count
<1>1. IsMap(messages', Message)
  <2>1. ASSUME NEW i \in next_message_id .. ai
        PROVE  NewMessage(c, IF i = next_message_id THEN parent ELSE i - 1,
                          IF i = ai THEN "Assistant" ELSE role, i # ai) \in Message
    <3>1. (IF i = next_message_id THEN parent ELSE i - 1) \in Nat
      BY DEF TypeOK
    <3>2. (IF i = ai THEN "Assistant" ELSE role) \in Roles
      BY DEF Roles
    <3>3. (i # ai) \in BOOLEAN
      OBVIOUS
    <3> QED BY <3>1, <3>2, <3>3, NewMessageType
  <2> QED BY <2>1 DEF TypeOK, StartGeneration, IsMap
<1>2. IsMap(jobs', Job)
  <2>1. NewJob(c, n, ai) \in Job
    BY DEF NewJob, Job, Live, TypeOK
  <2> QED BY <2>1, InsertType DEF TypeOK, StartGeneration
<1>3. IsMap(chats', Chat)
  <2>1. [chat EXCEPT !.message_ids = @ \cup (next_message_id .. ai),
                     !.job_ids = @ \cup {next_job_id},
                     !.active_job_id = next_job_id,
                     !.age = 0] \in Chat
    <3>1. /\ chat.message_ids \cup (next_message_id .. ai) \in SUBSET Nat
          /\ chat.job_ids \cup {next_job_id} \in SUBSET Nat
          /\ next_job_id \in Nat
      BY DEF Chat, TypeOK
    <3> QED BY <3>1 DEF Chat
  <2> QED BY <2>1, InsertType DEF TypeOK, StartGeneration
<1>4. /\ next_message_id' \in Nat \ {0}
      /\ next_job_id' \in Nat \ {0}
  BY DEF TypeOK, StartGeneration
<1> QED BY <1>1, <1>2, <1>3, <1>4 DEF TypeOK, StartGeneration, caches

\* The type invariant holds initially.
LEMMA TypeInit == Init => TypeOK
BY DEF Init, TypeOK, IsMap, EmptyMap, Tasks

\* The five handlers that start a generation keep the type invariant.
LEMMA TypeStartCall == TypeOK /\ StartCall => TypeOK'
<1> SUFFICES ASSUME TypeOK, StartCall PROVE TypeOK'
  OBVIOUS
<1> USE DEF None
<1>a. \A c \in DOMAIN chats : chats[c] \in Chat /\ c \in Nat \ {0}
  BY DEF TypeOK, IsMap
<1>b. \A i \in DOMAIN messages : messages[i] \in Message /\ i \in Nat \ {0}
  BY DEF TypeOK, IsMap
<1>1. ASSUME NEW n \in NodeIds, NEW m \in Models, NEW temp \in BOOLEAN,
             CreateChat(n, m, temp)
      PROVE  TypeOK'
  <2>1. NewChat(temp) \in Chat
    BY DEF NewChat, Chat
  <2>2. /\ next_chat_id \in Nat \ {0} /\ next_chat_id' \in Nat \ {0}
        /\ IsMap(messages, Message)
        /\ None \in Nat /\ 1 \in Nat /\ "User" \in Roles
        /\ StartGeneration(next_chat_id, NewChat(temp), messages, None, 1, "User", n)
    BY <1>1 DEF CreateChat, TypeOK, Roles
  <2> HIDE DEF None
  <2> QED BY <2>1, <2>2, StartGenerationType
<1>2. ASSUME NEW n \in NodeIds, NEW m \in Models, NEW c \in DOMAIN chats,
             NEW parent \in DOMAIN messages \cup {None}, NEW role \in RequestRoles,
             AddMessage(c, n, m, parent, role)
      PROVE  TypeOK'
  <2>1. /\ c \in Nat \ {0} /\ chats[c] \in Chat /\ IsMap(messages, Message)
        /\ parent \in Nat /\ 1 \in Nat /\ role \in Roles
        /\ next_chat_id' \in Nat \ {0}
        /\ StartGeneration(c, chats[c], messages, parent, 1, role, n)
    BY <1>a, <1>b, <1>2, RolesAssumption DEF AddMessage, TypeOK, Roles
  <2> QED BY <2>1, StartGenerationType
<1>3. ASSUME NEW n \in NodeIds, NEW m \in Models, NEW c \in DOMAIN chats,
             NEW old \in DOMAIN messages, EditUserMessage(c, n, m, old)
      PROVE  TypeOK'
  <2>1. [chats[c] EXCEPT !.message_ids = @ \ {old}] \in Chat
    BY <1>a DEF Chat
  <2>2. IsMap(RemoveKeys(messages, {old}), Message)
    BY RemoveType DEF TypeOK
  <2>3. messages[old].parent \in Nat
    BY <1>b DEF Message
  <2> QED BY <1>a, <1>3, <2>1, <2>2, <2>3, StartGenerationType
          DEF EditUserMessage, TypeOK, Roles
<1>4. ASSUME NEW n \in NodeIds, NEW m \in Models, NEW c \in DOMAIN chats,
             NEW user \in DOMAIN messages, RetryAiMessage(c, n, m, user)
      PROVE  TypeOK'
  BY <1>a, <1>b, <1>4, StartGenerationType DEF RetryAiMessage, TypeOK, Roles
<1>5. ASSUME NEW n \in NodeIds, NEW m \in Models, NEW c \in DOMAIN chats,
             NEW i \in DOMAIN messages, NEW count \in 0 .. MAX_TOOL_RESPONSES,
             ContinueFromToolResponse(c, n, m, i, count)
      PROVE  TypeOK'
  BY <1>a, <1>b, <1>5, StartGenerationType, BoundsAssumption
     DEF ContinueFromToolResponse, TypeOK, Roles
<1> QED BY <1>1, <1>2, <1>3, <1>4, <1>5 DEF StartCall

\* The owner's other calls keep the type invariant.
LEMMA TypeChatCall == TypeOK /\ ChatCall => TypeOK'
<1> SUFFICES ASSUME TypeOK, ChatCall PROVE TypeOK'
  OBVIOUS
<1>a. ASSUME NEW f, IsMap(f, Chat), NEW c \in DOMAIN f
      PROVE  /\ IsMap([f EXCEPT ![c].age = 0], Chat)
             /\ \A b \in BOOLEAN :
                   IsMap([f EXCEPT ![c].archived = b, ![c].age = 0], Chat)
  BY ZenonT(60), <1>a DEF IsMap, Chat
<1>1. ASSUME NEW c \in DOMAIN chats,
             ArchiveChat(c) \/ UnarchiveChat(c) \/ RenameChat(c)
      PROVE  TypeOK'
  BY <1>a, <1>1 DEF ArchiveChat, UnarchiveChat, RenameChat, TypeOK, counters, caches
<1>2. ASSUME NEW c \in DOMAIN chats, DeleteChat(c)
      PROVE  TypeOK'
  BY <1>2, RemoveType DEF DeleteChat, DeleteChats, TypeOK, counters, caches
<1>3. ASSUME NEW c \in DOMAIN chats, NEW i \in DOMAIN messages, StoreToolResults(c, i)
      PROVE  TypeOK'
  <2>1. IsMap(messages', Message)
    <3>1. [messages[i] EXCEPT !.requires_client_action = FALSE] \in Message
      BY ZenonT(60) DEF TypeOK, IsMap, Message
    <3>2. messages' = [messages EXCEPT ![i] =
                         [messages[i] EXCEPT !.requires_client_action = FALSE]]
      BY <1>3 DEF StoreToolResults
    <3> QED BY <3>1, <3>2 DEF TypeOK, IsMap
  <2> QED BY <1>3, <2>1 DEF StoreToolResults, TypeOK, counters, caches
<1>4. ASSUME NEW i \in DOMAIN messages, UpdateMessageAttachments(i)
      PROVE  TypeOK'
  BY <1>a, <1>4 DEF UpdateMessageAttachments, TypeOK, counters, caches
<1> QED BY <1>1, <1>2, <1>3, <1>4 DEF ChatCall

\* Releasing chats keeps them chats.
LEMMA ReleaseType ==
    ASSUME NEW f, IsMap(f, Chat), NEW J
    PROVE  IsMap(Release(f, J), Chat)
<1>1. ASSUME NEW c \in DOMAIN f
      PROVE  [f[c] EXCEPT !.active_job_id = None, !.age = 0] \in Chat
  BY DEF IsMap, Chat, None
<1> QED BY <1>1 DEF Release, IsMap

\* The nodes' calls keep the type invariant.
LEMMA TypeNodeCall == TypeOK /\ NodeCall => TypeOK'
<1> SUFFICES ASSUME TypeOK, NodeCall PROVE TypeOK'
  OBVIOUS
<1>a. \A j \in DOMAIN jobs : jobs[j] \in Job /\ j \in Nat \ {0}
  BY DEF TypeOK, IsMap
<1>b. ASSUME NEW j \in DOMAIN jobs, NEW s \in Live \cup Finished
      PROVE  IsMap(Insert(jobs, j, [jobs[j] EXCEPT !.status = s, !.age = 0]), Job)
  <2>1. [jobs[j] EXCEPT !.status = s, !.age = 0] \in Job
    BY <1>a DEF Job
  <2> QED BY <1>a, <2>1, InsertType DEF TypeOK
<1>1. ASSUME NEW p \in Principals, NEW j \in DOMAIN jobs, ClaimJob(p, j)
      PROVE  TypeOK'
  <2>1. IsMap(jobs', Job)
    BY <1>1, <1>b DEF ClaimJob, Live
  <2>2. DOMAIN claimed' \subseteq Nat \ {0}
    <3> DEFINE chain == MessageChain(messages, jobs[j].placeholder)
    <3>1. claimed' = Insert(claimed, j, chain)
      BY <1>1 DEF ClaimJob
    <3> HIDE DEF chain
    <3>2. DOMAIN Insert(claimed, j, chain) = DOMAIN claimed \cup {j}
      BY InsertFacts
    <3> QED BY <3>1, <3>2, <1>a DEF TypeOK
  <2> QED BY <1>1, <2>1, <2>2 DEF ClaimJob, TypeOK, counters, caches
<1>2. ASSUME NEW p \in Principals, NEW j \in DOMAIN jobs, NEW r \in Results,
             CompleteJob(p, j, r)
      PROVE  TypeOK'
  <2>1. IsMap(jobs', Job)
    BY <1>2, <1>b DEF CompleteJob, FinalStatus, Finished
  <2>2. IsMap(messages', Message)
    <3>1. ASSUME NEW msg \in Message
          PROVE  Answered(msg, r) \in Message
      BY DEF Answered, Message, Results
    <3> QED BY <1>2, <3>1 DEF CompleteJob, TypeOK, IsMap
  <2>3. IsMap(chats', Chat)
    BY <1>2, ReleaseType DEF CompleteJob, TypeOK
  <2> QED BY <1>2, <2>1, <2>2, <2>3 DEF CompleteJob, TypeOK, counters, caches
<1> QED BY <1>1, <1>2 DEF NodeCall

\* Timing out jobs keeps the stores typed.
LEMMA FailedType ==
    ASSUME TypeOK, NEW J
    PROVE  IsMap(FailedJobs(J), Job) /\ IsMap(FailedMessages(J), Message)
<1>1. ASSUME NEW j \in DOMAIN jobs
      PROVE  [jobs[j] EXCEPT !.status = "Failed", !.age = 0] \in Job
  BY ZenonT(60) DEF TypeOK, IsMap, Job, Finished
<1>2. ASSUME NEW i \in DOMAIN messages
      PROVE  [messages[i] EXCEPT !.error_status = "Timeout",
                                 !.requires_client_action = FALSE] \in Message
  BY ZenonT(60) DEF TypeOK, IsMap, Message
<1>3. IsMap(FailedJobs(J), Job)
  BY <1>1 DEF FailedJobs, TypeOK, IsMap
<1>4. IsMap(FailedMessages(J), Message)
  BY <1>2 DEF FailedMessages, TypeOK, IsMap
<1> QED BY <1>3, <1>4

\* The timers, the clock and an upgrade keep the type invariant.
LEMMA TypeTimerStep == TypeOK /\ (TimerStep \/ Upgrade) => TypeOK'
<1> SUFFICES ASSUME TypeOK, TimerStep \/ Upgrade PROVE TypeOK'
  OBVIOUS
<1>1. ASSUME NEW t \in Tasks, PeriodicTimer(t) PROVE TypeOK'
  BY <1>1 DEF PeriodicTimer, TypeOK, stores, counters, caches
<1>2. ASSUME NEW t \in Tasks, SyncNodes(t) PROVE TypeOK'
  <2>1. DOMAIN nodes' \subseteq NodeIds /\ nodes' \in [DOMAIN nodes' -> LocalNode]
    BY <1>2 DEF SyncNodes, NodeListings, TypeOK
  <2> QED BY <1>2, <2>1 DEF SyncNodes, TypeOK, stores, counters
<1>3. ASSUME NEW t \in Tasks, SyncModels(t) PROVE TypeOK'
  <2>1. DOMAIN models' \subseteq Models /\ models' \in [DOMAIN models' -> ModelStatus]
    BY <1>3 DEF SyncModels, ModelListings, TypeOK
  <2>2. IsMap(chats', Chat) /\ IsMap(messages', Message) /\ IsMap(jobs', Job)
    <3>1. CASE TimeOutAndCleanup
      BY <3>1, ReleaseType, FailedType, RemoveType
         DEF TimeOutAndCleanup, DeleteChats, TypeOK
    <3>2. CASE UNCHANGED stores
      BY <3>2 DEF stores, TypeOK
    <3> QED BY <1>3, <3>1, <3>2 DEF SyncModels
  <2> QED BY <1>3, <2>1, <2>2 DEF SyncModels, TypeOK, counters
<1>4. ASSUME TimePasses PROVE TypeOK'
  <2>1. ASSUME NEW a \in Nat, NEW L
        PROVE  Older(a, L) \in Nat
    BY DEF Older
  <2>2. IsMap(chats', Chat)
    <3>1. ASSUME NEW c \in DOMAIN chats
          PROVE  [chats[c] EXCEPT !.age = Older(@, ChatLimits)] \in Chat
      BY <2>1 DEF TypeOK, IsMap, Chat
    <3> QED BY <1>4, <3>1 DEF TimePasses, TypeOK, IsMap
  <2>3. IsMap(jobs', Job)
    <3>1. ASSUME NEW j \in DOMAIN jobs
          PROVE  [jobs[j] EXCEPT !.age = Older(@, JobLimits)] \in Job
      BY <2>1 DEF TypeOK, IsMap, Job
    <3> QED BY <1>4, <3>1 DEF TimePasses, TypeOK, IsMap
  <2> QED BY <1>4, <2>2, <2>3 DEF TimePasses, TypeOK, counters, caches
<1>5. ASSUME Upgrade PROVE TypeOK'
  BY <1>5 DEF Upgrade, TypeOK, stores, counters, caches
<1> QED BY <1>1, <1>2, <1>3, <1>4, <1>5 DEF TimerStep

\* Every store of the canister stays well formed, under every interleaving of
\* the owner's calls, the nodes' calls and the timers.
THEOREM TypeCorrect == Spec => []TypeOK
<1>1. TypeOK /\ [Next]_vars => TypeOK'
  <2> SUFFICES ASSUME TypeOK, [Next]_vars PROVE TypeOK'
    OBVIOUS
  <2>1. CASE UNCHANGED vars
    BY <2>1 DEF TypeOK, vars, stores, counters, caches
  <2> QED BY <2>1, TypeStartCall, TypeChatCall, TypeNodeCall, TypeTimerStep
          DEF Next
<1> QED BY TypeInit, <1>1, PTL DEF Spec

(***************************************************************************)
(* The inductive invariant, as predicates on the three stores so that the  *)
(* two stages of a timer run (time out, then delete) compose.              *)
(***************************************************************************)
Agree(ch, jb) ==
    /\ \A c \in DOMAIN ch : ch[c].active_job_id # None =>
          /\ ch[c].active_job_id \in DOMAIN jb
          /\ jb[ch[c].active_job_id].chat_id = c
          /\ jb[ch[c].active_job_id].status \in Live
    /\ \A j \in DOMAIN jb : jb[j].status \in Live =>
          /\ jb[j].chat_id \in DOMAIN ch
          /\ ch[jb[j].chat_id].active_job_id = j

Exact(ch, ms, jb) ==
    /\ \A c \in DOMAIN ch :
          /\ \A i : i \in ch[c].message_ids <=> i \in DOMAIN ms /\ ms[i].chat_id = c
          /\ \A j : j \in ch[c].job_ids <=> j \in DOMAIN jb /\ jb[j].chat_id = c
    /\ \A i \in DOMAIN ms : ms[i].chat_id \in DOMAIN ch
    /\ \A j \in DOMAIN jb : jb[j].chat_id \in DOMAIN ch

Local(ms) ==
    \A i \in DOMAIN ms :
        /\ ms[i].parent < i
        /\ ms[i].parent \in DOMAIN ms => ms[ms[i].parent].chat_id = ms[i].chat_id

Unanswered(msg) == ~msg.content /\ ~msg.tool_calls /\ msg.error_status = "None"

Waits(ms, jb) ==
    /\ \A j \in DOMAIN jb :
          /\ jb[j].placeholder \in DOMAIN ms
          /\ ms[jb[j].placeholder].role = "Assistant"
          /\ ms[jb[j].placeholder].chat_id = jb[j].chat_id
          /\ jb[j].status \in Live <=> Unanswered(ms[jb[j].placeholder])
    /\ \A j, k \in DOMAIN jb : jb[j].placeholder = jb[k].placeholder => j = k

\* Ids in use are below the counters, and no more chats than MAX_CHATS are made.
Below(ch, ms, jb) ==
    /\ \A c \in DOMAIN ch : c < next_chat_id
    /\ \A i \in DOMAIN ms : i < next_message_id
    /\ \A j \in DOMAIN jb : j < next_job_id
    /\ next_chat_id <= MAX_CHATS + 1

Good(ch, ms, jb) ==
    Agree(ch, jb) /\ Exact(ch, ms, jb) /\ Local(ms) /\ Waits(ms, jb)

Inv == Good(chats, messages, jobs) /\ Below(chats, messages, jobs)

\* The invariant says what the properties of ChatJobs say.
LEMMA InvMeaning ==
    Inv => /\ ActiveJobsAgree /\ ListsAreExact
           /\ ParentsAreOlderAndLocal /\ PlaceholdersWait
<1> SUFFICES ASSUME Inv
             PROVE  /\ ActiveJobsAgree /\ ListsAreExact
                    /\ ParentsAreOlderAndLocal /\ PlaceholdersWait
  OBVIOUS
<1>1. ActiveJobsAgree
  BY DEF Inv, Good, Agree, ActiveJobsAgree
<1>2. ListsAreExact
  BY DEF Inv, Good, Exact, ListsAreExact
<1>3. ParentsAreOlderAndLocal
  BY DEF Inv, Good, Local, ParentsAreOlderAndLocal
<1>4. PlaceholdersWait
  BY DEF Inv, Good, Waits, Unanswered, PlaceholdersWait
<1> QED BY <1>1, <1>2, <1>3, <1>4

\* An empty canister satisfies the invariant.
LEMMA InvInit == Init => Inv
BY BoundsAssumption DEF Init, Inv, Good, Agree, Exact, Local, Waits, Below, EmptyMap

(***************************************************************************)
(* A step that keeps the ids, links, locks and answers keeps Good.         *)
(***************************************************************************)
SameShape(ch, ms, jb, ch2, ms2, jb2) ==
    /\ DOMAIN ch2 = DOMAIN ch /\ DOMAIN ms2 = DOMAIN ms /\ DOMAIN jb2 = DOMAIN jb
    /\ \A c \in DOMAIN ch : /\ ch2[c].message_ids = ch[c].message_ids
                            /\ ch2[c].job_ids = ch[c].job_ids
                            /\ ch2[c].active_job_id = ch[c].active_job_id
    /\ \A i \in DOMAIN ms : /\ ms2[i].chat_id = ms[i].chat_id
                            /\ ms2[i].parent = ms[i].parent
                            /\ ms2[i].role = ms[i].role
                            /\ Unanswered(ms2[i]) <=> Unanswered(ms[i])
    /\ \A j \in DOMAIN jb : /\ jb2[j].chat_id = jb[j].chat_id
                            /\ jb2[j].placeholder = jb[j].placeholder
                            /\ jb2[j].status \in Live <=> jb[j].status \in Live

\* A step that changes neither ids nor links nor locks nor answers.
LEMMA SameShapeGood ==
    ASSUME NEW ch, NEW ms, NEW jb, NEW ch2, NEW ms2, NEW jb2,
           Good(ch, ms, jb), SameShape(ch, ms, jb, ch2, ms2, jb2)
    PROVE  Good(ch2, ms2, jb2)
<1>1. Agree(ch2, jb2)
  BY DEF Good, Agree, SameShape
<1>2. Exact(ch2, ms2, jb2)
  BY DEF Good, Exact, SameShape
<1>3. Local(ms2)
  BY DEF Good, Local, SameShape
<1>4. Waits(ms2, jb2)
  BY DEF Good, Waits, SameShape
<1> QED BY <1>1, <1>2, <1>3, <1>4 DEF Good

(***************************************************************************)
(* Finishing the live jobs of a set J: complete_job with one job, and the  *)
(* time-out with all the stale ones.                                       *)
(***************************************************************************)
Finishes(J, ms2, jb2) ==
    /\ DOMAIN ms2 = DOMAIN messages /\ DOMAIN jb2 = DOMAIN jobs
    /\ \A j \in DOMAIN jobs :
          /\ jb2[j].chat_id = jobs[j].chat_id
          /\ jb2[j].placeholder = jobs[j].placeholder
          /\ j \in J => jb2[j].status \notin Live
          /\ j \notin J => jb2[j].status = jobs[j].status
    /\ \A i \in DOMAIN messages :
          /\ ms2[i].chat_id = messages[i].chat_id
          /\ ms2[i].parent = messages[i].parent
          /\ ms2[i].role = messages[i].role
          /\ (\E j \in J : jobs[j].placeholder = i) => ~Unanswered(ms2[i])
          /\ ~(\E j \in J : jobs[j].placeholder = i) => ms2[i] = messages[i]

\* What Release does to one chat.
LEMMA ReleaseFacts ==
    ASSUME NEW J, TypeOK
    PROVE  /\ DOMAIN Release(chats, J) = DOMAIN chats
           /\ \A c \in DOMAIN chats :
                /\ Release(chats, J)[c].message_ids = chats[c].message_ids
                /\ Release(chats, J)[c].job_ids = chats[c].job_ids
                /\ (\E j \in J : jobs[j].chat_id = c /\ chats[c].active_job_id = j)
                      => Release(chats, J)[c].active_job_id = None
                /\ ~(\E j \in J : jobs[j].chat_id = c /\ chats[c].active_job_id = j)
                      => Release(chats, J)[c] = chats[c]
<1>1. DOMAIN Release(chats, J) = DOMAIN chats
  BY DEF Release
<1>2. ASSUME NEW c \in DOMAIN chats
      PROVE  /\ Release(chats, J)[c].message_ids = chats[c].message_ids
             /\ Release(chats, J)[c].job_ids = chats[c].job_ids
             /\ (\E j \in J : jobs[j].chat_id = c /\ chats[c].active_job_id = j)
                   => Release(chats, J)[c].active_job_id = None
             /\ ~(\E j \in J : jobs[j].chat_id = c /\ chats[c].active_job_id = j)
                   => Release(chats, J)[c] = chats[c]
  <2>1. chats[c] \in Chat
    BY DEF TypeOK, IsMap
  <2>2. Release(chats, J)[c] =
           IF \E j \in J : jobs[j].chat_id = c /\ chats[c].active_job_id = j
           THEN [chats[c] EXCEPT !.active_job_id = None, !.age = 0]
           ELSE chats[c]
    BY DEF Release
  <2> QED BY <2>1, <2>2 DEF Chat
<1> QED BY <1>1, <1>2

\* Finishing live jobs and releasing their chats keeps Good.
LEMMA FinishGood ==
    ASSUME TypeOK, Good(chats, messages, jobs), NEW J, NEW ms2, NEW jb2,
           J \subseteq {j \in DOMAIN jobs : jobs[j].status \in Live},
           Finishes(J, ms2, jb2)
    PROVE  Good(Release(chats, J), ms2, jb2)
<1> DEFINE ch2 == Release(chats, J)
<1>a. /\ DOMAIN ch2 = DOMAIN chats
      /\ \A c \in DOMAIN chats :
            /\ ch2[c].message_ids = chats[c].message_ids
            /\ ch2[c].job_ids = chats[c].job_ids
            /\ (\E j \in J : jobs[j].chat_id = c /\ chats[c].active_job_id = j)
                  => ch2[c].active_job_id = None
            /\ ~(\E j \in J : jobs[j].chat_id = c /\ chats[c].active_job_id = j)
                  => ch2[c] = chats[c]
  BY ReleaseFacts
<1> HIDE DEF ch2
<1>1. Agree(ch2, jb2)
  BY <1>a DEF Good, Agree, Finishes
<1>2. Exact(ch2, ms2, jb2)
  BY <1>a DEF Good, Exact, Finishes
<1>3. Local(ms2)
  BY DEF Good, Local, Finishes
<1>4. Waits(ms2, jb2)
  BY DEF Good, Waits, Finishes
<1> QED BY <1>1, <1>2, <1>3, <1>4 DEF Good, ch2

\* Deleting chats that are not in generation keeps Good: what is left names
\* only chats that are left.
LEMMA DeleteGood ==
    ASSUME NEW ch, NEW ms, NEW jb, Good(ch, ms, jb), NEW C, C \subseteq DOMAIN ch,
           \A c \in C : ch[c].active_job_id = None
    PROVE  Good(RemoveKeys(ch, C), RemoveKeys(ms, MessagesOf(ch, C)),
                RemoveKeys(jb, JobsOf(ch, C)))
<1> DEFINE ch2 == RemoveKeys(ch, C)
           ms2 == RemoveKeys(ms, MessagesOf(ch, C))
           jb2 == RemoveKeys(jb, JobsOf(ch, C))
<1>1. DOMAIN ch2 = DOMAIN ch \ C /\ \A c \in DOMAIN ch2 : ch2[c] = ch[c]
  BY DEF RemoveKeys
<1>2. /\ DOMAIN ms2 = {i \in DOMAIN ms : ms[i].chat_id \notin C}
      /\ \A i \in DOMAIN ms2 : ms2[i] = ms[i]
  <2>1. \A i \in DOMAIN ms : i \in MessagesOf(ch, C) <=> ms[i].chat_id \in C
    BY DEF MessagesOf, Good, Exact
  <2> QED BY <2>1 DEF RemoveKeys
<1>3. /\ DOMAIN jb2 = {j \in DOMAIN jb : jb[j].chat_id \notin C}
      /\ \A j \in DOMAIN jb2 : jb2[j] = jb[j]
  <2>1. \A j \in DOMAIN jb : j \in JobsOf(ch, C) <=> jb[j].chat_id \in C
    BY DEF JobsOf, Good, Exact
  <2> QED BY <2>1 DEF RemoveKeys
<1> HIDE DEF ch2, ms2, jb2
<1>4. Agree(ch2, jb2)
  BY <1>1, <1>3 DEF Good, Agree
<1>5. Exact(ch2, ms2, jb2)
  BY <1>1, <1>2, <1>3 DEF Good, Exact
<1>6. Local(ms2)
  BY <1>2 DEF Good, Local
<1>7. Waits(ms2, jb2)
  BY <1>2, <1>3 DEF Good, Waits
<1> QED BY <1>4, <1>5, <1>6, <1>7 DEF Good, ch2, ms2, jb2

(***************************************************************************)
(* Starting a generation in chat c, from stores that list the chat's       *)
(* messages and jobs exactly and hold no live job of the chat.             *)
(***************************************************************************)
CanStart(c, chat, kept, parent) ==
    /\ DOMAIN kept \subseteq DOMAIN messages
    /\ \A i \in DOMAIN kept : kept[i] = messages[i]
    /\ \A i \in DOMAIN messages \ DOMAIN kept :
          messages[i].role = "User" /\ messages[i].chat_id = c
    /\ \A i : i \in chat.message_ids <=> i \in DOMAIN kept /\ kept[i].chat_id = c
    /\ \A j : j \in chat.job_ids <=> j \in DOMAIN jobs /\ jobs[j].chat_id = c
    /\ \A j \in DOMAIN jobs : jobs[j].chat_id = c => jobs[j].status \notin Live
    /\ parent < next_message_id
    /\ parent \in DOMAIN kept => kept[parent].chat_id = c

(***************************************************************************)
(* What starting a generation does to the stores: messages up to the       *)
(* placeholder `ai', a pending job, and the chat that links them.          *)
(***************************************************************************)
Started(c, chat, kept, parent, ai) ==
    /\ DOMAIN messages' = DOMAIN kept \cup (next_message_id .. ai)
    /\ \A i \in DOMAIN kept : messages'[i] = messages[i]
    /\ \A i \in next_message_id .. ai :
          /\ messages'[i].chat_id = c
          /\ messages'[i].parent = IF i = next_message_id THEN parent ELSE i - 1
    /\ messages'[ai].role = "Assistant" /\ Unanswered(messages'[ai])
    /\ DOMAIN jobs' = DOMAIN jobs \cup {next_job_id}
    /\ \A j \in DOMAIN jobs : jobs'[j] = jobs[j]
    /\ jobs'[next_job_id].chat_id = c /\ jobs'[next_job_id].status = "Pending"
    /\ jobs'[next_job_id].placeholder = ai
    /\ DOMAIN chats' = DOMAIN chats \cup {c}
    /\ \A k \in DOMAIN chats : k # c => chats'[k] = chats[k]
    /\ chats'[c].message_ids = chat.message_ids \cup (next_message_id .. ai)
    /\ chats'[c].job_ids = chat.job_ids \cup {next_job_id}
    /\ chats'[c].active_job_id = next_job_id
    /\ next_message_id' = ai + 1 /\ next_job_id' = next_job_id + 1
    /\ claimed' = claimed /\ sync' = sync

\* The handlers' common tail, on stores that satisfy CanStart, does just that.
LEMMA StartFacts ==
    ASSUME TypeOK, Inv, NEW c \in Nat \ {0}, NEW chat \in Chat, NEW kept,
           NEW parent \in Nat, NEW count \in Nat, NEW role, NEW n,
           StartGeneration(c, chat, kept, parent, count, role, n),
           CanStart(c, chat, kept, parent)
    PROVE  Started(c, chat, kept, parent, next_message_id + count)
<1> DEFINE first == next_message_id
           ai == first + count
           job == next_job_id
<1>a. first \in Nat \ {0} /\ ai \in Nat /\ first <= ai /\ job \in Nat \ {0}
  BY DEF TypeOK
<1>b. /\ \A i \in DOMAIN messages : i \in Nat /\ i < first
      /\ \A j \in DOMAIN jobs : j \in Nat /\ j < job
      /\ \A k \in DOMAIN chats : k \in Nat /\ k < next_chat_id
  BY DEF TypeOK, IsMap, Inv, Below
<1>c. next_message_id' = ai + 1 /\ next_job_id' = job + 1
  BY DEF StartGeneration
<1>1. /\ DOMAIN messages' = DOMAIN kept \cup (first .. ai)
      /\ \A i \in DOMAIN kept : messages'[i] = messages[i]
      /\ \A i \in first .. ai :
            /\ messages'[i].chat_id = c
            /\ messages'[i].parent = IF i = first THEN parent ELSE i - 1
      /\ messages'[ai].role = "Assistant"
      /\ Unanswered(messages'[ai])
  <2>1. messages' = [i \in DOMAIN kept \cup (first .. ai) |->
              IF i \in first .. ai
              THEN NewMessage(c, IF i = first THEN parent ELSE i - 1,
                              IF i = ai THEN "Assistant" ELSE role, i # ai)
              ELSE kept[i]]
    BY DEF StartGeneration
  <2>2. \A i \in DOMAIN kept : i \notin first .. ai
    BY <1>a, <1>b DEF CanStart
  <2>3. ai \in first .. ai
    BY <1>a
  <2>4. messages'[ai] = NewMessage(c, IF ai = first THEN parent ELSE ai - 1,
                                   "Assistant", FALSE)
    BY <2>1, <2>3
  <2> HIDE DEF ai, first
  <2>5. DOMAIN messages' = DOMAIN kept \cup (first .. ai)
    BY <2>1
  <2>6. \A i \in DOMAIN kept : messages'[i] = messages[i]
    BY <2>1, <2>2 DEF CanStart
  <2>7. ASSUME NEW i \in first .. ai
        PROVE  /\ messages'[i].chat_id = c
               /\ messages'[i].parent = IF i = first THEN parent ELSE i - 1
    BY <2>1 DEF NewMessage
  <2>8. messages'[ai].role = "Assistant" /\ Unanswered(messages'[ai])
    BY <2>4 DEF NewMessage, Unanswered
  <2> QED BY <2>5, <2>6, <2>7, <2>8
<1>2. /\ DOMAIN jobs' = DOMAIN jobs \cup {job}
      /\ \A j \in DOMAIN jobs : jobs'[j] = jobs[j]
      /\ jobs'[job].chat_id = c /\ jobs'[job].status = "Pending"
      /\ jobs'[job].placeholder = ai
  <2>1. jobs' = Insert(jobs, job, NewJob(c, n, ai))
    BY DEF StartGeneration
  <2>2. job \notin DOMAIN jobs
    BY <1>a, <1>b
  <2> QED BY <2>1, <2>2 DEF Insert, NewJob
<1>3. /\ DOMAIN chats' = DOMAIN chats \cup {c}
      /\ \A k \in DOMAIN chats : k # c => chats'[k] = chats[k]
      /\ chats'[c].message_ids = chat.message_ids \cup (first .. ai)
      /\ chats'[c].job_ids = chat.job_ids \cup {job}
      /\ chats'[c].active_job_id = job
  <2> DEFINE linked == [chat EXCEPT !.message_ids = @ \cup (first .. ai),
                                    !.job_ids = @ \cup {job},
                                    !.active_job_id = job, !.age = 0]
  <2>1. chats' = Insert(chats, c, linked)
    BY DEF StartGeneration
  <2>2. /\ linked.message_ids = chat.message_ids \cup (first .. ai)
        /\ linked.job_ids = chat.job_ids \cup {job}
        /\ linked.active_job_id = job
    BY DEF Chat
  <2> HIDE DEF linked
  <2> QED BY <2>1, <2>2 DEF Insert
<1>4. claimed' = claimed /\ sync' = sync
  BY DEF StartGeneration
<1> QED BY <1>c, <1>1, <1>2, <1>3, <1>4 DEF Started, ai, first, job

(***************************************************************************)
(* A step that starts a generation.                                        *)
(***************************************************************************)
StartsIn(c, chat, kept, parent, ai) ==
    /\ c \in Nat \ {0} /\ parent \in Nat /\ ai \in Nat /\ next_message_id <= ai
    /\ CanStart(c, chat, kept, parent)
    /\ Started(c, chat, kept, parent, ai)
    /\ next_chat_id' \in Nat /\ next_chat_id <= next_chat_id' /\ c < next_chat_id'
    /\ next_chat_id' <= MAX_CHATS + 1

Starts == \E c, chat, kept, parent, ai : StartsIn(c, chat, kept, parent, ai)

\* Each of the five handlers that start a generation is such a step: its checks
\* establish CanStart.
LEMMA StartCallStarts == TypeOK /\ Inv /\ StartCall => Starts
<1> SUFFICES ASSUME TypeOK, Inv, StartCall PROVE Starts
  OBVIOUS
<1>a. \A c \in DOMAIN chats : chats[c] \in Chat /\ c \in Nat \ {0} /\ c < next_chat_id
  BY DEF TypeOK, IsMap, Inv, Below
<1>b. \A i \in DOMAIN messages : /\ messages[i] \in Message /\ i \in Nat \ {0}
                                 /\ i < next_message_id
  BY DEF TypeOK, IsMap, Inv, Below
<1>c. next_chat_id \in Nat \ {0} /\ next_message_id \in Nat \ {0}
  BY DEF TypeOK
<1>d. ASSUME NEW c \in DOMAIN chats, ~InGeneration(c)
      PROVE  \A j \in DOMAIN jobs : jobs[j].chat_id = c => jobs[j].status \notin Live
  <2>1. \A j \in DOMAIN jobs : j # 0
    BY DEF TypeOK, IsMap
  <2> QED BY <1>d, <2>1 DEF InGeneration, None, Inv, Good, Agree
<1>e. ASSUME NEW c \in DOMAIN chats, ~InGeneration(c), NEW parent \in Nat,
             parent < next_message_id,
             parent \in DOMAIN messages => messages[parent].chat_id = c
      PROVE  CanStart(c, chats[c], messages, parent)
  BY <1>d, <1>e DEF CanStart, Inv, Good, Exact
<1>f. ASSUME NEW c \in Nat \ {0}, NEW chat \in Chat, NEW kept, NEW parent \in Nat,
             NEW count \in Nat, NEW role, NEW n,
             StartGeneration(c, chat, kept, parent, count, role, n),
             CanStart(c, chat, kept, parent),
             next_chat_id' \in Nat, next_chat_id <= next_chat_id', c < next_chat_id',
             next_chat_id' <= MAX_CHATS + 1
      PROVE  Starts
  <2>1. Started(c, chat, kept, parent, next_message_id + count)
    BY <1>f, StartFacts
  <2>2. StartsIn(c, chat, kept, parent, next_message_id + count)
    BY <1>c, <1>f, <2>1 DEF StartsIn
  <2> QED BY <2>2 DEF Starts
<1>g. next_chat_id <= MAX_CHATS + 1 /\ MAX_CHATS \in Nat
  BY BoundsAssumption DEF Inv, Below
<1>1. ASSUME NEW n \in NodeIds, NEW m \in Models, NEW temp \in BOOLEAN,
             CreateChat(n, m, temp)
      PROVE  Starts
  <2>1. NewChat(temp) \in Chat
    BY DEF NewChat, Chat, None
  <2>2. next_chat_id \notin DOMAIN chats
    BY <1>a, <1>c
  <2>3. NewChat(temp).message_ids = {} /\ NewChat(temp).job_ids = {}
    BY DEF NewChat
  <2>4. CanStart(next_chat_id, NewChat(temp), messages, None)
    BY <1>b, <1>c, <2>2, <2>3 DEF CanStart, None, Inv, Good, Exact
  <2>5. /\ StartGeneration(next_chat_id, NewChat(temp), messages, None, 1, "User", n)
        /\ next_chat_id' = next_chat_id + 1 /\ next_chat_id <= MAX_CHATS
        /\ None \in Nat /\ 1 \in Nat
    BY <1>1 DEF CreateChat, None
  <2> QED BY <1>c, <2>1, <2>4, <2>5, <1>f, <1>g
<1>2. ASSUME NEW n \in NodeIds, NEW m \in Models, NEW c \in DOMAIN chats,
             NEW parent \in DOMAIN messages \cup {None}, NEW role \in RequestRoles,
             AddMessage(c, n, m, parent, role)
      PROVE  Starts
  <2>1. /\ ~InGeneration(c) /\ ValidParent(c, parent) /\ next_chat_id' = next_chat_id
        /\ StartGeneration(c, chats[c], messages, parent, 1, role, n)
    BY <1>2 DEF AddMessage, ValidGeneration
  <2>2. /\ parent \in Nat /\ parent < next_message_id /\ 1 \in Nat
        /\ parent \in DOMAIN messages => messages[parent].chat_id = c
    BY <1>b, <1>c, <2>1 DEF ValidParent, None
  <2>3. CanStart(c, chats[c], messages, parent)
    BY <1>e, <2>1, <2>2
  <2> QED BY <1>a, <1>c, <2>1, <2>2, <2>3, <1>f, <1>g
<1>3. ASSUME NEW n \in NodeIds, NEW m \in Models, NEW c \in DOMAIN chats,
             NEW old \in DOMAIN messages, EditUserMessage(c, n, m, old)
      PROVE  Starts
  <2> DEFINE chat == [chats[c] EXCEPT !.message_ids = @ \ {old}]
             kept == RemoveKeys(messages, {old})
             parent == messages[old].parent
  <2>1. /\ ~InGeneration(c) /\ UserMessageOf(c, old) /\ next_chat_id' = next_chat_id
        /\ StartGeneration(c, chat, kept, parent, 1, "User", n)
    BY <1>3 DEF EditUserMessage, ValidGeneration
  <2>2. /\ chat \in Chat
        /\ chat.message_ids = chats[c].message_ids \ {old}
        /\ chat.job_ids = chats[c].job_ids
    BY <1>a DEF Chat
  <2>3. /\ DOMAIN kept = DOMAIN messages \ {old}
        /\ \A i \in DOMAIN kept : kept[i] = messages[i]
    BY DEF RemoveKeys
  <2>4. /\ parent \in Nat /\ parent < next_message_id /\ 1 \in Nat
        /\ parent \in DOMAIN messages => messages[parent].chat_id = c
    BY <1>b, <1>c, <2>1 DEF Message, UserMessageOf, Inv, Good, Local
  <2> HIDE DEF chat, kept, parent
  <2>5. CanStart(c, chat, kept, parent)
    BY <1>d, <2>1, <2>2, <2>3, <2>4 DEF CanStart, UserMessageOf, Inv, Good, Exact
  <2> QED BY <1>a, <1>c, <2>1, <2>2, <2>4, <2>5, <1>f, <1>g
<1>4. ASSUME NEW n \in NodeIds, NEW m \in Models, NEW c \in DOMAIN chats,
             NEW user \in DOMAIN messages, RetryAiMessage(c, n, m, user)
      PROVE  Starts
  <2>1. /\ ~InGeneration(c) /\ messages[user].chat_id = c
        /\ next_chat_id' = next_chat_id /\ 0 \in Nat
        /\ StartGeneration(c, chats[c], messages, user, 0, "User", n)
    BY <1>4 DEF RetryAiMessage, ValidGeneration, UserMessageOf
  <2>2. CanStart(c, chats[c], messages, user)
    BY <1>b, <1>e, <2>1
  <2> QED BY <1>a, <1>b, <1>c, <2>1, <2>2, <1>f, <1>g
<1>5. ASSUME NEW n \in NodeIds, NEW m \in Models, NEW c \in DOMAIN chats,
             NEW i \in DOMAIN messages, NEW count \in 0 .. MAX_TOOL_RESPONSES,
             ContinueFromToolResponse(c, n, m, i, count)
      PROVE  Starts
  <2>1. /\ ~InGeneration(c) /\ messages[i].chat_id = c
        /\ next_chat_id' = next_chat_id /\ count \in Nat
        /\ StartGeneration(c, chats[c], messages, i, count, "Tool", n)
    BY <1>5, BoundsAssumption
       DEF ContinueFromToolResponse, ValidGeneration, AssistantMessageOf
  <2>2. CanStart(c, chats[c], messages, i)
    BY <1>b, <1>e, <2>1
  <2> QED BY <1>a, <1>b, <1>c, <2>1, <2>2, <1>f, <1>g
<1> QED BY <1>1, <1>2, <1>3, <1>4, <1>5 DEF StartCall

\* A generation started under those conditions keeps the invariant.
LEMMA StartInv == TypeOK /\ Inv /\ Starts => Inv'
<1> SUFFICES ASSUME TypeOK, Inv, Starts PROVE Inv'
  OBVIOUS
<1>0. PICK c, chat, kept, parent, ai : StartsIn(c, chat, kept, parent, ai)
  BY DEF Starts
<1> DEFINE first == next_message_id
           job == next_job_id
<1>a. /\ first \in Nat \ {0} /\ ai \in Nat /\ first <= ai /\ job \in Nat \ {0}
      /\ c \in Nat \ {0} /\ parent \in Nat
  BY <1>0 DEF TypeOK, StartsIn
<1>b. /\ \A i \in DOMAIN messages : i \in Nat /\ i < first
      /\ \A j \in DOMAIN jobs : j \in Nat /\ j < job
      /\ \A k \in DOMAIN chats : k \in Nat /\ k < next_chat_id
  BY DEF TypeOK, IsMap, Inv, Below
<1>c. next_message_id' = ai + 1 /\ next_job_id' = job + 1
  BY <1>0 DEF StartsIn, Started
<1>d. CanStart(c, chat, kept, parent)
  BY <1>0 DEF StartsIn
<1>1. /\ DOMAIN messages' = DOMAIN kept \cup (first .. ai)
      /\ \A i \in DOMAIN kept : messages'[i] = messages[i]
      /\ \A i \in first .. ai :
            /\ messages'[i].chat_id = c
            /\ messages'[i].parent = IF i = first THEN parent ELSE i - 1
      /\ messages'[ai].role = "Assistant"
      /\ Unanswered(messages'[ai])
  BY <1>0 DEF StartsIn, Started
<1>2. /\ DOMAIN jobs' = DOMAIN jobs \cup {job}
      /\ \A j \in DOMAIN jobs : jobs'[j] = jobs[j]
      /\ jobs'[job].chat_id = c /\ jobs'[job].status \in Live
      /\ jobs'[job].placeholder = ai
  BY <1>0 DEF StartsIn, Started, Live
<1>3. /\ DOMAIN chats' = DOMAIN chats \cup {c}
      /\ \A k \in DOMAIN chats : k # c => chats'[k] = chats[k]
      /\ chats'[c].message_ids = chat.message_ids \cup (first .. ai)
      /\ chats'[c].job_ids = chat.job_ids \cup {job}
      /\ chats'[c].active_job_id = job
  BY <1>0 DEF StartsIn, Started
<1>e. /\ next_chat_id' \in Nat /\ next_chat_id <= next_chat_id' /\ c < next_chat_id'
      /\ next_chat_id' <= MAX_CHATS + 1 /\ next_chat_id \in Nat
  BY <1>0 DEF StartsIn, TypeOK
<1> HIDE DEF first, job
<1>4. Agree(chats', jobs')
  BY <1>d, <1>a, <1>b, <1>2, <1>3 DEF Inv, Good, Agree, CanStart, None
<1>5. Exact(chats', messages', jobs')
  <2>1. \A i \in DOMAIN messages' : messages'[i].chat_id \in DOMAIN chats'
    BY <1>d, <1>1, <1>3 DEF Inv, Good, Exact, CanStart
  <2>2. \A j \in DOMAIN jobs' : jobs'[j].chat_id \in DOMAIN chats'
    BY <1>2, <1>3 DEF Inv, Good, Exact
  <2>3. ASSUME NEW i
        PROVE  i \in chats'[c].message_ids
                 <=> i \in DOMAIN messages' /\ messages'[i].chat_id = c
    BY <1>d, <1>1, <1>3 DEF CanStart
  <2>4. ASSUME NEW j
        PROVE  j \in chats'[c].job_ids <=> j \in DOMAIN jobs' /\ jobs'[j].chat_id = c
    BY <1>d, <1>2, <1>3 DEF CanStart
  <2>5. ASSUME NEW k \in DOMAIN chats, k # c, NEW i
        PROVE  i \in chats'[k].message_ids
                 <=> i \in DOMAIN messages' /\ messages'[i].chat_id = k
    <3>1. i \in chats[k].message_ids
                 <=> i \in DOMAIN messages /\ messages[i].chat_id = k
      BY DEF Inv, Good, Exact
    <3>2. i \in DOMAIN messages \ DOMAIN kept => messages[i].chat_id = c
      BY <1>d DEF CanStart
    <3> QED BY <1>d, <2>5, <3>1, <3>2, <1>1, <1>3 DEF CanStart
  <2>6. ASSUME NEW k \in DOMAIN chats, k # c, NEW j
        PROVE  j \in chats'[k].job_ids <=> j \in DOMAIN jobs' /\ jobs'[j].chat_id = k
    BY <2>6, <1>2, <1>3 DEF Inv, Good, Exact
  <2> QED BY <2>1, <2>2, <2>3, <2>4, <2>5, <2>6, <1>3 DEF Exact
<1>6. Local(messages')
  <2>1. ASSUME NEW i \in DOMAIN kept
        PROVE  /\ messages'[i].parent < i
               /\ messages'[i].parent \in DOMAIN messages' =>
                    messages'[messages'[i].parent].chat_id = messages'[i].chat_id
    <3>1. messages[i].parent < i /\ messages[i].parent \in Nat /\ i < first
      BY <1>d, <1>b DEF Inv, Good, Local, CanStart, TypeOK, IsMap, Message
    <3> QED BY <1>d, <3>1, <1>a, <1>b, <1>1 DEF Inv, Good, Local, CanStart
  <2>2. ASSUME NEW i \in first .. ai
        PROVE  /\ messages'[i].parent < i
               /\ messages'[i].parent \in DOMAIN messages' =>
                    messages'[messages'[i].parent].chat_id = messages'[i].chat_id
    <3>1. CASE i = first
      BY <1>d, <3>1, <1>a, <1>b, <1>1 DEF CanStart, first
    <3>2. CASE i # first
      BY <3>2, <1>a, <1>b, <1>1
    <3> QED BY <3>1, <3>2
  <2> QED BY <2>1, <2>2, <1>1 DEF Local
<1>7. Waits(messages', jobs')
  <2>1. \A j \in DOMAIN jobs : jobs[j].placeholder \in DOMAIN kept
    BY <1>d DEF Inv, Good, Waits, CanStart
  <2>2. ai \notin DOMAIN kept
    BY <1>d, <1>a, <1>b DEF CanStart
  <2> QED BY <1>d, <2>1, <2>2, <1>a, <1>b, <1>1, <1>2 DEF Inv, Good, Waits, CanStart
<1>8. Below(chats, messages, jobs)'
  BY <1>a, <1>b, <1>c, <1>d, <1>e, <1>1, <1>2, <1>3 DEF Below, CanStart, TypeOK, first, job
<1> QED BY <1>4, <1>5, <1>6, <1>7, <1>8 DEF Inv, Good

(***************************************************************************)
(* The other kinds of steps.  A step that keeps: the ids, links, locks,    *)
(* answers and statuses stay as they are.                                  *)
(***************************************************************************)
Keeps ==
    /\ SameShape(chats, messages, jobs, chats', messages', jobs')
    /\ \A i \in DOMAIN messages : AnswerOf(messages'[i]) = AnswerOf(messages[i])
    /\ \A j \in DOMAIN jobs : jobs'[j].status = jobs[j].status
    /\ UNCHANGED counters /\ UNCHANGED claimed

Claims == \E p \in Principals, j \in DOMAIN jobs : ClaimJob(p, j)

\* A step that finishes the live jobs of J, releases their chats and then
\* deletes the chats of C, in none of which anything is being generated.
EndsIn(J, C, ms2, jb2) ==
    /\ J \subseteq {j \in DOMAIN jobs : jobs[j].status \in Live}
    /\ Finishes(J, ms2, jb2)
    /\ C \subseteq DOMAIN chats
    /\ \A c \in C : Release(chats, J)[c].active_job_id = None
    /\ chats' = RemoveKeys(Release(chats, J), C)
    /\ messages' = RemoveKeys(ms2, MessagesOf(Release(chats, J), C))
    /\ jobs' = RemoveKeys(jb2, JobsOf(Release(chats, J), C))
    /\ UNCHANGED counters /\ UNCHANGED claimed

Ends == \E J, C, ms2, jb2 : EndsIn(J, C, ms2, jb2)

\* A step that changes none of the stores, counters and claims keeps.
LEMMA UnchangedKeeps == UNCHANGED <<stores, counters, claimed>> => Keeps
BY DEF stores, Keeps, SameShape

\* What each of the owner's other calls does.
LEMMA ChatCallKinds == TypeOK /\ Inv /\ ChatCall => Keeps \/ Ends
<1> SUFFICES ASSUME TypeOK, Inv, ChatCall PROVE Keeps \/ Ends
  OBVIOUS
<1>a. \A c \in DOMAIN chats : chats[c] \in Chat
  BY DEF TypeOK, IsMap
<1>1. ASSUME NEW c \in DOMAIN chats,
             ArchiveChat(c) \/ UnarchiveChat(c) \/ RenameChat(c)
      PROVE  Keeps
  <2>1. SameShape(chats, messages, jobs, chats', messages', jobs')
    BY <1>a, <1>1 DEF ArchiveChat, UnarchiveChat, RenameChat, SameShape, Chat
  <2> QED BY <1>1, <2>1 DEF ArchiveChat, UnarchiveChat, RenameChat, Keeps
<1>2. ASSUME NEW c \in DOMAIN chats, DeleteChat(c)
      PROVE  Ends
  <2>1. chats[c].active_job_id = None
    BY <1>2 DEF DeleteChat, InGeneration
  <2>2. Release(chats, {}) = chats
    BY DEF Release, TypeOK, IsMap
  <2>3. Finishes({}, messages, jobs)
    BY DEF Finishes
  <2>4. EndsIn({}, {c}, messages, jobs)
    BY <1>2, <2>1, <2>2, <2>3 DEF EndsIn, DeleteChat, DeleteChats
  <2> QED BY <2>4 DEF Ends
<1>3. ASSUME NEW c \in DOMAIN chats, NEW i \in DOMAIN messages, StoreToolResults(c, i)
      PROVE  Keeps
  <2>1. messages[i] \in Message
    BY DEF TypeOK, IsMap
  <2>2. SameShape(chats, messages, jobs, chats', messages', jobs')
    BY <1>3, <2>1 DEF StoreToolResults, SameShape, Unanswered, Message
  <2>3. \A k \in DOMAIN messages : AnswerOf(messages'[k]) = AnswerOf(messages[k])
    BY <1>3, <2>1 DEF StoreToolResults, AnswerOf, Message
  <2> QED BY <1>3, <2>2, <2>3 DEF StoreToolResults, Keeps
<1>4. ASSUME NEW i \in DOMAIN messages, UpdateMessageAttachments(i)
      PROVE  Keeps
  <2>1. SameShape(chats, messages, jobs, chats', messages', jobs')
    BY <1>a, <1>4 DEF UpdateMessageAttachments, SameShape, Chat
  <2> QED BY <1>4, <2>1 DEF UpdateMessageAttachments, Keeps
<1> QED BY <1>1, <1>2, <1>3, <1>4 DEF ChatCall

\* A node claims a job or finishes one that is live.
LEMMA NodeCallKinds == TypeOK /\ Inv /\ NodeCall => Claims \/ Ends
<1> SUFFICES ASSUME TypeOK, Inv, NodeCall, ~Claims PROVE Ends
  OBVIOUS
<1>a. \A j \in DOMAIN jobs : jobs[j] \in Job
  BY DEF TypeOK, IsMap
<1>1. PICK p \in Principals, j \in DOMAIN jobs, result \in Results :
         CompleteJob(p, j, result)
  BY DEF NodeCall, Claims
<1>2. /\ jobs[j].status = "InProgress"
      /\ jobs' = Insert(jobs, j,
                   [jobs[j] EXCEPT !.status = FinalStatus(result), !.age = 0])
      /\ messages' = [i \in DOMAIN messages |->
            IF i = jobs[j].placeholder THEN Answered(messages[i], result)
            ELSE messages[i]]
      /\ chats' = Release(chats, {j})
      /\ UNCHANGED counters /\ UNCHANGED claimed
  BY <1>1 DEF CompleteJob
<1>3. {j} \subseteq {k \in DOMAIN jobs : jobs[k].status \in Live}
  BY <1>2 DEF Live
<1>4. \A i \in DOMAIN messages :
         /\ Answered(messages[i], result).chat_id = messages[i].chat_id
         /\ Answered(messages[i], result).parent = messages[i].parent
         /\ Answered(messages[i], result).role = messages[i].role
         /\ ~Unanswered(Answered(messages[i], result))
  <2>1. \A i \in DOMAIN messages : messages[i] \in Message
    BY DEF TypeOK, IsMap
  <2> QED BY <2>1 DEF Message, Answered, Unanswered, Results
<1>5. /\ DOMAIN jobs' = DOMAIN jobs
      /\ \A k \in DOMAIN jobs : /\ jobs'[k].chat_id = jobs[k].chat_id
                                /\ jobs'[k].placeholder = jobs[k].placeholder
                                /\ k = j => jobs'[k].status \notin Live
                                /\ k # j => jobs'[k].status = jobs[k].status
  BY <1>a, <1>2 DEF Insert, Job, FinalStatus, Live
<1>6. Finishes({j}, messages', jobs')
  BY <1>2, <1>4, <1>5 DEF Finishes
<1>7. /\ chats' = RemoveKeys(Release(chats, {j}), {})
      /\ messages' = RemoveKeys(messages', {})
      /\ jobs' = RemoveKeys(jobs', {})
  BY <1>2 DEF RemoveKeys, Release, Insert
<1>8. MessagesOf(Release(chats, {j}), {}) = {} /\ JobsOf(Release(chats, {j}), {}) = {}
  BY DEF MessagesOf, JobsOf
<1>9. EndsIn({j}, {}, messages', jobs')
  BY <1>2, <1>3, <1>6, <1>7, <1>8 DEF EndsIn
<1> QED BY <1>9 DEF Ends

\* The clean-up of a periodic run: it fails the stale jobs, releases their
\* chats and deletes old chats that are then not in generation.
LEMMA CleanupEnds ==
    ASSUME TypeOK, Inv, TimeOutAndCleanup, UNCHANGED counters, UNCHANGED claimed
    PROVE  Ends
<1> DEFINE ch2 == Release(chats, Stale)
           ms2 == FailedMessages(Stale)
           jb2 == FailedJobs(Stale)
<1>1. Stale \subseteq {j \in DOMAIN jobs : jobs[j].status \in Live}
  BY DEF Stale, Live
<1>2. Finishes(Stale, ms2, jb2)
  <2>1. \A j \in DOMAIN jobs : jobs[j] \in Job
    BY DEF TypeOK, IsMap
  <2>2. \A i \in DOMAIN messages : messages[i] \in Message
    BY DEF TypeOK, IsMap
  <2>3. /\ DOMAIN jb2 = DOMAIN jobs
        /\ \A j \in DOMAIN jobs :
             /\ jb2[j].chat_id = jobs[j].chat_id
             /\ jb2[j].placeholder = jobs[j].placeholder
             /\ j \in Stale => jb2[j].status \notin Live
             /\ j \notin Stale => jb2[j].status = jobs[j].status
    BY <2>1 DEF FailedJobs, Job, Live
  <2>4. /\ DOMAIN ms2 = DOMAIN messages
        /\ \A i \in DOMAIN messages :
             /\ ms2[i].chat_id = messages[i].chat_id
             /\ ms2[i].parent = messages[i].parent
             /\ ms2[i].role = messages[i].role
             /\ (\E j \in Stale : jobs[j].placeholder = i) => ~Unanswered(ms2[i])
             /\ ~(\E j \in Stale : jobs[j].placeholder = i) => ms2[i] = messages[i]
    BY <2>2 DEF FailedMessages, Message, Unanswered
  <2> QED BY <2>3, <2>4 DEF Finishes
<1>3. DOMAIN ch2 = DOMAIN chats
  BY DEF Release
<1>4. /\ OldChats(ch2) \subseteq DOMAIN ch2
      /\ \A c \in OldChats(ch2) : ch2[c].active_job_id = None
  BY DEF OldChats
<1>5. /\ chats' = RemoveKeys(ch2, OldChats(ch2))
      /\ messages' = RemoveKeys(ms2, MessagesOf(ch2, OldChats(ch2)))
      /\ jobs' = RemoveKeys(jb2, JobsOf(ch2, OldChats(ch2)))
  BY DEF TimeOutAndCleanup, DeleteChats
<1>6. EndsIn(Stale, OldChats(ch2), ms2, jb2)
  BY <1>1, <1>2, <1>3, <1>4, <1>5 DEF EndsIn
<1> QED BY <1>6 DEF Ends

\* The timers, the clock and an upgrade keep or end.
LEMMA TimerKinds == TypeOK /\ Inv /\ (TimerStep \/ Upgrade) => Keeps \/ Ends
<1> SUFFICES ASSUME TypeOK, Inv, TimerStep \/ Upgrade PROVE Keeps \/ Ends
  OBVIOUS
<1>1. ASSUME NEW t \in Tasks, PeriodicTimer(t) \/ SyncNodes(t)
      PROVE  Keeps
  BY <1>1, UnchangedKeeps DEF PeriodicTimer, SyncNodes
<1>2. ASSUME NEW t \in Tasks, SyncModels(t)
      PROVE  Keeps \/ Ends
  <2>1. CASE t \in PeriodicRuns
    BY <1>2, <2>1, CleanupEnds DEF SyncModels
  <2>2. CASE t \notin PeriodicRuns
    BY <1>2, <2>2, UnchangedKeeps DEF SyncModels
  <2> QED BY <2>1, <2>2
<1>3. ASSUME TimePasses
      PROVE  Keeps
  <2>1. /\ \A c \in DOMAIN chats : chats[c] \in Chat
        /\ \A j \in DOMAIN jobs : jobs[j] \in Job
    BY DEF TypeOK, IsMap
  <2>2. SameShape(chats, messages, jobs, chats', messages', jobs')
    BY <1>3, <2>1 DEF TimePasses, SameShape, Chat, Job
  <2>3. \A j \in DOMAIN jobs : jobs'[j].status = jobs[j].status
    BY <1>3, <2>1 DEF TimePasses, Job
  <2> QED BY <1>3, <2>2, <2>3 DEF TimePasses, Keeps
<1>4. ASSUME Upgrade
      PROVE  Keeps
  BY <1>4, UnchangedKeeps DEF Upgrade
<1> QED BY <1>1, <1>2, <1>3, <1>4 DEF TimerStep

\* Every step is of one of the four kinds.
LEMMA StepKinds == TypeOK /\ Inv /\ [Next]_vars => Starts \/ Keeps \/ Claims \/ Ends
<1> SUFFICES ASSUME TypeOK, Inv, [Next]_vars PROVE Starts \/ Keeps \/ Claims \/ Ends
  OBVIOUS
<1>1. CASE UNCHANGED vars
  BY <1>1, UnchangedKeeps DEF vars
<1>2. CASE Next
  BY <1>2, StartCallStarts, ChatCallKinds, NodeCallKinds, TimerKinds DEF Next
<1> QED BY <1>1, <1>2

\* What a claim does: the job, which holds its chat, goes from Pending to
\* InProgress, and the history handed out is noted.
LEMMA ClaimFacts ==
    ASSUME TypeOK, NEW p, NEW j \in DOMAIN jobs, ClaimJob(p, j)
    PROVE  /\ jobs[j].chat_id \in DOMAIN chats
           /\ chats[jobs[j].chat_id].active_job_id = j
           /\ jobs[j].status = "Pending" /\ jobs'[j].status = "InProgress"
           /\ \A k \in DOMAIN jobs : k # j => jobs'[k] = jobs[k]
           /\ SameShape(chats, messages, jobs, chats', messages', jobs')
           /\ UNCHANGED <<chats, messages, counters>>
<1>1. /\ jobs' = Insert(jobs, j, [jobs[j] EXCEPT !.status = "InProgress", !.age = 0])
      /\ jobs[j].status = "Pending"
      /\ chats' = chats /\ messages' = messages /\ UNCHANGED counters
      /\ jobs[j].chat_id \in DOMAIN chats
      /\ chats[jobs[j].chat_id].active_job_id = j
  BY DEF ClaimJob
<1>2. jobs[j] \in Job
  BY DEF TypeOK, IsMap
<1>3. /\ DOMAIN jobs' = DOMAIN jobs
      /\ jobs'[j].status = "InProgress"
      /\ jobs'[j].chat_id = jobs[j].chat_id
      /\ jobs'[j].placeholder = jobs[j].placeholder
      /\ \A k \in DOMAIN jobs : k # j => jobs'[k] = jobs[k]
  BY <1>1, <1>2 DEF Insert, Job
<1>4. SameShape(chats, messages, jobs, chats', messages', jobs')
  BY <1>1, <1>3 DEF SameShape, Live
<1> QED BY <1>1, <1>3, <1>4

\* Finishing jobs and deleting chats keeps the invariant.
LEMMA EndInv ==
    ASSUME TypeOK, Inv, Ends
    PROVE  Inv'
<1>1. PICK J, C, ms2, jb2 : EndsIn(J, C, ms2, jb2)
  BY DEF Ends
<1> DEFINE ch2 == Release(chats, J)
<1>2. Good(ch2, ms2, jb2)
  BY <1>1, FinishGood DEF Inv, EndsIn
<1>3. DOMAIN ch2 = DOMAIN chats /\ DOMAIN ms2 = DOMAIN messages /\ DOMAIN jb2 = DOMAIN jobs
  BY <1>1 DEF Finishes, Release, EndsIn
<1>4. /\ C \subseteq DOMAIN ch2
      /\ \A c \in C : ch2[c].active_job_id = None
      /\ chats' = RemoveKeys(ch2, C)
      /\ messages' = RemoveKeys(ms2, MessagesOf(ch2, C))
      /\ jobs' = RemoveKeys(jb2, JobsOf(ch2, C))
      /\ UNCHANGED counters
  BY <1>1, <1>3 DEF EndsIn
<1> HIDE DEF ch2
<1>5. Good(chats', messages', jobs')
  BY <1>2, <1>4, DeleteGood
<1>6. Below(chats, messages, jobs)'
  BY <1>3, <1>4 DEF RemoveKeys, Below, Inv, counters
<1> QED BY <1>5, <1>6 DEF Inv

\* Every step keeps the invariant.
LEMMA InvStep == TypeOK /\ Inv /\ [Next]_vars => Inv'
<1> SUFFICES ASSUME TypeOK, Inv, [Next]_vars PROVE Inv'
  OBVIOUS
<1>1. ASSUME SameShape(chats, messages, jobs, chats', messages', jobs'),
             UNCHANGED counters
      PROVE  Inv'
  <2>1. Good(chats', messages', jobs')
    BY <1>1, SameShapeGood DEF Inv
  <2>2. Below(chats, messages, jobs)'
    BY <1>1 DEF SameShape, Below, Inv, counters
  <2> QED BY <2>1, <2>2 DEF Inv
<1>2. CASE Starts
  BY <1>2, StartInv
<1>3. CASE Keeps
  BY <1>1, <1>3 DEF Keeps
<1>4. CASE Claims
  BY <1>1, <1>4, ClaimFacts DEF Claims
<1>5. CASE Ends
  BY <1>5, EndInv
<1> QED BY <1>2, <1>3, <1>4, <1>5, StepKinds

\* The inductive invariant holds in every state.
LEMMA Invariance == Spec => [](TypeOK /\ Inv)
BY InvInit, InvStep, TypeCorrect, PTL DEF Spec

\* Along every behaviour of the canister a chat has at most one generation
\* under way, and a lock always has a live job whose end will release it.
THEOREM LocksAgree == Spec => []ActiveJobsAgree
<1>1. Inv => ActiveJobsAgree
  BY InvMeaning
<1> QED BY <1>1, Invariance, PTL

\* A chat's lists are exactly the stored messages and jobs that name it, so a
\* deletion leaves nothing behind and takes nothing of another chat.
THEOREM ListsExact == Spec => []ListsAreExact
<1>1. Inv => ListsAreExact
  BY InvMeaning
<1> QED BY <1>1, Invariance, PTL

\* Parents are older than their children and of the same chat, and every job
\* has a placeholder of its own that is unanswered just while the job is live.
THEOREM HistorySound == Spec => []HistoryIsSound
<1>1. Inv => HistoryIsSound
  BY InvMeaning DEF HistoryIsSound
<1> QED BY <1>1, Invariance, PTL

(***************************************************************************)
(* Action properties.                                                      *)
(***************************************************************************)
FinalStep ==
    \A j \in DOMAIN jobs : jobs[j].status \in Finished /\ j \in DOMAIN jobs' =>
        LET i == jobs[j].placeholder
        IN  /\ jobs'[j].status = jobs[j].status
            /\ i \in DOMAIN messages'
            /\ AnswerOf(messages'[i]) = AnswerOf(messages[i])

\* No step of any kind changes a finished job or its answer.
LEMMA StepIsFinal == TypeOK /\ Inv /\ Inv' /\ [Next]_vars => FinalStep
<1> SUFFICES ASSUME TypeOK, Inv, Inv', [Next]_vars,
                    NEW j \in DOMAIN jobs, jobs[j].status \in Finished, j \in DOMAIN jobs'
             PROVE  /\ jobs'[j].status = jobs[j].status
                    /\ jobs[j].placeholder \in DOMAIN messages'
                    /\ AnswerOf(messages'[jobs[j].placeholder])
                          = AnswerOf(messages[jobs[j].placeholder])
  BY DEF FinalStep
<1> DEFINE i == jobs[j].placeholder
<1>a. /\ i \in DOMAIN messages /\ messages[i].role = "Assistant"
      /\ jobs[j].status \notin Live
      /\ \A k \in DOMAIN jobs : jobs[k].placeholder = i => k = j
  BY DEF Inv, Good, Waits, Finished, Live
<1>1. CASE Starts
  <2>1. PICK c, chat, kept, parent, ai : StartsIn(c, chat, kept, parent, ai)
    BY <1>1 DEF Starts
  <2>2. i \in DOMAIN kept
    BY <1>a, <2>1 DEF StartsIn, CanStart
  <2> QED BY <2>1, <2>2 DEF StartsIn, Started
<1>2. CASE Keeps
  BY <1>a, <1>2 DEF Keeps, SameShape
<1>3. CASE Claims
  <2>1. PICK p \in Principals, k \in DOMAIN jobs : ClaimJob(p, k)
    BY <1>3 DEF Claims
  <2>2. /\ jobs[k].status = "Pending" /\ messages' = messages
        /\ \A l \in DOMAIN jobs : l # k => jobs'[l] = jobs[l]
    BY <2>1, ClaimFacts
  <2>3. k # j
    BY <1>a, <2>2 DEF Live
  <2> QED BY <1>a, <2>2, <2>3
<1>4. CASE Ends
  <2>1. PICK J, C, ms2, jb2 : EndsIn(J, C, ms2, jb2)
    BY <1>4 DEF Ends
  <2> DEFINE ch2 == Release(chats, J)
  <2>2. /\ DOMAIN jobs' = DOMAIN jb2 \ JobsOf(ch2, C) /\ jobs'[j] = jb2[j]
    BY <2>1 DEF EndsIn, RemoveKeys
  <2>3. /\ DOMAIN messages' = DOMAIN ms2 \ MessagesOf(ch2, C)
        /\ \A k \in DOMAIN messages' : messages'[k] = ms2[k]
    BY <2>1 DEF EndsIn, RemoveKeys
  <2> HIDE DEF ch2
  <2>4. /\ j \notin J
        /\ Finishes(J, ms2, jb2)
        /\ J \subseteq DOMAIN jobs
    BY <1>a, <2>1 DEF EndsIn
  <2>5. jb2[j].status = jobs[j].status /\ jb2[j].placeholder = i
    BY <2>4 DEF Finishes
  <2>6. ms2[i] = messages[i]
    BY <1>a, <2>4 DEF Finishes
  <2>7. i \in DOMAIN messages'
    BY <2>2, <2>5 DEF Inv, Good, Waits
  <2> QED BY <2>2, <2>3, <2>5, <2>6, <2>7
<1> QED BY <1>1, <1>2, <1>3, <1>4, StepKinds

\* A finished job never changes again, nor does the answer in its placeholder:
\* a late or a second completion overwrites nothing.
THEOREM FinishedStaysFinal == Spec => FinishedIsFinal
<1>1. TypeOK /\ Inv /\ TypeOK' /\ Inv' /\ [Next]_vars =>
        [\A j \in DOMAIN jobs : jobs[j].status \in Finished /\ j \in DOMAIN jobs' =>
            LET i == jobs[j].placeholder
            IN  /\ jobs'[j].status = jobs[j].status
                /\ i \in DOMAIN messages'
                /\ AnswerOf(messages'[i]) = AnswerOf(messages[i])]_vars
  BY StepIsFinal DEF FinalStep
<1> QED BY <1>1, Invariance, PTL DEF Spec, FinishedIsFinal

\* Only delete_chat and the clean-up delete a chat, and both only when nothing
\* is being generated in it; the clean-up only when it is past its TTL.
LEMMA StepDeletionIsDue ==
    ASSUME TypeOK, Inv, [Next]_vars, NEW c \in DOMAIN chats \ DOMAIN chats'
    PROVE  /\ chats[c].active_job_id = None
           /\ sync' # sync => chats[c].age > Ttl(chats[c])
<1>1. ASSUME StartCall PROVE FALSE
  <2>1. PICK k, chat, kept, parent, ai : StartsIn(k, chat, kept, parent, ai)
    BY <1>1, StartCallStarts DEF Starts
  <2> QED BY <2>1 DEF StartsIn, Started
<1>2. ASSUME ChatCall
      PROVE  chats[c].active_job_id = None /\ sync' = sync
  BY <1>2 DEF ChatCall, ArchiveChat, UnarchiveChat, RenameChat, StoreToolResults,
     UpdateMessageAttachments, DeleteChat, DeleteChats, RemoveKeys, InGeneration
<1>3. ASSUME NodeCall PROVE FALSE
  BY <1>3 DEF NodeCall, ClaimJob, CompleteJob, Release
<1>4. ASSUME TimerStep
      PROVE  chats[c].active_job_id = None /\ chats[c].age > Ttl(chats[c])
  <2>1. TimeOutAndCleanup
    BY <1>4 DEF TimerStep, PeriodicTimer, SyncNodes, SyncModels, TimePasses, stores
  <2> DEFINE ch2 == Release(chats, Stale)
  <2>2. c \in OldChats(ch2)
    BY <2>1 DEF TimeOutAndCleanup, DeleteChats, RemoveKeys, Release
  <2>3. ch2[c].age > Ttl(ch2[c]) /\ ch2[c].active_job_id = None
    BY <2>2 DEF OldChats
  <2>4. \/ ch2[c] = chats[c]
        \/ ch2[c] = [chats[c] EXCEPT !.active_job_id = None, !.age = 0]
    BY DEF Release
  <2> HIDE DEF ch2
  <2>5. ch2[c] = chats[c]
    <3>1. chats[c] \in Chat
      BY DEF TypeOK, IsMap
    <3>2. ASSUME ch2[c] = [chats[c] EXCEPT !.active_job_id = None, !.age = 0]
          PROVE  FALSE
      <4>1. ch2[c].age = 0
        BY <3>1, <3>2 DEF Chat
      <4>2. Ttl(ch2[c]) \in Nat
        BY TimeoutAssumption DEF Ttl
      <4> QED BY <2>3, <4>1, <4>2
    <3> QED BY <2>4, <3>2
  <2> QED BY <2>3, <2>5
<1>5. ASSUME Upgrade \/ UNCHANGED vars PROVE FALSE
  BY <1>5 DEF Upgrade, vars, stores
<1> QED BY <1>1, <1>2, <1>3, <1>4, <1>5 DEF Next

\* A chat disappears only when nothing is being generated in it, and by the
\* clean-up only past its TTL; a chat whose generation the same run has timed
\* out is spared.
THEOREM DeletionsAreDue == Spec => DeletionIsDue
<1>1. TypeOK /\ Inv /\ [Next]_vars =>
        [\A c \in DOMAIN chats \ DOMAIN chats' :
            /\ chats[c].active_job_id = None
            /\ sync' # sync => chats[c].age > Ttl(chats[c])]_vars
  BY StepDeletionIsDue
<1> QED BY <1>1, Invariance, PTL DEF Spec, DeletionIsDue

(***************************************************************************)
(* The refinement of GenerationLock: the chats with an active job are its  *)
(* generations under way, and next_job_id - 1 is the last job number.      *)
(***************************************************************************)
Busy == {c \in DOMAIN chats : chats[c].active_job_id # None}

\* Two generation maps with the same chats, jobs and claims are one.
LEMMA SameRunning ==
    ASSUME Busy' = Busy,
           \A c \in Busy : /\ chats'[c].active_job_id = chats[c].active_job_id
                           /\ jobs'[chats[c].active_job_id].status
                                 = jobs[chats[c].active_job_id].status
    PROVE  Running' = Running
<1>1. Running = [c \in Busy |->
          [job |-> chats[c].active_job_id,
           claimed |-> jobs[chats[c].active_job_id].status = "InProgress"]]
  BY DEF Running, Busy
<1>2. Running' = [c \in Busy' |->
          [job |-> chats'[c].active_job_id,
           claimed |-> jobs'[chats'[c].active_job_id].status = "InProgress"]]
  BY DEF Running, Busy
<1> QED BY <1>1, <1>2

\* Starting a generation is a Start of the abstract lock.
LEMMA StartIsStart == TypeOK /\ Inv /\ Starts => Lock!Next
<1> SUFFICES ASSUME TypeOK, Inv, Starts PROVE Lock!Next
  OBVIOUS
<1>0. PICK c, chat, kept, parent, ai : StartsIn(c, chat, kept, parent, ai)
  BY DEF Starts
<1>1. /\ DOMAIN chats' = DOMAIN chats \cup {c}
      /\ \A k \in DOMAIN chats : k # c => chats'[k] = chats[k]
      /\ chats'[c].active_job_id = next_job_id
      /\ \A j \in DOMAIN jobs : jobs'[j] = jobs[j]
      /\ jobs'[next_job_id].status = "Pending"
      /\ next_job_id' = next_job_id + 1
  BY <1>0 DEF StartsIn, Started
<1>2. next_job_id \in Nat \ {0} /\ c \in 1 .. MAX_CHATS
  BY <1>0, BoundsAssumption DEF TypeOK, StartsIn
<1>3. c \notin Busy
  BY <1>0 DEF StartsIn, CanStart, Busy, Inv, Good, Agree
<1>4. Busy' = Busy \cup {c}
  BY <1>1, <1>2 DEF Busy, None
<1>5. ASSUME NEW k \in Busy
      PROVE  /\ chats'[k].active_job_id = chats[k].active_job_id
             /\ jobs'[chats[k].active_job_id] = jobs[chats[k].active_job_id]
  BY <1>1, <1>3 DEF Busy, Inv, Good, Agree
<1> DEFINE gen == [k \in Busy |->
              [job |-> chats[k].active_job_id,
               claimed |-> jobs[chats[k].active_job_id].status = "InProgress"]]
<1>6. Running = gen
  BY DEF Running, Busy
<1>7. Running' = [k \in Busy \cup {c} |->
              IF k = c THEN [job |-> next_job_id, claimed |-> FALSE] ELSE gen[k]]
  <2>1. Running' = [k \in Busy' |->
              [job |-> chats'[k].active_job_id,
               claimed |-> jobs'[chats'[k].active_job_id].status = "InProgress"]]
    BY DEF Running, Busy
  <2>2. ASSUME NEW k \in Busy \cup {c}
        PROVE  [job |-> chats'[k].active_job_id,
                claimed |-> jobs'[chats'[k].active_job_id].status = "InProgress"]
                  = IF k = c THEN [job |-> next_job_id, claimed |-> FALSE] ELSE gen[k]
    <3>1. CASE k = c
      BY <1>1, <3>1
    <3>2. CASE k # c
      BY <1>5, <3>2
    <3> QED BY <3>1, <3>2
  <2> HIDE DEF gen
  <2> QED BY <1>4, <2>1, <2>2
<1> HIDE DEF gen
<1>8. DOMAIN gen = Busy
  BY DEF gen
<1>9. (next_job_id - 1)' = (next_job_id - 1) + 1 /\ (next_job_id - 1) + 1 = next_job_id
  BY <1>1, <1>2
<1>10. Lock!Insert(gen, c, Lock!Generation(next_job_id, FALSE)) =
         [k \in Busy \cup {c} |->
              IF k = c THEN [job |-> next_job_id, claimed |-> FALSE] ELSE gen[k]]
  BY <1>8 DEF Lock!Insert, Lock!Generation
<1>11. Lock!Start(c)
  BY <1>3, <1>6, <1>7, <1>8, <1>9, <1>10 DEF Lock!Start
<1> QED BY <1>2, <1>11 DEF Lock!Next

\* A step that keeps is a stuttering step of the abstract lock.
LEMMA KeepIsStutter ==
    TypeOK /\ Inv /\ Keeps => UNCHANGED <<Running, next_job_id - 1>>
<1> SUFFICES ASSUME TypeOK, Inv, Keeps PROVE UNCHANGED <<Running, next_job_id - 1>>
  OBVIOUS
<1>1. Busy' = Busy
  BY DEF Keeps, SameShape, Busy
<1>2. \A c \in Busy : /\ chats'[c].active_job_id = chats[c].active_job_id
                      /\ jobs'[chats[c].active_job_id].status
                            = jobs[chats[c].active_job_id].status
  BY DEF Keeps, SameShape, Busy, Inv, Good, Agree
<1>3. Running' = Running
  BY <1>1, <1>2, SameRunning
<1>4. next_job_id' = next_job_id
  BY DEF Keeps, counters
<1> QED BY <1>3, <1>4

\* claim_job is a Claim of the generation its job belongs to.
LEMMA ClaimIsClaim == TypeOK /\ Inv /\ Claims => Lock!Next
<1> SUFFICES ASSUME TypeOK, Inv, Claims PROVE Lock!Next
  OBVIOUS
<1>0. PICK p \in Principals, j \in DOMAIN jobs : ClaimJob(p, j)
  BY DEF Claims
<1> DEFINE c == jobs[j].chat_id
<1>1. /\ c \in DOMAIN chats /\ chats[c].active_job_id = j
      /\ jobs[j].status = "Pending" /\ jobs'[j].status = "InProgress"
      /\ \A k \in DOMAIN jobs : k # j => jobs'[k] = jobs[k]
      /\ chats' = chats /\ next_job_id' = next_job_id
  BY <1>0, ClaimFacts DEF counters
<1>2. j # None /\ c \in Nat \ {0}
  BY <1>1 DEF TypeOK, IsMap, None
<1>3. c \in 1 .. MAX_CHATS
  BY <1>1, <1>2, BoundsAssumption DEF Inv, Below, TypeOK
<1>4. c \in Busy
  BY <1>1, <1>2 DEF Busy
<1>5. \A k \in Busy : k # c => /\ chats[k].active_job_id # j
                               /\ chats[k].active_job_id \in DOMAIN jobs
  BY DEF Busy, Inv, Good, Agree
<1> DEFINE gen == [k \in Busy |->
              [job |-> chats[k].active_job_id,
               claimed |-> jobs[chats[k].active_job_id].status = "InProgress"]]
<1>6. Running = gen
  BY DEF Running, Busy
<1> HIDE DEF c
<1>7. Running' = [k \in Busy \cup {c} |->
              IF k = c THEN [job |-> j, claimed |-> TRUE] ELSE gen[k]]
  <2>1. Running' = [k \in Busy |->
              [job |-> chats[k].active_job_id,
               claimed |-> jobs'[chats[k].active_job_id].status = "InProgress"]]
    BY <1>1 DEF Running, Busy
  <2>2. ASSUME NEW k \in Busy
        PROVE  [job |-> chats[k].active_job_id,
                claimed |-> jobs'[chats[k].active_job_id].status = "InProgress"]
                  = IF k = c THEN [job |-> j, claimed |-> TRUE] ELSE gen[k]
    <3>1. CASE k = c
      BY <1>1, <3>1
    <3>2. CASE k # c
      BY <1>1, <1>5, <3>2
    <3> QED BY <3>1, <3>2
  <2>3. Busy = Busy \cup {c}
    BY <1>4
  <2> HIDE DEF gen
  <2> QED BY <2>1, <2>2, <2>3
<1>8. DOMAIN gen = Busy /\ gen[c].job = j /\ gen[c].claimed = FALSE
  BY <1>1, <1>4
<1> HIDE DEF gen
<1>9. Lock!Insert(gen, c, Lock!Generation(gen[c].job, TRUE)) =
         [k \in Busy \cup {c} |->
              IF k = c THEN [job |-> j, claimed |-> TRUE] ELSE gen[k]]
  BY <1>8 DEF Lock!Insert, Lock!Generation
<1>10. Lock!Claim(c)
  BY <1>1, <1>4, <1>6, <1>7, <1>8, <1>9 DEF Lock!Claim
<1> QED BY <1>3, <1>10 DEF Lock!Next

\* Completions, time-outs and deletions are a Finish of the generations they
\* release, or no step of the abstract lock at all.
LEMMA EndIsFinish ==
    TypeOK /\ Inv /\ Inv' /\ Ends => Lock!Next \/ UNCHANGED <<Running, next_job_id - 1>>
<1> SUFFICES ASSUME TypeOK, Inv, Inv', Ends
             PROVE  Lock!Next \/ UNCHANGED <<Running, next_job_id - 1>>
  OBVIOUS
<1>0. PICK J, C, ms2, jb2 : EndsIn(J, C, ms2, jb2)
  BY DEF Ends
<1> DEFINE ch2 == Release(chats, J)
           F == Busy \ Busy'
<1>1. /\ DOMAIN chats' = DOMAIN chats \ C
      /\ \A k \in DOMAIN chats' : chats'[k] = ch2[k]
      /\ \A k \in C : ch2[k].active_job_id = None
      /\ \A j \in DOMAIN jobs' : jobs'[j] = jb2[j]
      /\ Finishes(J, ms2, jb2) /\ DOMAIN jobs' \subseteq DOMAIN jobs
      /\ next_job_id' = next_job_id
      /\ J \subseteq DOMAIN jobs
  BY <1>0 DEF EndsIn, RemoveKeys, Release, Finishes, counters
<1>2. /\ \A k \in DOMAIN chats :
            /\ (\E j \in J : jobs[j].chat_id = k /\ chats[k].active_job_id = j)
                  => ch2[k].active_job_id = None
            /\ ~(\E j \in J : jobs[j].chat_id = k /\ chats[k].active_job_id = j)
                  => ch2[k] = chats[k]
  BY ReleaseFacts
<1> HIDE DEF ch2
<1>3. \A k \in Busy' : /\ k \in Busy
                       /\ chats'[k].active_job_id = chats[k].active_job_id
                       /\ chats[k].active_job_id \notin J
  BY <1>1, <1>2 DEF Busy, Inv, Good, Agree
<1>4. \A k \in Busy' : jobs'[chats[k].active_job_id].status
                          = jobs[chats[k].active_job_id].status
  <2>1. ASSUME NEW k \in Busy'
        PROVE  chats[k].active_job_id \in DOMAIN jobs'
    <3>1. k \in DOMAIN chats' /\ chats'[k].active_job_id # None
      BY DEF Busy
    <3> QED BY <1>3, <3>1 DEF Inv, Good, Agree
  <2> QED BY <1>1, <1>3, <2>1 DEF Finishes
<1> DEFINE gen == [k \in Busy |->
              [job |-> chats[k].active_job_id,
               claimed |-> jobs[chats[k].active_job_id].status = "InProgress"]]
<1>5. Running = gen
  BY DEF Running, Busy
<1>6. Running' = [k \in Busy \ F |-> gen[k]]
  <2>1. Running' = [k \in Busy' |->
              [job |-> chats'[k].active_job_id,
               claimed |-> jobs'[chats'[k].active_job_id].status = "InProgress"]]
    BY DEF Running, Busy
  <2>2. Busy' = Busy \ F
    BY <1>3
  <2>3. ASSUME NEW k \in Busy'
        PROVE  [job |-> chats'[k].active_job_id,
                claimed |-> jobs'[chats'[k].active_job_id].status = "InProgress"] = gen[k]
    BY <1>3, <1>4
  <2> HIDE DEF gen, F
  <2> QED BY <2>1, <2>2, <2>3
<1>7. F \subseteq Busy /\ F \in SUBSET (1 .. MAX_CHATS)
  <2>1. \A k \in DOMAIN chats : k \in Nat \ {0} /\ k < next_chat_id
    BY DEF TypeOK, IsMap, Inv, Below
  <2>2. next_chat_id <= MAX_CHATS + 1 /\ next_chat_id \in Nat /\ MAX_CHATS \in Nat
    BY BoundsAssumption DEF Inv, Below, TypeOK
  <2>3. \A k \in DOMAIN chats : k \in 1 .. MAX_CHATS
    BY <2>1, <2>2
  <2> QED BY <2>3 DEF Busy
<1>8. DOMAIN gen = Busy /\ gen = [k \in Busy |-> gen[k]]
  OBVIOUS
<1> HIDE DEF gen, F
<1>9. CASE F = {}
  <2>1. Busy \ F = Busy
    BY <1>9
  <2>2. Running' = Running
    BY <1>5, <1>6, <1>8, <2>1
  <2> QED BY <1>1, <2>2
<1>10. CASE F # {}
  <2>1. Lock!RemoveKeys(gen, F) = [k \in Busy \ F |-> gen[k]]
    BY <1>8 DEF Lock!RemoveKeys
  <2>2. Lock!Finish(F)
    BY <1>1, <1>5, <1>6, <1>7, <1>8, <1>10, <2>1 DEF Lock!Finish
  <2> QED BY <1>7, <2>2 DEF Lock!Next
<1> QED BY <1>9, <1>10

\* An empty canister is the initial state of the lock.
LEMMA InitIsInit == Init => Lock!Init
<1> SUFFICES ASSUME Init PROVE Lock!Init
  OBVIOUS
<1>1. DOMAIN chats = {}
  BY DEF Init, EmptyMap
<1>2. Running = [c \in {} |-> c]
  BY <1>1 DEF Running
<1>3. next_job_id - 1 = 0
  BY DEF Init
<1> QED BY <1>2, <1>3 DEF Lock!Init, Lock!EmptyMap

\* The canister implements the abstract lock: whatever calls, answers, timeouts
\* and clean-ups interleave, a chat runs one generation at a time, each under a
\* new job, claimed at most once and ended only by its own end.
THEOREM ImplementsLock == Spec => LocksGenerations
<1>1. TypeOK /\ Inv /\ TypeOK' /\ Inv' /\ [Next]_vars
         => [Lock!Next]_<<Running, next_job_id - 1>>
  BY StepKinds, StartIsStart, KeepIsStutter, ClaimIsClaim, EndIsFinish
<1> QED BY <1>1, InitIsInit, Invariance, PTL DEF Spec, LocksGenerations, Lock!Spec

(***************************************************************************)
(* The history a node was given.  MessageChain is a recursive function on  *)
(* the naturals: it exists because the least set closed under parents is a *)
(* solution of its equation, and what it computes is shown by choosing the *)
(* least message for which a claim fails.                                  *)
(***************************************************************************)
\* Every set of naturals that is not empty has a least element.
LEMMA LeastNat ==
    ASSUME NEW S \in SUBSET Nat, S # {}
    PROVE  \E n \in S : \A m \in S : n <= m
<1> DEFINE R == OpToRel(<, Nat)
<1>1. IsWellFoundedOn(R, Nat)
  BY NatLessThanWellFounded
<1>2. \A x, y \in Nat : <<x, y>> \in R <=> x < y
  BY DEF OpToRel
<1> HIDE DEF R
<1>3. PICK n \in S : \A m \in S : ~(<<m, n>> \in R)
  BY <1>1, WFMin
<1>4. ASSUME NEW m \in S
      PROVE  n <= m
  <2>1. ~(<<m, n>> \in R) /\ m \in Nat /\ n \in Nat
    BY <1>3
  <2>2. <<m, n>> \in R <=> m < n
    BY <1>2, <2>1
  <2>3. ~(m < n)
    BY <2>1, <2>2
  <2> QED BY <2>1, <2>3
<1> QED BY <1>4

\* A map of messages whose ids and parents are numbers.
Linked(ms) == DOMAIN ms \subseteq Nat /\ \A i \in DOMAIN ms : ms[i].parent \in Nat

ClosedUp(ms, S) == \A i \in S : ms[i].parent \in DOMAIN ms => ms[i].parent \in S

\* The least set with i that is closed under parents.
Reach(ms, i) ==
    {x \in DOMAIN ms : \A S \in SUBSET DOMAIN ms : i \in S /\ ClosedUp(ms, S) => x \in S}

\* From a message one reaches it and what its parent reaches.
LEMMA ReachStep ==
    ASSUME NEW ms, NEW i \in DOMAIN ms
    PROVE  Reach(ms, i) = {i} \cup IF ms[i].parent \in DOMAIN ms
                                   THEN Reach(ms, ms[i].parent) ELSE {}
<1> DEFINE p == ms[i].parent
           up == IF p \in DOMAIN ms THEN Reach(ms, p) ELSE {}
           T == {i} \cup up
<1>1. T \subseteq DOMAIN ms
  BY DEF Reach
<1>2. p \in DOMAIN ms => p \in up
  BY DEF Reach
<1>3. ClosedUp(ms, T)
  <2>1. ASSUME NEW y \in up, ms[y].parent \in DOMAIN ms
        PROVE  ms[y].parent \in up
    <3>1. p \in DOMAIN ms /\ y \in Reach(ms, p)
      OBVIOUS
    <3>2. ASSUME NEW S \in SUBSET DOMAIN ms, p \in S, ClosedUp(ms, S)
          PROVE  ms[y].parent \in S
      BY <2>1, <3>1, <3>2 DEF Reach, ClosedUp
    <3> QED BY <2>1, <3>1, <3>2 DEF Reach
  <2> HIDE DEF up
  <2> QED BY <1>2, <2>1 DEF ClosedUp
<1>4. Reach(ms, i) \subseteq T
  <2> HIDE DEF up
  <2> QED BY <1>1, <1>3 DEF Reach
<1>5. i \in Reach(ms, i)
  BY DEF Reach
<1>6. ASSUME NEW x \in up
      PROVE  x \in Reach(ms, i)
  <2>1. p \in DOMAIN ms /\ x \in Reach(ms, p)
    OBVIOUS
  <2>2. ASSUME NEW S \in SUBSET DOMAIN ms, i \in S, ClosedUp(ms, S)
        PROVE  x \in S
    <3>1. p \in S
      BY <2>1, <2>2 DEF ClosedUp
    <3> QED BY <2>1, <2>2, <3>1 DEF Reach
  <2> QED BY <2>1, <2>2 DEF Reach
<1> HIDE DEF up
<1>7. T \subseteq Reach(ms, i)
  BY <1>5, <1>6
<1>8. Reach(ms, i) = T
  BY <1>4, <1>7
<1> QED BY <1>8 DEF up

\* MessageChain satisfies its recursive equation.
LEMMA ChainStep ==
    ASSUME NEW ms, Linked(ms), NEW s \in Nat
    PROVE  MessageChain(ms, s) = IF s \in DOMAIN ms
                                 THEN {s} \cup MessageChain(ms, ms[s].parent) ELSE {}
<1> DEFINE IsUp(f) == f = [i \in Nat |-> IF i \in DOMAIN ms
                                         THEN {i} \cup f[ms[i].parent] ELSE {}]
           Up == CHOOSE f : IsUp(f)
           F == [i \in Nat |-> IF i \in DOMAIN ms THEN Reach(ms, i) ELSE {}]
<1>1. \A x : MessageChain(ms, x) = Up[x]
  BY DEF MessageChain
<1>2. ASSUME NEW i \in Nat
      PROVE  F[i] = IF i \in DOMAIN ms THEN {i} \cup F[ms[i].parent] ELSE {}
  <2>1. CASE i \in DOMAIN ms
    <3>1. ms[i].parent \in Nat
      BY <2>1 DEF Linked
    <3>2. F[ms[i].parent] = IF ms[i].parent \in DOMAIN ms
                            THEN Reach(ms, ms[i].parent) ELSE {}
      BY <3>1
    <3>3. F[i] = Reach(ms, i)
      BY <2>1
    <3> QED BY <2>1, <3>2, <3>3, ReachStep
  <2>2. CASE i \notin DOMAIN ms
    BY <2>2
  <2> QED BY <2>1, <2>2
<1>3. F = [i \in Nat |-> F[i]]
  OBVIOUS
<1> HIDE DEF F
<1>4. IsUp(F)
  BY <1>2, <1>3
<1> HIDE DEF IsUp
<1>5. IsUp(Up)
  BY <1>4, Zenon
<1> HIDE DEF Up
<1>6. Up = [i \in Nat |-> IF i \in DOMAIN ms THEN {i} \cup Up[ms[i].parent] ELSE {}]
  BY <1>5 DEF IsUp
<1>7. Up[s] = IF s \in DOMAIN ms THEN {s} \cup Up[ms[s].parent] ELSE {}
  BY <1>6
<1> QED BY <1>1, <1>7

\* Two maps that hold the same messages of a chat, under the same parents, give
\* the same history to each of them.
LEMMA SameChain ==
    ASSUME NEW ms, NEW ms2, NEW d, Linked(ms), Linked(ms2), Local(ms), Local(ms2),
           \A i : i \in DOMAIN ms /\ ms[i].chat_id = d
                     <=> i \in DOMAIN ms2 /\ ms2[i].chat_id = d,
           \A i \in DOMAIN ms : ms[i].chat_id = d => ms2[i].parent = ms[i].parent,
           NEW s \in DOMAIN ms, ms[s].chat_id = d
    PROVE  MessageChain(ms2, s) = MessageChain(ms, s)
<1> DEFINE M == {i \in DOMAIN ms : ms[i].chat_id = d}
           Bad == {i \in M : MessageChain(ms2, i) # MessageChain(ms, i)}
<1>1. SUFFICES ASSUME Bad # {} PROVE FALSE
  BY <1>1
<1>2. Bad \in SUBSET Nat
  BY DEF Linked
<1>3. PICK i \in Bad : \A k \in Bad : i <= k
  BY <1>1, <1>2, LeastNat
<1> DEFINE p == ms[i].parent
<1>4. /\ i \in Nat /\ p \in Nat /\ p < i /\ ms2[i].parent = p
      /\ i \in DOMAIN ms /\ i \in DOMAIN ms2
      /\ ms[i].chat_id = d /\ ms2[i].chat_id = d
  BY <1>3 DEF Linked, Local
<1>5. /\ MessageChain(ms, i) = {i} \cup MessageChain(ms, p)
      /\ MessageChain(ms2, i) = {i} \cup MessageChain(ms2, p)
  BY <1>4, ChainStep
<1>6. CASE p \in M
  <2>1. p \notin Bad
    BY <1>3, <1>4
  <2>2. MessageChain(ms2, p) = MessageChain(ms, p)
    BY <1>6, <2>1
  <2> QED BY <1>3, <1>5, <2>2
<1>7. CASE p \notin M
  <2>1. p \notin DOMAIN ms /\ p \notin DOMAIN ms2
    BY <1>4, <1>7 DEF Local
  <2>2. MessageChain(ms, p) = {} /\ MessageChain(ms2, p) = {}
    BY <1>4, <2>1, ChainStep
  <2> QED BY <1>3, <1>5, <2>2
<1> QED BY <1>6, <1>7

\* A job in progress has a history noted, so that the claim of another one
\* leaves it alone.
ClaimsNoted ==
    \A j \in DOMAIN jobs : jobs[j].status = "InProgress" => j \in DOMAIN claimed

ContextInv == ClaimsNoted /\ ContextIsStable

\* No step changes the history behind a job in progress.
LEMMA StepKeepsContext ==
    TypeOK /\ Inv /\ TypeOK' /\ Inv' /\ ContextInv /\ [Next]_vars => ContextInv'
<1> SUFFICES ASSUME TypeOK, Inv, TypeOK', Inv', ContextInv, [Next]_vars,
                    NEW j \in DOMAIN jobs', jobs'[j].status = "InProgress"
             PROVE  /\ j \in DOMAIN claimed'
                    /\ claimed'[j] = MessageChain(messages', jobs'[j].placeholder)
  BY DEF ContextInv, ClaimsNoted, ContextIsStable
<1>a. Linked(messages) /\ Linked(messages') /\ Local(messages) /\ Local(messages')
  BY DEF Linked, TypeOK, IsMap, Message, Inv, Good
<1>b. ASSUME j \in DOMAIN jobs, jobs[j].status = "InProgress",
             jobs'[j].chat_id = jobs[j].chat_id,
             jobs'[j].placeholder = jobs[j].placeholder,
             claimed' = claimed,
             \A i : i \in DOMAIN messages /\ messages[i].chat_id = jobs[j].chat_id
                <=> i \in DOMAIN messages' /\ messages'[i].chat_id = jobs[j].chat_id,
             \A i \in DOMAIN messages : messages[i].chat_id = jobs[j].chat_id
                => messages'[i].parent = messages[i].parent
      PROVE  /\ j \in DOMAIN claimed'
             /\ claimed'[j] = MessageChain(messages', jobs'[j].placeholder)
  <2>1. /\ jobs[j].placeholder \in DOMAIN messages
        /\ messages[jobs[j].placeholder].chat_id = jobs[j].chat_id
    BY <1>b DEF Inv, Good, Waits
  <2>2. MessageChain(messages', jobs[j].placeholder)
           = MessageChain(messages, jobs[j].placeholder)
    BY <1>a, <1>b, <2>1, SameChain
  <2>3. j \in DOMAIN claimed /\ claimed[j] = MessageChain(messages, jobs[j].placeholder)
    BY <1>b DEF ContextInv, ClaimsNoted, ContextIsStable
  <2> QED BY <1>b, <2>2, <2>3
<1>1. CASE Starts
  <2>1. PICK c, chat, kept, parent, ai : StartsIn(c, chat, kept, parent, ai)
    BY <1>1 DEF Starts
  <2>2. /\ DOMAIN messages' = DOMAIN kept \cup (next_message_id .. ai)
        /\ \A i \in DOMAIN kept : messages'[i] = messages[i]
        /\ \A i \in next_message_id .. ai : messages'[i].chat_id = c
        /\ DOMAIN jobs' = DOMAIN jobs \cup {next_job_id}
        /\ \A k \in DOMAIN jobs : jobs'[k] = jobs[k]
        /\ jobs'[next_job_id].status = "Pending"
        /\ claimed' = claimed
    BY <2>1 DEF StartsIn, Started
  <2>3. /\ DOMAIN kept \subseteq DOMAIN messages
        /\ \A i \in DOMAIN messages \ DOMAIN kept : messages[i].chat_id = c
        /\ \A k \in DOMAIN jobs : jobs[k].chat_id = c => jobs[k].status \notin Live
    BY <2>1 DEF StartsIn, CanStart
  <2>4. j \in DOMAIN jobs /\ jobs'[j] = jobs[j] /\ jobs[j].chat_id # c
    BY <2>2, <2>3 DEF Live
  <2> QED BY <1>b, <2>2, <2>3, <2>4
<1>2. CASE Keeps
  BY <1>b, <1>2 DEF Keeps, SameShape
<1>3. CASE Claims
  <2>1. PICK p \in Principals, k \in DOMAIN jobs : ClaimJob(p, k)
    BY <1>3 DEF Claims
  <2>2. /\ \A l \in DOMAIN jobs : l # k => jobs'[l] = jobs[l]
        /\ DOMAIN jobs' = DOMAIN jobs
        /\ jobs'[k].placeholder = jobs[k].placeholder
        /\ messages' = messages
    BY <2>1, ClaimFacts DEF SameShape
  <2> DEFINE chain == MessageChain(messages, jobs[k].placeholder)
  <2>3. claimed' = Insert(claimed, k, chain)
    BY <2>1 DEF ClaimJob
  <2> HIDE DEF chain
  <2>4. /\ DOMAIN claimed' = DOMAIN claimed \cup {k} /\ claimed'[k] = chain
        /\ \A x \in DOMAIN claimed : x # k => claimed'[x] = claimed[x]
    BY <2>3 DEF Insert
  <2>5. CASE j = k
    BY <2>2, <2>4, <2>5 DEF chain
  <2>6. CASE j # k
    BY <2>2, <2>4, <2>6 DEF ContextInv, ClaimsNoted, ContextIsStable
  <2> QED BY <2>5, <2>6
<1>4. CASE Ends
  <2>1. PICK J, C, ms2, jb2 : EndsIn(J, C, ms2, jb2)
    BY <1>4 DEF Ends
  <2> DEFINE ch2 == Release(chats, J)
  <2>2. /\ DOMAIN jobs' = DOMAIN jb2 \ JobsOf(ch2, C) /\ jobs'[j] = jb2[j]
        /\ DOMAIN messages' = DOMAIN ms2 \ MessagesOf(ch2, C)
        /\ \A i \in DOMAIN messages' : messages'[i] = ms2[i]
        /\ DOMAIN chats' = DOMAIN chats \ C /\ C \subseteq DOMAIN chats
        /\ Finishes(J, ms2, jb2) /\ claimed' = claimed
    BY <2>1 DEF EndsIn, RemoveKeys, Release
  <2>3. \A c \in DOMAIN chats : ch2[c].message_ids = chats[c].message_ids
    BY ReleaseFacts
  <2> HIDE DEF ch2
  <2>4. /\ j \in DOMAIN jobs /\ jobs[j].status = "InProgress"
        /\ jobs'[j].chat_id = jobs[j].chat_id
        /\ jobs'[j].placeholder = jobs[j].placeholder
    BY <2>2 DEF Finishes, Live
  <2>5. jobs[j].chat_id \in DOMAIN chats \ C
    BY <2>2, <2>4 DEF Inv, Good, Exact
  <2>6. \A i \in DOMAIN messages : messages[i].chat_id \notin C
                                      => i \notin MessagesOf(ch2, C)
    BY <2>2, <2>3 DEF MessagesOf, Inv, Good, Exact
  <2>7. /\ DOMAIN ms2 = DOMAIN messages
        /\ \A i \in DOMAIN messages : /\ ms2[i].chat_id = messages[i].chat_id
                                      /\ ms2[i].parent = messages[i].parent
    BY <2>2 DEF Finishes
  <2>8. \A i \in DOMAIN messages : messages[i].chat_id = jobs[j].chat_id
           => i \in DOMAIN messages'
    BY <2>2, <2>5, <2>6, <2>7
  <2> QED BY <1>b, <2>2, <2>4, <2>7, <2>8
<1> QED BY <1>1, <1>2, <1>3, <1>4, StepKinds

\* While a node works on a job, the conversation it was given by claim_job is
\* still what the canister stores: no edit, deletion, timeout or other chat's
\* generation changes it.
THEOREM ContextStable == Spec => []ContextIsStable
<1>1. Init => ContextInv
  BY DEF Init, EmptyMap, ContextInv, ClaimsNoted, ContextIsStable
<1>2. ContextInv => ContextIsStable
  BY DEF ContextInv
<1>3. TypeOK /\ Inv /\ TypeOK' /\ Inv' /\ ContextInv /\ [Next]_vars => ContextInv'
  BY StepKeepsContext
<1> QED BY <1>1, <1>2, <1>3, Invariance, PTL DEF Spec
=============================================================================
