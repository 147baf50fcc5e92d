------------------------------ MODULE ChatJobs ------------------------------
(***************************************************************************)
(* The chats, messages and generation jobs of one gpt_user canister: the   *)
(* owner's calls that start a generation (create_chat, add_message,        *)
(* edit_user_message, retry_ai_message, continue_from_tool_response), the  *)
(* calls that touch a chat, the nodes' claim_job and complete_job, and the *)
(* canister's timers, which refresh the caches of nodes and models, time   *)
(* out stale jobs and delete old chats.                                    *)
(*                                                                         *)
(* A canister executes one message at a time, so a handler without an      *)
(* await is one action.  The timer task awaits two calls to the index      *)
(* canister and is three actions; anything may happen between them.        *)
(*                                                                         *)
(* Kept of the data: ids, parent links, roles, statuses, which fields of   *)
(* an answer are set, and how long ago a record was updated.  A request    *)
(* the code rejects changes nothing and is left out; requests differ only  *)
(* in what the surviving checks tell apart.  Every call of the owner is    *)
(* made by the bound owner (verify_owner), who owns every chat.            *)
(***************************************************************************)
EXTENDS Naturals, StableMap

CONSTANTS
    NodeIds,            \* ids of the compute nodes in the index
    Principals,         \* principals a node may run under
    Models,             \* model ids
    RequestRoles,       \* roles the owner's client gives an added message
    PeriodicRuns,       \* runs of perform_periodic_tasks that may overlap
    InitialRuns,        \* runs of perform_initial_sync that may overlap
    MAX_TOOL_RESPONSES, \* bound: responses in one continue_from_tool call
    MAX_CHATS,          \* bounds on the ids the counters hand out
    MAX_MESSAGES,
    MAX_JOBS,
    PENDING_TIMEOUT, INPROGRESS_TIMEOUT,   \* of time_out_stale_jobs
    TEMP_CHAT_TTL, CHAT_TTL, ARCHIVED_TTL  \* of cleanup_old_chats

ASSUME BoundsAssumption ==
    /\ MAX_TOOL_RESPONSES \in Nat
    /\ MAX_CHATS \in Nat
    /\ MAX_MESSAGES \in Nat
    /\ MAX_JOBS \in Nat

ASSUME RunsAssumption == PeriodicRuns \cap InitialRuns = {}

ASSUME RolesAssumption ==
    RequestRoles \subseteq {"System", "User", "Assistant", "Tool"}

ASSUME TimeoutAssumption ==
    /\ PENDING_TIMEOUT \in Nat /\ INPROGRESS_TIMEOUT \in Nat
    /\ TEMP_CHAT_TTL \in Nat /\ CHAT_TTL \in Nat /\ ARCHIVED_TTL \in Nat

VARIABLES
    chats,           \* CHATS:     chat id    -> Chat
    messages,        \* MESSAGES:  message id -> Message
    jobs,            \* CHAT_JOBS: job id     -> Job
    next_chat_id, next_message_id, next_job_id,  \* counters of CONFIG
    nodes,           \* NODES:  node id  -> LocalNode, a cache of the index
    models,          \* MODELS: model id -> its status, a cache of the index
    sync,            \* where each timer task waits
    claimed          \* job id -> the messages claim_job replied with

stores == <<chats, messages, jobs>>
counters == <<next_chat_id, next_message_id, next_job_id>>
caches == <<nodes, models>>
vars == <<stores, counters, caches, sync, claimed>>

None == 0       \* Option::None for an id: the counters start at 1

Roles == {"System", "User", "Assistant", "Tool"}
Live == {"Pending", "InProgress"}
Finished == {"Completed", "Failed"}
Results == {"Success", "Failure", "ToolCall"}
Tasks == PeriodicRuns \cup InitialRuns

(***************************************************************************)
(* Time is kept as ages: `age' is now - updated_at.  It grows with the     *)
(* clock until it is past every limit it is compared with, and stays there.*)
(***************************************************************************)
Older(age, limits) == IF \E l \in limits : age <= l THEN age + 1 ELSE age
ChatLimits == {TEMP_CHAT_TTL, CHAT_TTL, ARCHIVED_TTL}
JobLimits == {PENDING_TIMEOUT, INPROGRESS_TIMEOUT}

Chat == [message_ids : SUBSET Nat, job_ids : SUBSET Nat,
         active_job_id : Nat, archived : BOOLEAN, temporary : BOOLEAN,
         age : Nat]
\* `content': somebody has written the message, be it with no text; only the
\* placeholder of a generation starts unwritten.
Message == [chat_id : Nat, parent : Nat, role : Roles, content : BOOLEAN,
            error_status : {"None", "Timeout", "Reported"},
            tool_calls : BOOLEAN, requires_client_action : BOOLEAN]
Job == [chat_id : Nat, status : Live \cup Finished, node_id : NodeIds,
        placeholder : Nat, age : Nat]
LocalNode == [principal : Principals, model_id : Models]
ModelStatus == {"Active", "Paused"}

Init ==
    /\ chats = EmptyMap /\ messages = EmptyMap /\ jobs = EmptyMap
    /\ next_chat_id = 1 /\ next_message_id = 1 /\ next_job_id = 1
    /\ nodes = EmptyMap /\ models = EmptyMap
    /\ sync = [t \in Tasks |-> IF t \in InitialRuns THEN "nodes" ELSE "idle"]
    /\ claimed = EmptyMap
-----------------------------------------------------------------------------
(***************************************************************************)
(* Starting a generation.                                                  *)
(***************************************************************************)
NewMessage(c, parent, role, content) ==
    [chat_id |-> c, parent |-> parent, role |-> role, content |-> content,
     error_status |-> "None", tool_calls |-> FALSE,
     requires_client_action |-> FALSE]

\* Mutant of InGeneration: only a job that a node has claimed locks the chat.
InGenerationOnceClaimed(c) ==
    /\ c \in DOMAIN chats /\ chats[c].active_job_id # None
    /\ jobs[chats[c].active_job_id].status = "InProgress"

\* is_chat_in_generation: a chat that is not stored is not in generation.
InGeneration(c) == c \in DOMAIN chats /\ chats[c].active_job_id # None

\* Mutant of ValidGeneration: the check for an active job is forgotten.
ValidGenerationUnlocked(c, n, m) ==
    /\ n \in DOMAIN nodes /\ nodes[n].model_id = m
    /\ m \in DOMAIN models

\* validate_generation_request; a new chat has no active job to check.
ValidGeneration(c, n, m) ==
    /\ ~InGeneration(c)
    /\ n \in DOMAIN nodes /\ nodes[n].model_id = m
    /\ m \in DOMAIN models

\* The check create_chat and add_message make and the other three omit.
NotPaused(m) == m \in DOMAIN models /\ models[m] # "Paused"

NewJob(c, n, placeholder) ==
    [chat_id |-> c, status |-> "Pending", node_id |-> n,
     placeholder |-> placeholder, age |-> 0]

(***************************************************************************)
(* The tail of the five handlers that start a generation: `count' new      *)
(* messages of one role, each the parent of the next, the first one under  *)
(* `parent'; then the empty assistant message the node will fill, its job, *)
(* and the chat that links them and makes the job its active one.  `kept'  *)
(* is what MESSAGES retains and `chat' the record before it is linked.     *)
(***************************************************************************)
StartGeneration(c, chat, kept, parent, count, role, n) ==
    LET first == next_message_id
        ai    == first + count
        job   == next_job_id
    IN  /\ ai <= MAX_MESSAGES /\ job <= MAX_JOBS
        /\ messages' = [i \in DOMAIN kept \cup (first .. ai) |->
              IF i \in first .. ai
              THEN NewMessage(c, IF i = first THEN parent ELSE i - 1,
                              IF i = ai THEN "Assistant" ELSE role, i # ai)
              ELSE kept[i]]
        /\ jobs' = Insert(jobs, job, NewJob(c, n, ai))
        /\ chats' = Insert(chats, c,
              [chat EXCEPT !.message_ids = @ \cup (first .. ai),
                           !.job_ids = @ \cup {job},
                           !.active_job_id = job,
                           !.age = 0])
        /\ next_message_id' = ai + 1
        /\ next_job_id' = job + 1
        /\ UNCHANGED <<caches, sync, claimed>>

NewChat(temp) ==
    [message_ids |-> {}, job_ids |-> {}, active_job_id |-> None,
     archived |-> FALSE, temporary |-> temp, age |-> 0]

CreateChat(n, m, temp) ==
    /\ NotPaused(m)
    /\ ValidGeneration(None, n, m)
    /\ next_chat_id <= MAX_CHATS
    /\ next_chat_id' = next_chat_id + 1
    /\ StartGeneration(next_chat_id, NewChat(temp), messages, None, 1, "User", n)

\* The parent must be a stored message of the same chat, if there is one.
ValidParent(c, parent) ==
    \/ parent = None
    \/ parent \in DOMAIN messages /\ messages[parent].chat_id = c

AddMessage(c, n, m, parent, role) ==
    /\ NotPaused(m)
    /\ c \in DOMAIN chats
    /\ ValidParent(c, parent)
    /\ ValidGeneration(c, n, m)
    /\ StartGeneration(c, chats[c], messages, parent, 1, role, n)
    /\ UNCHANGED next_chat_id

\* Mutant of UserMessageOf: the role of the target is not checked.
AnyMessageOf(c, i) == i \in DOMAIN messages /\ messages[i].chat_id = c

\* A user message of chat c: what edit and retry demand of their target.
UserMessageOf(c, i) ==
    /\ i \in DOMAIN messages
    /\ messages[i].role = "User" /\ messages[i].chat_id = c

\* Mutant of EditUserMessage: the old id stays in the chat's list.
EditUserMessageUnlisted(c, n, m, old) ==
    /\ c \in DOMAIN chats
    /\ UserMessageOf(c, old)
    /\ ValidGeneration(c, n, m)
    /\ StartGeneration(c, chats[c], RemoveKeys(messages, {old}),
                       messages[old].parent, 1, "User", n)
    /\ UNCHANGED next_chat_id

\* Mutant of EditUserMessage: the old message is dropped even when the chat
\* is in generation and the edit is refused.
EditUserMessageEarly(c, n, m, old) ==
    /\ c \in DOMAIN chats
    /\ UserMessageOf(c, old)
    /\ \/ /\ ValidGeneration(c, n, m)
          /\ StartGeneration(c, [chats[c] EXCEPT !.message_ids = @ \ {old}],
                             RemoveKeys(messages, {old}), messages[old].parent,
                             1, "User", n)
       \/ /\ ~ValidGeneration(c, n, m)
          /\ messages' = RemoveKeys(messages, {old})
          /\ chats' = [chats EXCEPT ![c].message_ids = @ \ {old}]
          /\ UNCHANGED <<jobs, next_message_id, next_job_id, caches, sync, claimed>>
    /\ UNCHANGED next_chat_id

\* The old message is dropped; its replies stay, under an id no longer stored.
EditUserMessage(c, n, m, old) ==
    /\ c \in DOMAIN chats
    /\ UserMessageOf(c, old)
    /\ ValidGeneration(c, n, m)
    /\ StartGeneration(c, [chats[c] EXCEPT !.message_ids = @ \ {old}],
                       RemoveKeys(messages, {old}), messages[old].parent,
                       1, "User", n)
    /\ UNCHANGED next_chat_id

RetryAiMessage(c, n, m, user) ==
    /\ c \in DOMAIN chats
    /\ UserMessageOf(c, user)
    /\ ValidGeneration(c, n, m)
    /\ StartGeneration(c, chats[c], messages, user, 0, "User", n)
    /\ UNCHANGED next_chat_id

AssistantMessageOf(c, i) ==
    /\ i \in DOMAIN messages
    /\ messages[i].role = "Assistant" /\ messages[i].chat_id = c

\* requires_client_action of the assistant message is left as it is.
ContinueFromToolResponse(c, n, m, assistant, count) ==
    /\ c \in DOMAIN chats
    /\ AssistantMessageOf(c, assistant)
    /\ messages[assistant].tool_calls
    /\ ValidGeneration(c, n, m)
    /\ StartGeneration(c, chats[c], messages, assistant, count, "Tool", n)
    /\ UNCHANGED next_chat_id
-----------------------------------------------------------------------------
(***************************************************************************)
(* Calls of the owner that start nothing.                                  *)
(***************************************************************************)
\* The results themselves are read by nobody in the canister.
StoreToolResults(c, i) ==
    /\ c \in DOMAIN chats
    /\ AssistantMessageOf(c, i)
    /\ messages' = [messages EXCEPT ![i].requires_client_action = FALSE]
    /\ UNCHANGED <<chats, jobs, counters, caches, sync, claimed>>

\* The model whose limits apply: that of the answer's job, or of another of the chat.
ModelIdForMessage(i) == \E j \in DOMAIN jobs : jobs[j].chat_id = messages[i].chat_id

UpdateMessageAttachments(i) ==
    /\ i \in DOMAIN messages /\ messages[i].role = "User"
    /\ messages[i].chat_id \in DOMAIN chats
    /\ ModelIdForMessage(i)
    /\ ~InGeneration(messages[i].chat_id)
    /\ chats' = [chats EXCEPT ![messages[i].chat_id].age = 0]
    /\ UNCHANGED <<messages, jobs, counters, caches, sync, claimed>>

ArchiveChat(c) ==
    /\ c \in DOMAIN chats /\ ~chats[c].temporary
    /\ chats' = [chats EXCEPT ![c].archived = TRUE, ![c].age = 0]
    /\ UNCHANGED <<messages, jobs, counters, caches, sync, claimed>>

UnarchiveChat(c) ==
    /\ c \in DOMAIN chats
    /\ chats' = [chats EXCEPT ![c].archived = FALSE, ![c].age = 0]
    /\ UNCHANGED <<messages, jobs, counters, caches, sync, claimed>>

RenameChat(c) ==
    /\ c \in DOMAIN chats
    /\ chats' = [chats EXCEPT ![c].age = 0]
    /\ UNCHANGED <<messages, jobs, counters, caches, sync, claimed>>

MessagesOf(chatMap, C) == UNION {chatMap[c].message_ids : c \in C}
JobsOf(chatMap, C) == UNION {chatMap[c].job_ids : c \in C}

\* delete_chat_internal for every chat of C, on the stores given.
DeleteChats(chatMap, messageMap, jobMap, C) ==
    /\ chats' = RemoveKeys(chatMap, C)
    /\ messages' = RemoveKeys(messageMap, MessagesOf(chatMap, C))
    /\ jobs' = RemoveKeys(jobMap, JobsOf(chatMap, C))

DeleteChat(c) ==
    /\ c \in DOMAIN chats
    /\ ~InGeneration(c)
    /\ DeleteChats(chats, messages, jobs, {c})
    /\ UNCHANGED <<counters, caches, sync, claimed>>
-----------------------------------------------------------------------------
(***************************************************************************)
(* Calls of the nodes.  A call may come from any principal at any time: a  *)
(* node may crash, repeat itself or answer late.                           *)
(***************************************************************************)
\* verify_node_by_caller: the index gives no two nodes one principal.
CallerIs(p, n) == n \in DOMAIN nodes /\ nodes[n].principal = p

\* The walk up the parent links claim_job replies with, as a set of ids.
MessageChain(messageMap, start) ==
    LET up[i \in Nat] == IF i \in DOMAIN messageMap
                         THEN {i} \cup up[messageMap[i].parent]
                         ELSE {}
    IN  up[start]

ClaimJob(p, j) ==
    /\ j \in DOMAIN jobs
    /\ CallerIs(p, jobs[j].node_id)
    /\ jobs[j].chat_id \in DOMAIN chats
    /\ chats[jobs[j].chat_id].active_job_id = j
    /\ jobs[j].status = "Pending"
    /\ jobs' = Insert(jobs, j, [jobs[j] EXCEPT !.status = "InProgress", !.age = 0])
    /\ claimed' = Insert(claimed, j, MessageChain(messages, jobs[j].placeholder))
    /\ UNCHANGED <<chats, messages, counters, caches, sync>>

\* What a completion writes to the placeholder message.
Answered(msg, result) ==
    CASE result = "Success"  -> [msg EXCEPT !.content = TRUE,
                                            !.error_status = "None",
                                            !.requires_client_action = FALSE]
      [] result = "Failure"  -> [msg EXCEPT !.error_status = "Reported",
                                            !.requires_client_action = FALSE]
      [] result = "ToolCall" -> [msg EXCEPT !.tool_calls = TRUE,
                                            !.error_status = "None",
                                            !.requires_client_action = TRUE]

\* The chat is released only if the job is the one that holds it.
Release(chatMap, J) ==
    [c \in DOMAIN chatMap |->
        IF \E j \in J : jobs[j].chat_id = c /\ chatMap[c].active_job_id = j
        THEN [chatMap[c] EXCEPT !.active_job_id = None, !.age = 0]
        ELSE chatMap[c]]

\* Mutant of FinalStatus: the node's result is stored as the status.
ResultAsStatus(result) == result

FinalStatus(result) == IF result = "Failure" THEN "Failed" ELSE "Completed"

\* Mutant of CompleteJob: a job that is no longer in progress is accepted.
CompleteJobAgain(p, j, result) ==
    /\ j \in DOMAIN jobs
    /\ CallerIs(p, jobs[j].node_id)
    /\ jobs' = Insert(jobs, j,
                      [jobs[j] EXCEPT !.status = FinalStatus(result), !.age = 0])
    /\ messages' = [i \in DOMAIN messages |->
          IF i = jobs[j].placeholder THEN Answered(messages[i], result)
          ELSE messages[i]]
    /\ chats' = Release(chats, {j})
    /\ UNCHANGED <<counters, caches, sync, claimed>>

CompleteJob(p, j, result) ==
    /\ j \in DOMAIN jobs
    /\ CallerIs(p, jobs[j].node_id)
    /\ jobs[j].status = "InProgress"
    /\ jobs' = Insert(jobs, j,
                      [jobs[j] EXCEPT !.status = FinalStatus(result), !.age = 0])
    /\ messages' = [i \in DOMAIN messages |->
          IF i = jobs[j].placeholder THEN Answered(messages[i], result)
          ELSE messages[i]]
    /\ chats' = Release(chats, {j})
    /\ UNCHANGED <<counters, caches, sync, claimed>>
-----------------------------------------------------------------------------
(***************************************************************************)
(* Timers.  time_out_stale_jobs and cleanup_old_chats are async but await  *)
(* nothing: they run in the message that brings the list of models.        *)
(***************************************************************************)
\* Mutant of Stale: a job whose node never answers is not timed out.
StalePending ==
    {j \in DOMAIN jobs : jobs[j].status = "Pending" /\ jobs[j].age > PENDING_TIMEOUT}

Stale ==
    {j \in DOMAIN jobs :
        \/ jobs[j].status = "Pending" /\ jobs[j].age > PENDING_TIMEOUT
        \/ jobs[j].status = "InProgress" /\ jobs[j].age > INPROGRESS_TIMEOUT}

\* fail_job(_, Timeout) for every job of J: the jobs and their placeholders.
FailedJobs(J) ==
    [j \in DOMAIN jobs |->
        IF j \in J THEN [jobs[j] EXCEPT !.status = "Failed", !.age = 0]
        ELSE jobs[j]]

FailedMessages(J) ==
    [i \in DOMAIN messages |->
        IF \E j \in J : jobs[j].placeholder = i
        THEN [messages[i] EXCEPT !.error_status = "Timeout",
                                 !.requires_client_action = FALSE]
        ELSE messages[i]]

Ttl(chat) == IF chat.temporary THEN TEMP_CHAT_TTL
             ELSE IF chat.archived THEN ARCHIVED_TTL ELSE CHAT_TTL

\* Mutant of OldChats: a chat in generation is not skipped.
OldChatsEvenBusy(chatMap) ==
    {c \in DOMAIN chatMap : chatMap[c].age > Ttl(chatMap[c])}

\* cleanup_old_chats skips a chat in generation.
OldChats(chatMap) ==
    {c \in DOMAIN chatMap : /\ chatMap[c].age > Ttl(chatMap[c])
                            /\ chatMap[c].active_job_id = None}

TimeOutAndCleanup ==
    LET released == Release(chats, Stale)
    IN  DeleteChats(released, FailedMessages(Stale), FailedJobs(Stale),
                    OldChats(released))

\* The interval timer spawns perform_periodic_tasks, which calls the index.
PeriodicTimer(t) ==
    /\ t \in PeriodicRuns /\ sync[t] = "idle"
    /\ sync' = [sync EXCEPT ![t] = "nodes"]
    /\ UNCHANGED <<stores, counters, caches, claimed>>

\* list_active_nodes: active nodes, each with a principal of its own.
NodeListings ==
    {f \in UNION {[S -> LocalNode] : S \in SUBSET NodeIds} :
        \A a, b \in DOMAIN f : f[a].principal = f[b].principal => a = b}

\* The answer replaces the cache; an error leaves it.  get_models is next.
SyncNodes(t) ==
    /\ sync[t] = "nodes"
    /\ \/ nodes' \in NodeListings
       \/ UNCHANGED nodes
    /\ sync' = [sync EXCEPT ![t] = "models"]
    /\ UNCHANGED <<stores, counters, models, claimed>>

ModelListings == UNION {[S -> ModelStatus] : S \in SUBSET Models}

\* The initial sync ends here; a periodic run goes on to the clean-up.
SyncModels(t) ==
    /\ sync[t] = "models"
    /\ \/ models' \in ModelListings
       \/ UNCHANGED models
    /\ IF t \in PeriodicRuns THEN TimeOutAndCleanup ELSE UNCHANGED stores
    /\ sync' = [sync EXCEPT ![t] = "idle"]
    /\ UNCHANGED <<counters, nodes, claimed>>

(***************************************************************************)
(* An upgrade keeps every store and counter (they live in stable memory)   *)
(* and restarts the timers.  A canister is stopped first, and stopping     *)
(* waits for its outstanding calls.                                        *)
(***************************************************************************)
Upgrade ==
    /\ \A t \in Tasks : sync[t] = "idle"
    /\ sync' = [t \in Tasks |-> IF t \in InitialRuns THEN "nodes" ELSE "idle"]
    /\ UNCHANGED <<stores, counters, caches, claimed>>

\* Nobody reads the age of a finished job: it stays 0.
TimePasses ==
    /\ chats' = [c \in DOMAIN chats |->
                   [chats[c] EXCEPT !.age = Older(@, ChatLimits)]]
    /\ jobs' = [j \in DOMAIN jobs |->
                  IF jobs[j].status \in Live
                  THEN [jobs[j] EXCEPT !.age = Older(@, JobLimits)] ELSE jobs[j]]
    /\ UNCHANGED <<messages, counters, caches, sync, claimed>>
-----------------------------------------------------------------------------
StartCall ==
    \E n \in NodeIds, m \in Models :
        \/ \E temp \in BOOLEAN : CreateChat(n, m, temp)
        \/ \E c \in DOMAIN chats :
            \/ \E parent \in DOMAIN messages \cup {None}, role \in RequestRoles :
                  AddMessage(c, n, m, parent, role)
            \/ \E i \in DOMAIN messages :
                  \/ EditUserMessage(c, n, m, i)
                  \/ RetryAiMessage(c, n, m, i)
                  \/ \E count \in 0 .. MAX_TOOL_RESPONSES :
                        ContinueFromToolResponse(c, n, m, i, count)

ChatCall ==
    \/ \E c \in DOMAIN chats : \/ ArchiveChat(c)
                               \/ UnarchiveChat(c)
                               \/ RenameChat(c)
                               \/ DeleteChat(c)
    \/ \E c \in DOMAIN chats, i \in DOMAIN messages : StoreToolResults(c, i)
    \/ \E i \in DOMAIN messages : UpdateMessageAttachments(i)

NodeCall ==
    \E p \in Principals, j \in DOMAIN jobs :
        \/ ClaimJob(p, j)
        \/ \E result \in Results : CompleteJob(p, j, result)

TimerStep ==
    \/ \E t \in Tasks : PeriodicTimer(t) \/ SyncNodes(t) \/ SyncModels(t)
    \/ TimePasses

Next == StartCall \/ ChatCall \/ NodeCall \/ TimerStep \/ Upgrade

Spec == Init /\ [][Next]_vars

(***************************************************************************)
(* The clock runs, the interval timer fires, and every call to the index   *)
(* is answered or rejected (the platform guarantees it for an unbounded    *)
(* wait).  Nothing is assumed of the owner or of the nodes.                *)
(***************************************************************************)
Fairness ==
    /\ WF_vars(TimePasses)
    /\ \A t \in PeriodicRuns : WF_vars(PeriodicTimer(t))
    /\ \A t \in Tasks : WF_vars(SyncNodes(t)) /\ WF_vars(SyncModels(t))

FairSpec == Spec /\ Fairness
-----------------------------------------------------------------------------
(***************************************************************************)
(* Properties.                                                             *)
(***************************************************************************)
IsMap(f, R) == f \in [DOMAIN f -> R] /\ DOMAIN f \subseteq Nat \ {0}

\* Every store holds well-formed records under ids of its counter, and the
\* timer tasks are at one of their await points.
TypeOK ==
    /\ IsMap(chats, Chat) /\ IsMap(messages, Message) /\ IsMap(jobs, Job)
    /\ next_chat_id \in Nat \ {0}
    /\ next_message_id \in Nat \ {0}
    /\ next_job_id \in Nat \ {0}
    /\ DOMAIN nodes \subseteq NodeIds /\ nodes \in [DOMAIN nodes -> LocalNode]
    /\ DOMAIN models \subseteq Models /\ models \in [DOMAIN models -> ModelStatus]
    /\ sync \in [Tasks -> {"idle", "nodes", "models"}]
    /\ DOMAIN claimed \subseteq Nat \ {0}

\* The lock of a chat and the jobs agree: a chat names a live job of its own
\* as active, and every live job is the active one of a stored chat.  So a
\* chat has at most one generation under way and a lock always has a job
\* whose end will release it (validate_generation_request, complete_job,
\* fail_job, delete_chat).
ActiveJobsAgree ==
    /\ \A c \in DOMAIN chats : chats[c].active_job_id # None =>
          LET j == chats[c].active_job_id
          IN  j \in DOMAIN jobs /\ jobs[j].chat_id = c /\ jobs[j].status \in Live
    /\ \A j \in DOMAIN jobs : jobs[j].status \in Live =>
          /\ jobs[j].chat_id \in DOMAIN chats
          /\ chats[jobs[j].chat_id].active_job_id = j

\* A chat's lists are exactly the stored messages and jobs that name it, so
\* deleting the chat (delete_chat_internal follows the lists) leaves nothing
\* behind and takes nothing of another chat.
ListsAreExact ==
    /\ \A c \in DOMAIN chats :
          /\ chats[c].message_ids =
                {i \in DOMAIN messages : messages[i].chat_id = c}
          /\ chats[c].job_ids = {j \in DOMAIN jobs : jobs[j].chat_id = c}
    /\ \A i \in DOMAIN messages : messages[i].chat_id \in DOMAIN chats
    /\ \A j \in DOMAIN jobs : jobs[j].chat_id \in DOMAIN chats

\* A parent is older than its child, so claim_job's walk ends; and a parent
\* still stored belongs to the same chat, so the walk never hands a node a
\* message of another conversation.
ParentsAreOlderAndLocal ==
    \A i \in DOMAIN messages :
        /\ messages[i].parent < i
        /\ messages[i].parent \in DOMAIN messages =>
              messages[messages[i].parent].chat_id = messages[i].chat_id

\* Each job has a placeholder of its own, stored as long as the job is, in
\* the job's chat; while the job is live nobody has written an answer to it
\* and when it has finished somebody has.  No edit, retry or tool result
\* loses or fills the message a node is still working on.
PlaceholdersWait ==
    \A j \in DOMAIN jobs :
        LET i == jobs[j].placeholder
        IN  /\ i \in DOMAIN messages
            /\ messages[i].role = "Assistant"
            /\ messages[i].chat_id = jobs[j].chat_id
            /\ \A k \in DOMAIN jobs : jobs[k].placeholder = i => k = j
            /\ jobs[j].status \in Live <=>
                 /\ ~messages[i].content /\ ~messages[i].tool_calls
                 /\ messages[i].error_status = "None"

\* The history that a node is handed is sound: claim_job's walk up the parents
\* ends within the chat, and starts at a placeholder that is still there.
HistoryIsSound == ParentsAreOlderAndLocal /\ PlaceholdersWait

\* While a node works on a job, the conversation it was given by claim_job is
\* still what the canister stores: edits and deletions wait for the job.
ContextIsStable ==
    \A j \in DOMAIN jobs : jobs[j].status = "InProgress" =>
        claimed[j] = MessageChain(messages, jobs[j].placeholder)

\* The part of a message that a generation writes.
AnswerOf(msg) == <<msg.content, msg.error_status, msg.tool_calls>>

\* A finished job never changes again, nor does the answer in its
\* placeholder: a completion that arrives after the timeout, or a second one,
\* overwrites nothing.
FinishedIsFinal ==
    [][\A j \in DOMAIN jobs : jobs[j].status \in Finished /\ j \in DOMAIN jobs' =>
          LET i == jobs[j].placeholder
          IN  /\ jobs'[j].status = jobs[j].status
              /\ i \in DOMAIN messages'
              /\ AnswerOf(messages'[i]) = AnswerOf(messages[i])]_vars

\* A chat disappears only when nothing is being generated in it, at the
\* owner's request or after it has been left alone for longer than its TTL;
\* and a timed-out generation gives its chat a new lease in the same run.
DeletionIsDue ==
    [][\A c \in DOMAIN chats \ DOMAIN chats' :
          /\ chats[c].active_job_id = None
          /\ sync' # sync => chats[c].age > Ttl(chats[c])]_vars

\* Whatever the nodes do, every generation ends: no chat is locked for ever.
GenerationEnds ==
    \A j \in 1 .. MAX_JOBS :
        (j \in DOMAIN jobs /\ jobs[j].status \in Live)
            ~> (j \notin DOMAIN jobs \/ jobs[j].status \in Finished)

(***************************************************************************)
(* The chats with an active job, seen as generations under way.            *)
(***************************************************************************)
Running ==
    [c \in {k \in DOMAIN chats : chats[k].active_job_id # None} |->
        [job |-> chats[c].active_job_id,
         claimed |-> jobs[chats[c].active_job_id].status = "InProgress"]]

Lock == INSTANCE GenerationLock
            WITH ChatIds <- 1 .. MAX_CHATS, running <- Running,
                 last <- next_job_id - 1

\* The canister implements the abstract lock: whatever calls, answers,
\* timeouts and clean-ups interleave, a chat runs one generation at a time,
\* each under a new job, claimed at most once, and a late or repeated answer
\* never ends a generation other than its own.
LocksGenerations == Lock!Spec
=============================================================================
