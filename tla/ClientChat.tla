----------------------------- MODULE ClientChat -----------------------------
(***************************************************************************)
(* The chat store of the browser client (gpt_frontend/src/store/chatStore) *)
(* while answers are asked for, streamed and fetched.  JavaScript runs to  *)
(* the next await, so an action is what the store does between two awaits  *)
(* and every callback (a socket's event, a decrypted packet, an animation  *)
(* frame, a timer, a rendered effect, a canister's reply) is an action.    *)
(*                                                                         *)
(* The user canister and the node are what the client sees of them: a job  *)
(* runs until it is done or failed, and a socket of a running job carries  *)
(* a partial answer and a final packet.  An answer's text is abstracted to *)
(* its length: Empty, Part or Full.                                        *)
(***************************************************************************)
EXTENDS Naturals, Sequences, FiniteSets, SequencesExt

CONSTANTS Chats,        \* chats the user canister may hold
          MaxJobs,      \* bound: generations asked for
          MaxSockets,   \* bound: sockets opened
          MaxConnects,  \* bound: times a socket's handlers are bound
          MaxTimers,    \* bound: fetchMessages timers that wait for a chat
          MaxOps,       \* bound: async functions that wait at a time
          MaxTurns,     \* bound: what the user does
          ToolCalls     \* whether a stream may end in a tool call: a BOOLEAN

ASSUME ChatAssumption ==
    /\ "new" \notin Chats   \* the key of a chat that is not created yet
    /\ MaxJobs \in Nat \ {0} /\ MaxSockets \in Nat /\ MaxConnects \in Nat /\ ToolCalls \in BOOLEAN

VARIABLES
    jobs,      \* the generations on the canister, [chat, status, text]
    store,     \* the zustand state
    sockets,   \* WebSocket objects: [job, state, greeting, handler, sent]
    handlers,  \* closures of createMessageHandler
    ops,       \* async functions that wait for something
    timers,    \* chat -> timers that will call fetchMessages
    effect,    \* refs of useWebSocketReconnection: [last, attempts]
    given,     \* history: chats whose send threw before its try
    turns      \* number of things the user did

vars == <<jobs, store, sockets, handlers, ops, timers, effect, given, turns>>

New == "new"
NoJob == 0
Jobs == 1..MaxJobs
Sockets == 1..MaxSockets
Handlers == 1..MaxConnects

Empty == 0
Part == 1
Full == 2

Flags == {"generating", "typing", "waiting"}
Keys == Chats \cup {New}

\* A packet of a stream: its text, whether it is the last, whether it reports
\* an error.  A stream that ends without text is taken for a tool call.
Packet(text, final, error) == [text |-> text, final |-> final, error |-> error]
NoPacket == Packet(Empty, FALSE, FALSE)
Finals == {Packet(Full, TRUE, FALSE), Packet(Empty, TRUE, TRUE)}
            \cup (IF ToolCalls THEN {Packet(Empty, TRUE, FALSE)} ELSE {})
IsLikelyToolCall(p) == p.final /\ ~p.error /\ p.text = Empty

\* The assistant's message of a job as the client holds it; a user's message
\* is never changed by what follows and is left out.
Message(content, complete, error) ==
    [here |-> TRUE, content |-> content, complete |-> complete, error |-> error]
NoMessage == [here |-> FALSE, content |-> Empty, complete |-> FALSE, error |-> FALSE]
Terminal(m) == m.complete \/ m.error

\* A stored answer that was fetched and cannot be decrypted: a text that says so.
Garbled == Message(Part, TRUE, TRUE)

NoActive == [job |-> NoJob, errored |-> FALSE]
NoSocket == [job |-> NoJob, state |-> "none", greeting |-> FALSE, handler |-> 0, sent |-> NoPacket]
NoHandler == [sock |-> 0, decrypting |-> <<>>, latest |-> NoPacket, some |-> FALSE,
              frame |-> "none", final |-> FALSE]

\* The page is loaded: the user has no chat, or has one, whose generation runs
\* or has ended, and which is on display, fetched, or is not.
Init ==
    /\ \E known \in {{}} \cup {{c} : c \in Chats}, status \in {"running", "done"}, shown \in BOOLEAN :
         LET c == CHOOSE k \in known : TRUE
             first == known # {}
             open == first /\ shown
             busy == open /\ status = "running"
         IN  /\ jobs = [j \in Jobs |->
                         IF j = 1 /\ first THEN [chat |-> c, status |-> status, text |-> Full]
                         ELSE [chat |-> New, status |-> "none", text |-> Empty]]
             /\ store = [chats |-> known,
                         current |-> IF open THEN c ELSE New,
                         messages |-> [j \in Jobs |->
                            IF j # 1 \/ ~open THEN NoMessage
                            ELSE IF busy THEN Message(Empty, FALSE, FALSE)
                            ELSE Message(Full, TRUE, FALSE)],
                         flags |-> [k \in Keys |-> IF busy /\ k = c THEN Flags ELSE {}],
                         active |-> [k \in Chats |->
                            IF busy /\ k = c THEN [job |-> 1, errored |-> FALSE] ELSE NoActive],
                         webSockets |-> [j \in Jobs |-> 0]]
    /\ sockets = [s \in Sockets |-> NoSocket]
    /\ handlers = [h \in Handlers |-> NoHandler]
    /\ ops = {}
    /\ timers = [c \in Chats |-> 0]
    /\ effect = [last |-> NoActive, attempts |-> {}]
    /\ given = {}
    /\ turns = 0

-----------------------------------------------------------------------------
(* Setters of the store: each takes the state and returns the next one.     *)

SetFlags(st, k, f) == [st EXCEPT !.flags[k] = f]

SetActiveChatJob(st, c, j, errored) ==
    [st EXCEPT !.active[c] = [job |-> j, errored |-> errored],
               !.flags[c] = IF errored THEN {} ELSE Flags]

ClearActiveChatJob(st, c) == [st EXCEPT !.active[c] = NoActive, !.flags[c] = {}]

\* A chat whose flags fall is no longer given up.
StillGiven == given' = {k \in given : store'.flags[k] # {}}

AddTimer(c) == [timers EXCEPT ![c] = IF @ < MaxTimers THEN @ + 1 ELSE @]

\* handleWebSocketError: the job is marked errored, its message gets an error
\* unless it has one, the flags fall.  The blacklist of nodes is not modelled.
HandleWebSocketError(st, c, j) ==
    LET marked == SetActiveChatJob(st, c, j, TRUE)
    IN  IF st.messages[j].here
        THEN [marked EXCEPT !.messages[j].error = TRUE, !.messages[j].complete = TRUE]
        ELSE marked

-----------------------------------------------------------------------------
(* The canister.                                                            *)

ActiveJob(c) ==
    LET running == {j \in Jobs : jobs[j].chat = c /\ jobs[j].status = "running"}
    IN  IF running = {} THEN NoJob ELSE CHOOSE j \in running : TRUE

\* Messages and jobs, as getMessage and getChatJobs return them.
Stored(j) ==
    CASE jobs[j].status = "done"    -> Message(jobs[j].text, TRUE, FALSE)
      [] jobs[j].status = "failed"  -> Message(Empty, TRUE, TRUE)
      [] jobs[j].status = "running" -> Message(Empty, FALSE, FALSE)
      [] OTHER                      -> NoMessage

\* complete_job, or the canister's timer that fails a job.
JobEnds(j, status) ==
    /\ jobs[j].status = "running"
    /\ jobs' = [jobs EXCEPT ![j].status = status]
    /\ UNCHANGED <<store, sockets, handlers, ops, timers, effect>> /\ StillGiven

-----------------------------------------------------------------------------
(* Asking for an answer.                                                    *)

\* An async function that waits: of whom it was asked, the job it is about and
\* what it has read so far (the active job, ids of messages or jobs, messages,
\* the status of jobs, chats).
Op(kind, key, job) == [kind |-> kind, key |-> key, job |-> job, active |-> NoJob,
                       ids |-> {}, seen |-> [j \in Jobs |-> NoMessage],
                       details |-> [j \in Jobs |-> "none"], chats |-> {}]

Room == Cardinality(ops) < MaxOps

\* sendMessage, from the input of the chat on display.
SendMessage ==
    LET k == store.current
    IN  /\ Room /\ "generating" \notin store.flags[k]
        /\ store' = SetFlags(store, k, Flags)
        /\ ops' = ops \cup {Op("send", k, NoJob)}
        /\ UNCHANGED <<jobs, sockets, handlers, timers, effect>> /\ StillGiven

\* editUserMessage and retryAiMessage raise one flag only.
EditUserMessage(c) ==
    /\ Room /\ store.current = c
    /\ \E j \in Jobs : jobs[j].chat = c /\ store.messages[j].here
    /\ store' = [store EXCEPT !.flags[c] = @ \cup {"generating"}]
    /\ ops' = ops \cup {Op("edit", c, NoJob)}
    /\ UNCHANGED <<jobs, sockets, handlers, timers, effect>> /\ StillGiven

RetryAiMessage(c) ==
    /\ Room /\ store.current = c
    /\ \E j \in Jobs : jobs[j].chat = c /\ Terminal(store.messages[j])
    /\ store' = [store EXCEPT !.flags[c] = @ \cup {"generating"}]
    /\ ops' = ops \cup {Op("edit", c, NoJob)}
    /\ UNCHANGED <<jobs, sockets, handlers, timers, effect>> /\ StillGiven

\* No node for the model, or its key is missing: sendMessage's function throws
\* before its try, and nothing lowers the flags that sendMessage raised.
PickNodeFails(o) ==
    /\ o \in ops /\ o.kind = "send" /\ o.job = NoJob
    /\ ops' = ops \ {o}
    /\ given' = given \cup {o.key}
    /\ UNCHANGED <<jobs, store, sockets, handlers, timers, effect>>

\* The canister executes create_chat, add_message, edit or retry.
CanisterStarts(o, c) ==
    /\ o \in ops /\ o.kind \in {"send", "edit"} /\ o.job = NoJob
    /\ o.key = c \/ (o.key = New /\ c \notin {jobs[j].chat : j \in Jobs} \cup store.chats)
    /\ ActiveJob(c) = NoJob
    /\ \E j \in Jobs :
         /\ jobs[j].status = "none" /\ \A i \in Jobs : i < j => jobs[i].status # "none"
         /\ \E text \in {Full} \cup (IF ToolCalls THEN {Empty} ELSE {}) :
              jobs' = [jobs EXCEPT ![j] = [chat |-> c, status |-> "running", text |-> text]]
         /\ ops' = (ops \ {o}) \cup {[o EXCEPT !.job = j]}
    /\ UNCHANGED <<store, sockets, handlers, timers, effect>> /\ StillGiven

\* The call is refused, or its reply is lost: the catch of each function.
CallFails(o) ==
    /\ o \in ops /\ o.kind \in {"send", "edit"}
    /\ ops' = ops \ {o}
    /\ store' = SetFlags(store, o.key, IF o.kind = "send" THEN {}
                                       ELSE store.flags[o.key] \ {"generating"})
    /\ UNCHANGED <<jobs, sockets, handlers, timers, effect>> /\ StillGiven

\* connectToChainWebSocket up to its first await: it needs the chat's salt.
ConnectTo(st, c, j, rest) ==
    IF c \in st.chats
    THEN /\ store' = st
         /\ ops' = rest \cup {Op("connect", c, j)}
         /\ UNCHANGED timers
    ELSE /\ store' = HandleWebSocketError(st, c, j)
         /\ ops' = rest
         /\ timers' = AddTimer(c)

\* Mutant of CreateReturns: the flags of the new chat are not cleared.
CreateReturnsStillAsking(o) ==
    /\ o \in ops /\ o.kind = "send" /\ o.key = New /\ o.job # NoJob
    /\ LET j == o.job
           c == jobs[j].chat
           added == [store EXCEPT !.chats = @ \cup {c}, !.current = c,
                                  !.messages[j] = Message(Empty, FALSE, FALSE)]
       IN  /\ ConnectTo(SetActiveChatJob(added, c, j, FALSE), c, j, ops \ {o})
           /\ effect' = [last |-> NoActive, attempts |-> {}]
    /\ UNCHANGED <<jobs, sockets, handlers>> /\ StillGiven

\* The reply of create_chat: the chat is added and opened.
CreateReturns(o) ==
    /\ o \in ops /\ o.kind = "send" /\ o.key = New /\ o.job # NoJob
    /\ LET j == o.job
           c == jobs[j].chat
           added == [store EXCEPT !.chats = @ \cup {c}, !.current = c,
                                  !.messages[j] = Message(Empty, FALSE, FALSE),
                                  !.flags[New] = {}]
       IN  /\ ConnectTo(SetActiveChatJob(added, c, j, FALSE), c, j, ops \ {o})
           /\ effect' = [last |-> NoActive, attempts |-> {}]
    /\ UNCHANGED <<jobs, sockets, handlers>> /\ StillGiven

\* The reply of add_message.
AddReturns(o) ==
    /\ o \in ops /\ o.kind = "send" /\ o.key # New /\ o.job # NoJob
    /\ LET j == o.job
           added == [store EXCEPT !.messages[j] = Message(Empty, FALSE, FALSE)]
       IN  ConnectTo(SetActiveChatJob(added, o.key, j, FALSE), o.key, j, ops \ {o})
    /\ UNCHANGED <<jobs, sockets, handlers, effect>> /\ StillGiven

\* The reply of edit_user_message or retry_ai_message: the active job is set
\* only when the socket is.
EditReturns(o) ==
    /\ o \in ops /\ o.kind = "edit" /\ o.job # NoJob
    /\ ConnectTo([store EXCEPT !.messages[o.job] = Message(Empty, FALSE, FALSE)],
                 o.key, o.job, ops \ {o})
    /\ UNCHANGED <<jobs, sockets, handlers, effect>> /\ StillGiven

-----------------------------------------------------------------------------
(* The socket of a job.                                                     *)

Unused(f, none) == CHOOSE i \in DOMAIN f : f[i] = none /\ \A k \in DOMAIN f : k < i => f[k] # none

\* The chat key is derived: a live socket of the job is reused, and its
\* handlers are replaced, or a socket is made.
Connects(o) ==
    /\ o \in ops /\ o.kind = "connect"
    /\ \E h \in Handlers : handlers[h] = NoHandler
    /\ LET j == o.job
           old == store.webSockets[j]
           reuse == old # 0 /\ sockets[old].state \in {"connecting", "open"}
           s == IF reuse THEN old ELSE Unused(sockets, NoSocket)
           h == Unused(handlers, NoHandler)
       IN  /\ reuse \/ \E free \in Sockets : sockets[free] = NoSocket
           /\ sockets' = [sockets EXCEPT ![s] =
                            IF reuse THEN [sockets[s] EXCEPT !.handler = h]
                            ELSE [NoSocket EXCEPT !.job = j, !.state = "connecting", !.handler = h]]
           /\ handlers' = [handlers EXCEPT ![h].sock = s]
           /\ store' = SetActiveChatJob([store EXCEPT !.webSockets[j] = s], o.key, j, FALSE)
    /\ ops' = ops \ {o}
    /\ UNCHANGED <<jobs, timers, effect>> /\ StillGiven

\* The key cannot be derived, the node's address is malformed, or the socket
\* cannot be made.
ConnectFails(o) ==
    /\ o \in ops /\ o.kind = "connect"
    /\ store' = HandleWebSocketError(store, o.key, o.job)
    /\ timers' = AddTimer(o.key)
    /\ ops' = ops \ {o}
    /\ UNCHANGED <<jobs, sockets, handlers, effect>> /\ StillGiven

ChatOf(s) == jobs[sockets[s].job].chat

\* onopen up to its await: the handshake is being encrypted.
OnOpen(s) ==
    /\ sockets[s].state = "connecting"
    /\ sockets' = [sockets EXCEPT ![s].state = "open", ![s].greeting = TRUE]
    /\ UNCHANGED <<jobs, store, handlers, ops, timers, effect>> /\ StillGiven

\* onopen after its await: the handshake is sent, into a void if the socket has
\* been closed meanwhile.
HandshakeSent(s) ==
    /\ sockets[s].greeting
    /\ sockets' = [sockets EXCEPT ![s].greeting = FALSE]
    /\ store' = IF store.webSockets[sockets[s].job] = s
                THEN SetFlags(store, ChatOf(s), {"generating", "typing"})
                ELSE store
    /\ UNCHANGED <<jobs, handlers, ops, timers, effect>> /\ StillGiven

\* ... or it cannot be encrypted, and the socket is closed.
HandshakeFails(s) ==
    /\ sockets[s].greeting
    /\ sockets' = [sockets EXCEPT ![s].greeting = FALSE,
                      ![s].state = IF @ = "open" THEN "closing" ELSE @]
    /\ store' = HandleWebSocketError(store, ChatOf(s), sockets[s].job)
    /\ timers' = AddTimer(ChatOf(s))
    /\ UNCHANGED <<jobs, handlers, ops, effect>> /\ StillGiven

\* The node streams a running job, whose last packet agrees with
\* what it stores; to a finished job it answers with an error.
NodeSends(s, p) ==
    /\ sockets[s].state = "open" /\ ~sockets[s].greeting /\ ~sockets[s].sent.final
    /\ LET job == jobs[sockets[s].job]
       IN  IF job.status = "running"
           THEN \/ p = Packet(Part, FALSE, FALSE) /\ sockets[s].sent = NoPacket
                \/ p \in Finals /\ (p.error \/ p.text = job.text)
           ELSE p = Packet(Empty, TRUE, TRUE)
    /\ sockets' = [sockets EXCEPT ![s].sent = p]
    /\ handlers' = [handlers EXCEPT ![sockets[s].handler].decrypting = Append(@, p)]
    /\ UNCHANGED <<jobs, store, ops, timers, effect>> /\ StillGiven

\* The node ends the stream, or the connection is cut.
NodeCloses(s) ==
    /\ sockets[s].state \in {"connecting", "open"}
    /\ sockets' = [sockets EXCEPT ![s].state = "closing"]
    /\ UNCHANGED <<jobs, store, handlers, ops, timers, effect>> /\ StillGiven

JobOf(h) == sockets[handlers[h].sock].job

\* onMessage after its await: the newest packet waits for the next frame.
Decrypted(h) ==
    /\ handlers[h].decrypting # <<>>
    /\ LET p == Head(handlers[h].decrypting)
       IN  handlers' = [handlers EXCEPT
             ![h].decrypting = Tail(@), ![h].latest = p, ![h].some = TRUE,
             ![h].final = @ \/ p.final,
             ![h].frame = IF @ = "none" THEN "scheduled" ELSE @]
    /\ UNCHANGED <<jobs, store, sockets, ops, timers, effect>> /\ StillGiven

Closing(s) == [sockets EXCEPT ![s].state = IF @ \in {"connecting", "open"} THEN "closing" ELSE @]

\* onMessage when the packet cannot be decrypted or parsed.  The frame is
\* cancelled but stays marked as scheduled, so no later packet asks for one.
DecryptFails(h) ==
    /\ handlers[h].decrypting # <<>>
    /\ LET j == JobOf(h) IN
         /\ store' = HandleWebSocketError(store, jobs[j].chat, j)
         /\ timers' = AddTimer(jobs[j].chat)
    /\ handlers' = [handlers EXCEPT ![h].decrypting = Tail(@),
                                    ![h].frame = IF @ = "none" THEN @ ELSE "cancelled"]
    /\ sockets' = Closing(handlers[h].sock)
    /\ UNCHANGED <<jobs, ops, effect>> /\ StillGiven

\* processBatchedUpdate: the store after packet p of job j.
Update(st, c, j, p) ==
    LET m == st.messages[j]
        new == Message(p.text,
                       (p.final /\ ~IsLikelyToolCall(p)) \/ p.error,
                       p.error \/ m.error)
        busy == IF Terminal(new) THEN {} ELSE {"generating", "typing"}
    IN  IF ~m.here THEN st
        ELSE IF new = m THEN SetFlags(st, c, st.flags[c] \ {"waiting"})
        ELSE [st EXCEPT !.messages[j] = new, !.flags[c] = busy]

\* ... and what follows the last packet.
Finish(st, c, j, p) ==
    IF ~p.final THEN st
    ELSE IF p.error THEN SetActiveChatJob(st, c, j, TRUE)
    ELSE ClearActiveChatJob(st, c)

Process(st, h) ==
    LET j == JobOf(h)
        c == jobs[j].chat
        p == handlers[h].latest
    IN  Finish(Update(st, c, j, p), c, j, p)

Flushed(h) == [handlers[h] EXCEPT !.latest = NoPacket, !.some = FALSE, !.frame = "none"]

\* The animation frame that a packet asked for.
FrameFires(h) ==
    /\ handlers[h].frame = "scheduled"
    /\ handlers' = [handlers EXCEPT ![h] = Flushed(h)]
    /\ IF handlers[h].some
       THEN /\ store' = Process(store, h)
            /\ IF handlers[h].latest.final
               THEN /\ sockets' = Closing(handlers[h].sock)
                    /\ timers' = AddTimer(jobs[JobOf(h)].chat)
               ELSE UNCHANGED <<sockets, timers>>
       ELSE UNCHANGED <<store, sockets, timers>>
    /\ UNCHANGED <<jobs, ops, effect>> /\ StillGiven

\* cancel: the frame is cancelled, the packet that waits for it is processed.
Cancelled(h) ==
    IF handlers[h].some THEN Flushed(h)
    ELSE [handlers[h] EXCEPT !.frame = IF @ = "none" THEN @ ELSE "cancelled"]
AfterCancel(st, h) == IF handlers[h].some THEN Process(st, h) ELSE st

\* onerror, for a connection that is cut or never made.
OnError(s) ==
    /\ sockets[s].state \in {"connecting", "open"}
    /\ LET h == sockets[s].handler
           j == sockets[s].job
       IN  /\ handlers' = [handlers EXCEPT ![h] = Cancelled(h)]
           /\ store' = HandleWebSocketError(AfterCancel(store, h), jobs[j].chat, j)
           /\ timers' = AddTimer(jobs[j].chat)
    /\ sockets' = Closing(s)
    /\ UNCHANGED <<jobs, ops, effect>> /\ StillGiven

\* Mutant of OnClose: webSockets keeps the socket of the job.
OnCloseKeepingSocket(s) ==
    /\ sockets[s].state = "closing"
    /\ LET h == sockets[s].handler
           j == sockets[s].job
           c == jobs[j].chat
           st == AfterCancel(store, h)
           handled == st.messages[j].here /\ Terminal(st.messages[j])
           broken == ~handlers[h].final /\ ~handled /\ st.flags[c] # {}
       IN  /\ handlers' = [handlers EXCEPT ![h] = Cancelled(h)]
           /\ store' = IF handlers[h].final THEN ClearActiveChatJob(st, c)
                       ELSE IF broken THEN HandleWebSocketError(st, c, j)
                       ELSE IF st.flags[c] # {} THEN ClearActiveChatJob(st, c)
                       ELSE st
           /\ timers' = IF broken \/ (handlers[h].some /\ handlers[h].latest.final)
                        THEN AddTimer(c) ELSE timers
    /\ sockets' = [sockets EXCEPT ![s].state = "closed", ![s].sent = NoPacket]
    /\ UNCHANGED <<jobs, ops, effect>> /\ StillGiven

\* onclose, with the microtask that it queues.
OnClose(s) ==
    /\ sockets[s].state = "closing"
    /\ LET h == sockets[s].handler
           j == sockets[s].job
           c == jobs[j].chat
           st == [AfterCancel(store, h) EXCEPT !.webSockets[j] = 0]
           handled == st.messages[j].here /\ Terminal(st.messages[j])
           broken == ~handlers[h].final /\ ~handled /\ st.flags[c] # {}
       IN  /\ handlers' = [handlers EXCEPT ![h] = Cancelled(h)]
           /\ store' = IF handlers[h].final THEN ClearActiveChatJob(st, c)
                       ELSE IF broken THEN HandleWebSocketError(st, c, j)
                       ELSE IF st.flags[c] # {} THEN ClearActiveChatJob(st, c)
                       ELSE st
           /\ timers' = IF broken \/ (handlers[h].some /\ handlers[h].latest.final)
                        THEN AddTimer(c) ELSE timers
    /\ sockets' = [sockets EXCEPT ![s].state = "closed", ![s].sent = NoPacket]
    /\ UNCHANGED <<jobs, ops, effect>> /\ StillGiven

-----------------------------------------------------------------------------
(* useWebSocketReconnection and reconnectToActiveJob.                       *)

\* The effect connects to an active job, unless its message has text or an error.
Wanted(a) ==
    a.job # NoJob /\ ~a.errored
      /\ ~store.messages[a.job].error /\ store.messages[a.job].content = Empty

\* A render in which the chat's active job differs from the one processed last.
\* Within the cooldown of an earlier attempt nothing is done, and the effect
\* does not come back to it.
ReconnectEffect(c) ==
    LET a == store.active[c]
        j == a.job
        socket == store.webSockets[j]
        open == socket # 0 /\ sockets[socket].state = "open"
    IN  /\ Room /\ store.current = c /\ a # effect.last
        /\ \E cooling \in {FALSE} \cup {j \in effect.attempts} :
             LET tries == Wanted(a) /\ ~cooling /\ ~open
                 asks == tries /\ socket = 0
             IN  /\ effect' = [last |-> a, attempts |-> IF tries THEN effect.attempts \cup {j}
                                                                 ELSE effect.attempts]
                 /\ store' = IF asks THEN SetFlags(store, c, Flags) ELSE store
                 /\ ops' = IF asks THEN ops \cup {Op("reconnect", c, j)} ELSE ops
        /\ UNCHANGED <<jobs, sockets, handlers, timers>> /\ StillGiven

\* The job's and the node's details are found, and the socket is asked for ...
ReconnectReturns(o) ==
    /\ o \in ops /\ o.kind = "reconnect"
    /\ ConnectTo(store, o.key, o.job, ops \ {o})
    /\ UNCHANGED <<jobs, sockets, handlers, effect>> /\ StillGiven

\* ... or one of them is not, or cannot be read.
ReconnectFails(o) ==
    /\ o \in ops /\ o.kind = "reconnect"
    /\ store' = SetFlags(store, o.key, {})
    /\ ops' = ops \ {o}
    /\ UNCHANGED <<jobs, sockets, handlers, timers, effect>> /\ StillGiven

-----------------------------------------------------------------------------
(* fetchMessages: the chat, its messages and its jobs are read one after    *)
(* the other, and merged with what the store holds by then.                 *)

TimerFires(c) ==
    /\ Room /\ timers[c] > 0
    /\ timers' = [timers EXCEPT ![c] = @ - 1]
    /\ ops' = ops \cup {Op("getChat", c, NoJob)}
    /\ UNCHANGED <<jobs, store, sockets, handlers, effect>> /\ StillGiven

JobsOf(c) == {j \in Jobs : jobs[j].chat = c /\ jobs[j].status \notin {"none", "gone"}}

GetChat(o) ==
    /\ o \in ops /\ o.kind = "getChat" /\ JobsOf(o.key) # {}
    /\ ops' = (ops \ {o}) \cup {[o EXCEPT !.kind = "getMessages", !.ids = JobsOf(o.key),
                                          !.active = ActiveJob(o.key)]}
    /\ UNCHANGED <<jobs, store, sockets, handlers, timers, effect>> /\ StillGiven

\* A message that cannot be fetched is left out; the text of one that cannot be
\* decrypted is replaced and the message gets an error.
GetMessages(o, lost, garbled) ==
    /\ o \in ops /\ o.kind = "getMessages"
    /\ LET read(j) == IF Stored(j).content # Empty /\ j \in garbled THEN Garbled ELSE Stored(j)
       IN  ops' = (ops \ {o}) \cup
             {[o EXCEPT !.kind = "getChatJobs", !.ids = {},
                        !.seen = [j \in Jobs |-> IF j \in o.ids \ lost THEN read(j) ELSE NoMessage]]}
    /\ UNCHANGED <<jobs, store, sockets, handlers, timers, effect>> /\ StillGiven

\* The canister answers with the jobs of the chat as they are by now.
GetChatJobs(o) ==
    /\ o \in ops /\ o.kind = "getChatJobs"
    /\ ops' = (ops \ {o}) \cup
         {[o EXCEPT !.kind = "merge",
                    !.details = [j \in Jobs |-> IF j \in JobsOf(o.key) THEN jobs[j].status ELSE "none"]]}
    /\ UNCHANGED <<jobs, store, sockets, handlers, timers, effect>> /\ StillGiven

\* Mutant of MergeFetchedWithLocal: what was fetched replaces what is there.
FetchedOverLocal(f, l) == IF f.here THEN f ELSE l

\* mergeFetchedWithLocalMap, for one message.
MergeFetchedWithLocal(f, l) ==
    IF ~f.here THEN l
    ELSE IF ~l.here THEN f
    ELSE LET error == l.error \/ f.error
             local == l.content # Empty
                        /\ (f.content = Empty \/ (l.complete /\ ~f.complete))
         IN  Message(IF local \/ f.content = Empty THEN l.content ELSE f.content,
                     f.complete \/ l.complete \/ error, error)

\* mergeJobDetailsIntoMap, for one message, whose job has this status.
MergeJobDetails(m, status) ==
    LET error == m.error \/ status = "failed"
    IN  IF m.here /\ status # "none"
        THEN [m EXCEPT !.error = error,
                       !.complete = @ \/ status \in {"done", "failed"} \/ error]
        ELSE m

\* The last reply: everything from here to the end of the function is one step.
MergesMessages(o) ==
    /\ o \in ops /\ o.kind = "merge"
    /\ LET c == o.key
           a == o.active
           local == store.messages
           merged == [j \in Jobs |-> IF jobs[j].chat = c
                                     THEN MergeJobDetails(MergeFetchedWithLocal(o.seen[j], local[j]),
                                                          o.details[j])
                                     ELSE local[j]]
           running == a # NoJob /\ ~(local[a].here /\ local[a].complete)
                        /\ o.details[a] # "none" /\ merged[a].here /\ ~Terminal(merged[a])
           st == [store EXCEPT !.messages = merged]
           errored == store.active[c].job = a /\ store.active[c].errored
       IN  store' = IF running THEN SetActiveChatJob(st, c, a, errored)
                    ELSE ClearActiveChatJob(st, c)
    /\ ops' = ops \ {o}
    /\ UNCHANGED <<jobs, sockets, handlers, timers, effect>> /\ StillGiven

\* A call fails, or the chat is gone.
FetchFails(o) ==
    /\ o \in ops /\ o.kind \in {"getChat", "getMessages", "getChatJobs", "merge"}
    /\ store' = ClearActiveChatJob(store, o.key)
    /\ ops' = ops \ {o}
    /\ UNCHANGED <<jobs, sockets, handlers, timers, effect>> /\ StillGiven

-----------------------------------------------------------------------------
(* Chats: opening, leaving, renaming, archiving, deleting.                  *)

Loaded(c) == \E j \in Jobs : jobs[j].chat = c /\ store.messages[j].here

\* setCurrentChatId; the messages are fetched unless they are loaded.
SetCurrentChatId(c) ==
    /\ Room /\ c \in store.chats /\ store.current # c
    /\ store' = [store EXCEPT !.current = c]
    /\ ops' = IF Loaded(c) THEN ops ELSE ops \cup {Op("getChat", c, NoJob)}
    /\ effect' = [last |-> NoActive, attempts |-> {}]
    /\ UNCHANGED <<jobs, sockets, handlers, timers>> /\ StillGiven

CreateNewChat ==
    /\ store' = [store EXCEPT !.current = New, !.flags[New] = {}]
    /\ effect' = [last |-> NoActive, attempts |-> {}]
    /\ store' # store
    /\ UNCHANGED <<jobs, sockets, handlers, ops, timers>> /\ StillGiven

\* useChatUrlSync: the address names no chat, and none of its jobs is active.
UrlClears ==
    /\ store.current # New /\ store.active[store.current] = NoActive
    /\ store' = [store EXCEPT !.current = New]
    /\ effect' = [last |-> NoActive, attempts |-> {}]
    /\ UNCHANGED <<jobs, sockets, handlers, ops, timers>> /\ StillGiven

\* renameChat, archiveChat, unarchiveChat: the list is fetched again.
UpdateChat(c) ==
    /\ Room /\ c \in store.chats
    /\ ops' = ops \cup {Op("listChats", New, NoJob)}
    /\ UNCHANGED <<jobs, store, sockets, handlers, timers, effect>> /\ StillGiven

\* deleteChat, up to the call ...
DeleteChat(c) ==
    /\ Room /\ c \in store.chats
    /\ ops' = ops \cup {Op("delete", c, NoJob)}
    /\ UNCHANGED <<jobs, store, sockets, handlers, timers, effect>> /\ StillGiven

\* ... which the canister executes for a chat without a generation ...
CanisterDeletes(o) ==
    /\ o \in ops /\ o.kind = "delete" /\ JobsOf(o.key) # {} /\ ActiveJob(o.key) = NoJob
    /\ jobs' = [j \in Jobs |-> IF jobs[j].chat = o.key THEN [jobs[j] EXCEPT !.status = "gone"]
                               ELSE jobs[j]]
    /\ ops' = (ops \ {o}) \cup {[o EXCEPT !.kind = "deleted"]}
    /\ UNCHANGED <<store, sockets, handlers, timers, effect>> /\ StillGiven

\* ... and its reply: the chat is forgotten and the list is fetched; its sockets
\* stay.
DeleteReturns(o) ==
    /\ o \in ops /\ o.kind = "deleted"
    /\ store' = [store EXCEPT
         !.chats = @ \ {o.key}, !.flags[o.key] = {}, !.active[o.key] = NoActive,
         !.messages = [j \in Jobs |-> IF jobs[j].chat = o.key THEN NoMessage ELSE @[j]]]
    /\ ops' = (ops \ {o}) \cup {Op("listChats", New, NoJob)}
    /\ UNCHANGED <<jobs, sockets, handlers, timers, effect>> /\ StillGiven

\* The call is refused, or its reply is lost.
DeleteFails(o) ==
    /\ o \in ops /\ o.kind \in {"delete", "deleted"}
    /\ ops' = ops \ {o}
    /\ UNCHANGED <<jobs, store, sockets, handlers, timers, effect>> /\ StillGiven

ListChats(o) ==
    /\ o \in ops /\ o.kind = "listChats"
    /\ ops' = (ops \ {o}) \cup
         {[o EXCEPT !.kind = "chats",
                    !.chats = {c \in Chats : JobsOf(c) # {}},
                    !.ids = {j \in Jobs : jobs[j].status = "running"}]}
    /\ UNCHANGED <<jobs, store, sockets, handlers, timers, effect>> /\ StillGiven

\* The reply of list_chats: the flags of a chat without an active job fall.
FetchChatsReturns(o) ==
    /\ o \in ops /\ o.kind = "chats"
    /\ LET idle == {c \in o.chats : \A j \in o.ids : jobs[j].chat # c}
       IN  store' = [store EXCEPT !.chats = o.chats,
                       !.flags = [k \in Keys |-> IF k \in idle THEN {} ELSE @[k]]]
    /\ ops' = ops \ {o}
    /\ UNCHANGED <<jobs, sockets, handlers, timers, effect>> /\ StillGiven

-----------------------------------------------------------------------------
UserStep ==
    \/ SendMessage \/ CreateNewChat \/ UrlClears
    \/ \E c \in Chats : EditUserMessage(c) \/ RetryAiMessage(c) \/ SetCurrentChatId(c)
                          \/ UpdateChat(c) \/ DeleteChat(c)

Returns(o) ==
    \/ PickNodeFails(o) \/ CallFails(o) \/ CreateReturns(o) \/ AddReturns(o) \/ EditReturns(o)
    \/ Connects(o) \/ ConnectFails(o) \/ ReconnectReturns(o) \/ ReconnectFails(o)
    \/ GetChat(o) \/ GetChatJobs(o) \/ MergesMessages(o) \/ FetchFails(o) \/ ListChats(o) \/ FetchChatsReturns(o)
    \/ CanisterDeletes(o) \/ DeleteReturns(o) \/ DeleteFails(o)
    \/ \E c \in Chats : CanisterStarts(o, c)
    \/ \E lost, garbled \in {{}, o.ids} : GetMessages(o, lost, garbled)

SocketStep(s) ==
    \/ OnOpen(s) \/ HandshakeSent(s) \/ HandshakeFails(s) \/ OnError(s) \/ OnClose(s) \/ NodeCloses(s)
    \/ \E p \in Finals \cup {Packet(Part, FALSE, FALSE)} : NodeSends(s, p)

HandlerStep(h) == Decrypted(h) \/ DecryptFails(h) \/ FrameFires(h)

Next ==
    \/ turns < MaxTurns /\ UserStep /\ turns' = turns + 1
    \/ /\ \/ \E o \in ops : Returns(o)
          \/ \E s \in Sockets : SocketStep(s)
          \/ \E h \in Handlers : HandlerStep(h)
          \/ \E c \in Chats : ReconnectEffect(c) \/ TimerFires(c)
          \/ \E j \in Jobs, status \in {"done", "failed"} : JobEnds(j, status)
       /\ UNCHANGED turns

Spec == Init /\ [][Next]_vars

-----------------------------------------------------------------------------
\* A socket that has closed is forgotten by webSockets, whose entry would make
\* reconnectToActiveJob return at once; an entry is a socket of that job.
DeadSocketsAreForgotten ==
    \A j \in Jobs : store.webSockets[j] # 0 =>
        /\ sockets[store.webSockets[j]].job = j
        /\ sockets[store.webSockets[j]].state # "closed"

\* A new chat is shown as being asked for only while a call is under way, or
\* after a send that threw before its try.
NewChatIsAskedFor ==
    store.flags[New] # {} =>
        New \in given \/ \E o \in ops : o.kind = "send" /\ o.key = New

\* What a message shows is taken back by nothing but a packet of its stream, the
\* late reply to the call that made it (which puts an empty message where a
\* fetch may already have put the answer), or a fetch that could not decrypt the
\* answer: no other fetch, however old, shortens a message or reopens it, and an
\* error is never taken back.
AnswersAreKept ==
    [][(\A o \in ops \ ops' : o.kind \notin {"send", "edit"}) =>
       \A j \in Jobs : store.messages[j].here /\ store'.messages[j].here =>
         LET m == store.messages[j]
             n == store'.messages[j]
         IN  /\ m.error => n.error
             /\ m.complete /\ handlers' = handlers => n.complete
             /\ handlers' = handlers /\ (\A o \in ops \ ops' : o.seen[j] # Garbled) =>
                  n.content >= m.content]_vars

\* onclose does not report a stream as broken whose last packet, without an
\* error, came before the close: what receivedFinalMessage and the microtask of
\* onclose are for.
FinalIsNoError ==
    [][\A s \in Sockets :
         (sockets[s].state = "closing" /\ sockets'[s].state = "closed"
            /\ sockets[s].sent = Packet(Full, TRUE, FALSE)) =>
           LET j == sockets[s].job
           IN  store'.messages[j].error => store.messages[j].error]_vars
=============================================================================
