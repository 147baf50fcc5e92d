------------------------------ MODULE NodeJobs ------------------------------
(***************************************************************************)
(* One gpt_node process and what it talks to: the sockets over which       *)
(* clients ask it to run a job, the tasks that run the jobs, the streams   *)
(* that carry the answers, and the ways the process stops; with the status *)
(* of its jobs in the user canisters.                                      *)
(*                                                                         *)
(* A handler is cut where it awaits.  claim_job and complete_job are       *)
(* called up to three times until a reply arrives; a job changes at the    *)
(* first call that takes effect and no later one changes it again, so a    *)
(* call with its retries is one step: it takes effect or not, and the node *)
(* learns the result or not.  It takes no effect if it does not arrive, or *)
(* if the canister has dropped the node from its list (module NodeRegistry *)
(* says when the index does); a failed call is not carried out later.  The *)
(* commands of the heartbeat come from there too.  Contents, keys, usage,  *)
(* rate limits and metrics are left out.                                   *)
(***************************************************************************)
EXTENDS Naturals, SequencesExt

CONSTANTS
    Jobs,              \* jobs the user canisters hold for this node
    Sockets,           \* connections, each carrying one request
    Requests,          \* bound: which job a connection may ask for
    None,
    Embeddings,        \* may the node's model be an embedding model
    CONCURRENCY        \* permits of request_semaphore

ASSUME NodeAssumption ==
    /\ CONCURRENCY \in Nat \ {0}
    /\ Embeddings \subseteq BOOLEAN
    /\ Requests \subseteq Sockets \X Jobs
    /\ None \notin Jobs

VARIABLES
    status,      \* job -> its generation_status in the user canister
    unanswered,  \* jobs in progress whose completion was refused or lost
    sockets,     \* socket -> state of handle_socket_connection
    streams,     \* job_streams: job -> channel
    tasks,       \* socket -> the background task its handler spawned
    notices,     \* sockets whose mark_job_as_failed_and_log is under way
    permits,     \* request_semaphore
    process,     \* how far the process has stopped, and its flags
    embedding    \* is_embedding of the node's model

canister == <<status, unanswered>>
work == <<sockets, streams, tasks, notices, permits>>
vars == <<canister, work, process, embedding>>

\* A channel is known by who created it: a connection, or a task when it asked
\* for its sender, or for a second one.
Channels == Sockets \X {"socket", "permit", "embedding"}

NoSocket == [pc |-> "new", job |-> None, creator |-> FALSE, chan |-> None,
             final |-> FALSE]
NoTask == [pc |-> "none", senders |-> <<>>, result |-> "none"]

Init ==
    /\ status = [j \in Jobs |-> "Pending"] /\ unanswered = {}
    /\ sockets = [s \in Sockets |-> NoSocket]
    /\ streams = [j \in Jobs |-> None]
    /\ tasks = [s \in Sockets |-> NoTask] /\ notices = {}
    /\ permits = CONCURRENCY
    /\ process = [phase |-> "serving", draining |-> FALSE, shutdown |-> FALSE,
                  fatal |-> FALSE]
    /\ embedding \in Embeddings

Up == process.phase # "exited"
Job(s) == sockets[s].job

\* The handler of s returns.
Close(s) ==
    sockets' = [sockets EXCEPT ![s] = [NoSocket EXCEPT !.pc = "closed", !.job = Job(s)]]
-----------------------------------------------------------------------------
(***************************************************************************)
(* A job in its user canister.                                             *)
(***************************************************************************)
Live == {"Pending", "InProgress"}

\* time_out_stale_jobs of a user canister.
TimeOut(j) ==
    /\ status[j] \in Live
    /\ status' = [status EXCEPT ![j] = "Failed"]
    /\ unanswered' = unanswered \ {j}
    /\ UNCHANGED <<work, process, embedding>>

Final(result) == IF result = "Failure" THEN "Failed" ELSE "Completed"

\* complete_job; the canister accepts it for a job in progress.
CompleteJob(j, result, reached) ==
    IF reached /\ status[j] = "InProgress"
    THEN /\ status' = [status EXCEPT ![j] = Final(result)]
         /\ unanswered' = unanswered \ {j}
    ELSE /\ status' = status
         /\ unanswered' = IF status[j] = "InProgress" THEN unanswered \cup {j}
                          ELSE unanswered
-----------------------------------------------------------------------------
(***************************************************************************)
(* A connection: handle_socket_connection, handle_conversation_job.        *)
(***************************************************************************)
\* The check of is_draining; a connection accepted just before the server
\* stops may come to it later.
Open(s, j) ==
    /\ Up /\ ~process.draining
    /\ sockets[s] = NoSocket /\ <<s, j>> \in Requests
    /\ sockets' = [sockets EXCEPT ![s].pc = "handshake", ![s].job = j]
    /\ UNCHANGED <<canister, streams, tasks, notices, permits,
                   process, embedding>>

\* The request cannot be read, or the client is gone before it sends one.
HandshakeFails(s) ==
    /\ Up /\ sockets[s].pc = "handshake"
    /\ Close(s)
    /\ UNCHANGED <<canister, streams, tasks, notices, permits,
                   process, embedding>>

\* subscribe_to_job_stream: whoever creates the stream is to remove it if the
\* job cannot be prepared.
Subscribe(s) ==
    /\ Up /\ sockets[s].pc = "handshake"
    /\ LET new == streams[Job(s)] = None
           chan == IF new THEN <<s, "socket">> ELSE streams[Job(s)]
       IN  /\ sockets' = [sockets EXCEPT ![s].pc = "claim", ![s].creator = new,
                                         ![s].chan = chan]
           /\ streams' = [streams EXCEPT ![Job(s)] = chan]
    /\ UNCHANGED <<canister, tasks, notices, permits, process, embedding>>

Waits(s) == Up /\ sockets[s].pc = "claim"

\* claim_job of the node and of the canister.
ClaimJob(s, reached, replied) ==
    /\ Waits(s)
    /\ LET claims == reached /\ status[Job(s)] = "Pending"
       IN  /\ status' = IF claims THEN [status EXCEPT ![Job(s)] = "InProgress"]
                        ELSE status
           /\ sockets' = [sockets EXCEPT ![s].pc =
                            IF claims /\ replied THEN "claimed" ELSE "refused"]
    /\ UNCHANGED <<unanswered, streams, tasks, notices, permits,
                   process, embedding>>

\* Mutant of PreparationFails: a failure after the claim is not reported.
PreparationFailsQuietly(s) ==
    /\ Up /\ sockets[s].pc \in {"refused", "claimed"}
    /\ notices' = IF sockets[s].pc = "refused" THEN notices \cup {s} ELSE notices
    /\ sockets' = [sockets EXCEPT ![s].pc = "failing"]
    /\ UNCHANGED <<canister, streams, tasks, permits, process, embedding>>

\* The claim failed, or decrypting the key or fetching the history does: every
\* error of prepare_for_ai_processing spawns a report to the canister.  (A
\* canister id that cannot be parsed names no job and is left out.)
PreparationFails(s) ==
    /\ Up /\ sockets[s].pc \in {"refused", "claimed"}
    /\ notices' = notices \cup {s}
    /\ sockets' = [sockets EXCEPT ![s].pc = "failing"]
    /\ UNCHANGED <<canister, streams, tasks, permits, process, embedding>>

\* Mutant of GiveUp: the stream is left behind.
GiveUpKeepingStream(s) ==
    /\ Up /\ sockets[s].pc = "failing"
    /\ Close(s)
    /\ UNCHANGED <<canister, streams, tasks, notices, permits, process, embedding>>

\* The handler closes the socket and removes the stream if it created one,
\* be it still that one or not.
GiveUp(s) ==
    /\ Up /\ sockets[s].pc = "failing"
    /\ Close(s)
    /\ streams' = IF sockets[s].creator THEN [streams EXCEPT ![Job(s)] = None]
                  ELSE streams
    /\ UNCHANGED <<canister, tasks, notices, permits, process, embedding>>

\* The history is fetched and decrypted; the task goes its own way.
Prepared(s) ==
    /\ Up /\ sockets[s].pc = "claimed"
    /\ sockets' = [sockets EXCEPT ![s].pc = "forward"]
    /\ tasks' = [tasks EXCEPT ![s].pc = "queued"]
    /\ UNCHANGED <<canister, streams, notices, permits, process, embedding>>

\* mark_job_as_failed_and_log.
ReportFailure(s, reached) ==
    /\ Up /\ s \in notices
    /\ notices' = notices \ {s}
    /\ CompleteJob(Job(s), "Failure", reached)
    /\ UNCHANGED <<sockets, streams, tasks, permits, process, embedding>>

\* A broadcast channel is closed when the map and the tasks have dropped it.
Closed(chan) ==
    /\ \A j \in Jobs : streams[j] # chan
    /\ \A s \in Sockets : chan \notin Range(tasks[s].senders)

\* Mutant of StreamEnds: the handler waits for a final message only.
StreamEndsOnFinal(s) == sockets[s].final

StreamEnds(s) == sockets[s].final \/ Closed(sockets[s].chan)

\* forward_stream_to_socket: the final message or the end of the channel.
ForwardEnds(s) ==
    /\ Up /\ sockets[s].pc = "forward"
    /\ StreamEnds(s)
    /\ Close(s)
    /\ UNCHANGED <<canister, streams, tasks, notices, permits,
                   process, embedding>>

\* The client leaves, cannot be reached or lags too far behind: the job goes on.
Disconnect(s) ==
    /\ Up /\ sockets[s].pc = "forward"
    /\ Close(s)
    /\ UNCHANGED <<canister, streams, tasks, notices, permits,
                   process, embedding>>
-----------------------------------------------------------------------------
(***************************************************************************)
(* A task: spawn_ai_processing_task, process_request.                      *)
(***************************************************************************)
Acquire(s) ==
    /\ Up /\ tasks[s].pc = "queued" /\ permits > 0
    /\ permits' = permits - 1
    /\ tasks' = [tasks EXCEPT ![s].pc = "permit"]
    /\ UNCHANGED <<canister, sockets, streams, notices, process, embedding>>

\* get_broadcast_sender: the stream may have been removed meanwhile.
Sender(s, pc, next) ==
    /\ Up /\ tasks[s].pc = pc
    /\ LET chan == IF streams[Job(s)] = None THEN <<s, pc>> ELSE streams[Job(s)]
       IN  /\ streams' = [streams EXCEPT ![Job(s)] = chan]
           /\ tasks' = [tasks EXCEPT ![s].pc = next,
                                     ![s].senders = Append(@, chan)]
    /\ UNCHANGED <<canister, sockets, notices, permits, process, embedding>>

GetBroadcastSender(s) == Sender(s, "permit", "details")

\* The details of the model have come; an embedding task queues for a permit
\* of its own and keeps the first.
Dispatch(s) ==
    /\ Up /\ tasks[s].pc = "details"
    /\ tasks' = [tasks EXCEPT ![s].pc = IF embedding THEN "second" ELSE "stream"]
    /\ UNCHANGED <<canister, sockets, streams, notices, permits,
                   process, embedding>>

AcquireSecond(s) ==
    /\ Up /\ tasks[s].pc = "second" /\ permits > 0
    /\ permits' = permits - 1
    /\ tasks' = [tasks EXCEPT ![s].pc = "embedding"]
    /\ UNCHANGED <<canister, sockets, streams, notices, process, embedding>>

\* The embedding handler gets a sender of its own, too.
GetSecondSender(s) == Sender(s, "embedding", "embed")

Held(s) == IF tasks[s].pc = "embed" THEN 2 ELSE 1

\* process_request returns: the permits and the senders are dropped; `final'
\* says whether it broadcast a last message, `terminal' whether the error is
\* one the node stops for.
Ends(s, result, final, terminal) ==
    /\ permits' = permits + Held(s)
    /\ sockets' = [t \in Sockets |->
          IF final /\ sockets[t].chan = Last(tasks[s].senders)
          THEN [sockets[t] EXCEPT !.final = TRUE] ELSE sockets[t]]
    /\ tasks' = [tasks EXCEPT ![s] = [pc |-> "complete", senders |-> <<>>,
                                      result |-> result]]
    /\ process' = [process EXCEPT !.fatal = @ \/ terminal]

At(s, pc) == Up /\ tasks[s].pc = pc

\* get_model_details fails: no message, and a Configuration error is terminal.
NoModelDetails(s) ==
    /\ At(s, "details")
    /\ Ends(s, "Failure", FALSE, TRUE)
    /\ UNCHANGED <<canister, streams, notices, embedding>>

\* build_request finds the job wanting: its tool definitions cannot be read,
\* the details are asked for again and do not come (both terminal), or a part
\* of the request cannot be built.
BuildRequestFails(s, terminal) ==
    /\ At(s, "details") /\ ~embedding
    /\ Ends(s, "Failure", TRUE, terminal)
    /\ UNCHANGED <<canister, streams, notices, embedding>>

\* process_stream: a text or a call of tools, or a stream that breaks; with a
\* last message in each case.  A text may fail to be encrypted for the canister.
StreamEndsWith(s, result, terminal) ==
    /\ At(s, "stream")
    /\ terminal => result = "Failure"
    /\ Ends(s, result, TRUE, terminal)
    /\ UNCHANGED <<canister, streams, notices, embedding>>

\* initialize_stream_with_retry gives up: no message.
NoStream(s, terminal) ==
    /\ At(s, "stream")
    /\ Ends(s, "Failure", FALSE, terminal)
    /\ UNCHANGED <<canister, streams, notices, embedding>>

\* process_embedding_request: an embedding and a message, which may fail to be
\* encrypted for the canister; or nothing to embed, or no embedding, and no
\* message.
EmbeddingEndsWith(s, result, final, terminal) ==
    /\ At(s, "embed")
    /\ result = "Success" => final
    /\ terminal => ~final
    /\ Ends(s, result, final, terminal)
    /\ UNCHANGED <<canister, streams, notices, embedding>>

Complete(s, reached) ==
    /\ Up /\ tasks[s].pc = "complete"
    /\ CompleteJob(Job(s), tasks[s].result, reached)
    /\ tasks' = [tasks EXCEPT ![s] = [NoTask EXCEPT !.pc = "cleanup"]]
    /\ UNCHANGED <<sockets, streams, notices, permits, process, embedding>>

CleanUp(s) ==
    /\ Up /\ tasks[s].pc = "cleanup"
    /\ streams' = [streams EXCEPT ![Job(s)] = None]
    /\ tasks' = [tasks EXCEPT ![s] = NoTask]
    /\ UNCHANGED <<canister, sockets, notices, permits, process, embedding>>
-----------------------------------------------------------------------------
(***************************************************************************)
(* The process: heartbeat, signals, drain and shutdown.                    *)
(***************************************************************************)
\* Everything in the process ends with it.
Exit ==
    /\ process' = [process EXCEPT !.phase = "exited"]
    /\ sockets' = [s \in Sockets |-> NoSocket]
    /\ tasks' = [s \in Sockets |-> NoTask]
    /\ streams' = [j \in Jobs |-> None]
    /\ notices' = {} /\ permits' = CONCURRENCY

\* A heartbeat is answered DrainAndShutdown.
DrainAndShutdown ==
    /\ Up /\ ~process.shutdown
    /\ process' = [process EXCEPT !.draining = TRUE, !.shutdown = TRUE]
    /\ UNCHANGED <<canister, work, embedding>>

\* A heartbeat is answered Abort.
Abort ==
    /\ Up /\ ~process.shutdown
    /\ Exit
    /\ UNCHANGED <<canister, embedding>>

\* SIGTERM or Ctrl+C; an index that knows no session; 65 s without an answer.
Stop ==
    /\ Up /\ ~process.shutdown
    /\ process' = [process EXCEPT !.shutdown = TRUE]
    /\ UNCHANGED <<canister, work, embedding>>

\* Mutant of StopServing: the server waits for its sockets to be closed.
StopServingWhenIdle ==
    /\ process.phase = "serving" /\ process.shutdown
    /\ \A s \in Sockets : sockets[s].pc \in {"new", "closed"}
    /\ process' = [process EXCEPT !.phase = "waiting"]
    /\ UNCHANGED <<canister, work, embedding>>

\* The server accepts no more connections; sockets it has are not its concern.
StopServing ==
    /\ process.phase = "serving" /\ process.shutdown
    /\ process' = [process EXCEPT !.phase = "waiting"]
    /\ UNCHANGED <<canister, work, embedding>>

\* wait_for_jobs_completion sees no stream or has waited for 120 s, so it may
\* end in any state; unregister_node, which may fail; the end.
WaitAndExit ==
    /\ process.phase = "waiting"
    /\ Exit
    /\ UNCHANGED <<canister, embedding>>

\* initiate_fatal_shutdown, a second after the error.
FatalShutdown ==
    /\ Up /\ process.fatal /\ ~process.draining
    /\ process' = [process EXCEPT !.draining = TRUE]
    /\ UNCHANGED <<canister, work, embedding>>

\* At most ten seconds for unregister_node, then the end.
FatalExit ==
    /\ Up /\ process.fatal /\ process.draining
    /\ Exit
    /\ UNCHANGED <<canister, embedding>>
-----------------------------------------------------------------------------
SocketStep(s) ==
    \/ \E j \in Jobs : Open(s, j)
    \/ HandshakeFails(s) \/ Subscribe(s)
    \/ \E reached, replied \in BOOLEAN : ClaimJob(s, reached, replied)
    \/ PreparationFails(s) \/ GiveUp(s) \/ Prepared(s)
    \/ \E reached \in BOOLEAN : ReportFailure(s, reached)
    \/ ForwardEnds(s) \/ Disconnect(s)

Results == {"Success", "Failure"}

Asks(s) ==
    \/ NoModelDetails(s)
    \/ \E terminal \in BOOLEAN : BuildRequestFails(s, terminal) \/ NoStream(s, terminal)
    \/ \E result \in Results, terminal \in BOOLEAN : StreamEndsWith(s, result, terminal)
    \/ \E result \in Results, final, terminal \in BOOLEAN :
          EmbeddingEndsWith(s, result, final, terminal)

TaskStep(s) ==
    \/ Acquire(s) \/ GetBroadcastSender(s) \/ Dispatch(s) \/ AcquireSecond(s)
    \/ GetSecondSender(s) \/ Asks(s)
    \/ \E reached \in BOOLEAN : Complete(s, reached)
    \/ CleanUp(s)

ProcessStep ==
    \/ Stop \/ DrainAndShutdown \/ Abort
    \/ StopServing \/ WaitAndExit
    \/ FatalShutdown \/ FatalExit

Next ==
    \/ ProcessStep
    \/ \E j \in Jobs : TimeOut(j)
    \/ \E s \in Sockets : SocketStep(s) \/ TaskStep(s)

Spec == Init /\ [][Next]_vars

\* What the handler of s does without the client: all but reading the request
\* and noticing that the client is gone.
Handles(s) ==
    \/ \E reached, replied \in BOOLEAN : ClaimJob(s, reached, replied)
    \/ PreparationFails(s) \/ GiveUp(s) \/ Prepared(s) \/ ForwardEnds(s)

(***************************************************************************)
(* The runtime goes on with every handler and task, calls to canisters and *)
(* to the provider return, and the semaphore serves its queue in order (so *)
(* a task that can have a permit again and again gets one).  Nothing is    *)
(* assumed of clients or of the timers of the canisters.                   *)
(***************************************************************************)
Fairness ==
    /\ \A s \in Sockets : WF_vars(Handles(s)) /\ SF_vars(TaskStep(s))
    /\ WF_vars(StopServing) /\ WF_vars(WaitAndExit)

FairSpec == Spec /\ Fairness
-----------------------------------------------------------------------------
(***************************************************************************)
(* Properties.                                                             *)
(***************************************************************************)
\* Every variable has its type, and no permit is lost or made.
TypeOK ==
    /\ status \in [Jobs -> Live \cup {"Completed", "Failed"}]
    /\ unanswered \subseteq Jobs
    /\ sockets \in [Sockets ->
          [pc : {"new", "handshake", "claim", "refused", "claimed", "failing",
                "forward", "closed"},
           job : Jobs \cup {None}, creator : BOOLEAN, chan : Channels \cup {None},
           final : BOOLEAN]]
    /\ streams \in [Jobs -> Channels \cup {None}]
    /\ tasks \in [Sockets ->
          [pc : {"none", "queued", "permit", "details", "second", "embedding",
                 "embed", "stream", "complete", "cleanup"},
           senders : BoundedSeq(Channels, 2),
           result : {"none", "Success", "Failure"}]]
    /\ notices \subseteq Sockets
    /\ permits \in 0 .. CONCURRENCY
    /\ process \in [phase : {"serving", "waiting", "exited"},
                    draining : BOOLEAN, shutdown : BOOLEAN,
                    fatal : BOOLEAN]
    /\ embedding \in BOOLEAN

\* Does the task of s still have its answer to give.
Busy(s) == tasks[s].pc \notin {"none", "cleanup"}

\* However many connections ask for a job, one task at most generates for it:
\* the canister's claim_job decides, not the map of streams.
OneTaskPerJob ==
    \A s, t \in Sockets : Busy(s) /\ Busy(t) /\ Job(s) = Job(t) => s = t

\* A job the node has claimed is never forgotten while the process lives: a
\* handler or a task will complete it, a report of its failure is under way,
\* or the canister could not be made to take either.  Each error path of
\* prepare_for_ai_processing and of the task is on the hook for this, also when
\* the claim was carried out and only its answer lost.
ClaimsAreAnswered ==
    \A j \in Jobs : Up /\ status[j] = "InProgress" =>
        \/ j \in unanswered
        \/ \E s \in Sockets : Job(s) = j /\
              (Busy(s) \/ s \in notices \/ sockets[s].pc \in {"claimed", "refused"})

\* Every entry of job_streams has somebody who will remove it, so that
\* wait_for_jobs_completion does not wait for a stream that nobody serves:
\* the creator until it has handed over to its task, or a task of the job.
StreamsAreOwned ==
    \A j \in Jobs : streams[j] # None =>
        \E s \in Sockets : Job(s) = j /\
            (\/ tasks[s].pc # "none"
             \/ sockets[s].creator
                /\ sockets[s].pc \in {"claim", "claimed", "refused", "failing"})

\* A request that has been read is dealt with: the socket closes and the task
\* ends, although streams are removed and recreated under them and tasks
\* queue for permits.
WorkEnds ==
    \A s \in Sockets :
        (\/ sockets[s].pc \in {"claim", "claimed", "refused", "failing", "forward"}
         \/ tasks[s].pc # "none")
            ~> (sockets[s].pc \in {"new", "closed"} /\ tasks[s].pc = "none")

\* A process that is told to stop exits, whatever its streams do.
ShutdownEnds == process.shutdown ~> ~Up

\* The node's tasks, permits and streams agree: a job has one task that holds one
\* permit, and a stream belongs to the task that opened it.
TasksAreSound == TypeOK /\ OneTaskPerJob /\ StreamsAreOwned
=============================================================================
