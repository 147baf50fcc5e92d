--------------------------- MODULE NodeJobsProofs ---------------------------
(***************************************************************************)
(* Proofs about NodeJobs, for any jobs, any sockets and requests, and any  *)
(* number of permits.                                                      *)
(***************************************************************************)
EXTENDS NodeJobs, FiniteSetTheorems, TLAPS

(***************************************************************************)
(* Types.  A request that has been read names a job, a task has a handler  *)
(* that has handed over to it, and the senders a task holds are those it   *)
(* has asked for so far.                                                   *)
(***************************************************************************)
SocketStates ==
    [pc : {"new", "handshake", "claim", "refused", "claimed", "failing",
           "forward", "closed"},
     job : Jobs \cup {None}, creator : BOOLEAN, chan : Channels \cup {None},
     final : BOOLEAN]
TaskStates ==
    [pc : {"none", "queued", "permit", "details", "second", "embedding",
           "embed", "stream", "complete", "cleanup"},
     senders : Seq(Channels), result : {"none", "Success", "Failure"}]
ProcessStates ==
    [phase : {"serving", "waiting", "exited"},
     draining : BOOLEAN, shutdown : BOOLEAN, fatal : BOOLEAN]

SendersOK(k) ==
    /\ k.pc \in {"none", "queued", "permit", "complete", "cleanup"} => k.senders = <<>>
    /\ k.pc \in {"details", "second", "embedding", "stream"} => Len(k.senders) = 1
    /\ k.pc = "embed" => Len(k.senders) = 2

\* What the canisters hold of the jobs.
CanisterOK ==
    status \in [Jobs -> Live \cup {"Completed", "Failed"}] /\ unanswered \subseteq Jobs

WorkOK ==
    /\ sockets \in [Sockets -> SocketStates]
    /\ streams \in [Jobs -> Channels \cup {None}]
    /\ tasks \in [Sockets -> TaskStates]
    /\ notices \subseteq Sockets
    /\ \A s \in Sockets : sockets[s].pc # "new" => Job(s) \in Jobs
    /\ \A s \in Sockets : SendersOK(tasks[s])
    /\ \A s \in Sockets : tasks[s].pc # "none" => sockets[s].pc \in {"forward", "closed"}
    /\ \A s \in notices : sockets[s].pc # "new"

Typed == CanisterOK /\ WorkOK /\ process \in ProcessStates /\ embedding \in BOOLEAN

\* An idle socket and an idle task.
LEMMA NothingOK ==
    /\ NoSocket \in SocketStates /\ NoSocket.pc = "new" /\ NoSocket.job = None
    /\ NoTask \in TaskStates /\ NoTask.pc = "none" /\ NoTask.senders = <<>>
BY DEF NoSocket, NoTask, SocketStates, TaskStates

\* Nothing has been asked for at first.
LEMMA TypedInit == Init => Typed
<1> SUFFICES ASSUME Init PROVE Typed
  OBVIOUS
<1>1. CanisterOK
  BY DEF Init, CanisterOK, Live
<1>2. WorkOK
  BY NothingOK DEF Init, WorkOK, SendersOK
<1>3. process \in ProcessStates /\ embedding \in BOOLEAN
  BY NodeAssumption DEF Init, ProcessStates
<1> QED BY <1>1, <1>2, <1>3 DEF Typed

\* A handler comes to state x.
LEMMA SocketMoves ==
    ASSUME WorkOK, NEW s \in Sockets, NEW x \in SocketStates,
           sockets' = [sockets EXCEPT ![s] = x], x.pc # "new", x.job \in Jobs,
           tasks' = tasks, streams' \in [Jobs -> Channels \cup {None}],
           notices' = notices \/ notices' = notices \cup {s},
           tasks[s].pc # "none" => x.pc \in {"forward", "closed"}
    PROVE  WorkOK'
<1>1. /\ sockets' \in [Sockets -> SocketStates] /\ sockets'[s] = x
      /\ \A t \in Sockets : t # s => sockets'[t] = sockets[t]
  BY DEF WorkOK
<1> QED BY <1>1 DEF WorkOK, Job

\* A task comes to state k.
LEMMA TaskMoves ==
    ASSUME WorkOK, NEW s \in Sockets, NEW k \in TaskStates,
           tasks' = [tasks EXCEPT ![s] = k], SendersOK(k),
           sockets' = sockets, sockets[s].pc \in {"forward", "closed"},
           notices' = notices, streams' \in [Jobs -> Channels \cup {None}]
    PROVE  WorkOK'
<1>1. /\ tasks' \in [Sockets -> TaskStates] /\ tasks'[s] = k
      /\ \A t \in Sockets : t # s => tasks'[t] = tasks[t]
  BY DEF WorkOK
<1> QED BY <1>1 DEF WorkOK, Job

\* The state a handler leaves behind.
LEMMA CloseFacts ==
    ASSUME WorkOK, NEW s \in Sockets, Close(s), sockets[s].pc # "new"
    PROVE  \E x \in SocketStates :
              /\ sockets' = [sockets EXCEPT ![s] = x] /\ x.pc = "closed"
              /\ x.job = Job(s) /\ Job(s) \in Jobs
<1> DEFINE j == Job(s)
           x == [NoSocket EXCEPT !.pc = "closed", !.job = j]
<1>1. j \in Jobs
  BY DEF WorkOK
<1>2. sockets' = [sockets EXCEPT ![s] = x]
  BY DEF Close
<1> HIDE DEF j
<1>3. x \in SocketStates /\ x.pc = "closed" /\ x.job = j
  BY <1>1, NothingOK DEF SocketStates
<1> QED BY <1>1, <1>2, <1>3 DEF j

\* complete_job keeps the canisters' records well-formed.
LEMMA CompleteTyped ==
    ASSUME CanisterOK, NEW j \in Jobs, NEW r, NEW reached, CompleteJob(j, r, reached)
    PROVE  CanisterOK'
<1>1. Final(r) \in {"Completed", "Failed"}
  BY DEF Final
<1> QED BY <1>1 DEF CompleteJob, CanisterOK

-----------------------------------------------------------------------------
(***************************************************************************)
(* What the actions of a handler do to its state.                          *)
(***************************************************************************)
LEMMA OpenFacts ==
    ASSUME WorkOK, NEW s \in Sockets, NEW j \in Jobs, Open(s, j)
    PROVE  \E x \in SocketStates :
              /\ sockets' = [sockets EXCEPT ![s] = x]
              /\ x.pc = "handshake" /\ x.job = j
<1> DEFINE k == sockets[s]
           x == [[k EXCEPT !.pc = "handshake"] EXCEPT !.job = j]
<1>1. k \in SocketStates
  BY DEF WorkOK
<1>2. sockets' = [sockets EXCEPT ![s] = x]
  BY DEF Open, WorkOK
<1> HIDE DEF k
<1>3. x \in SocketStates /\ x.pc = "handshake" /\ x.job = j
  BY <1>1 DEF SocketStates
<1> QED BY <1>2, <1>3

\* subscribe_to_job_stream creates the channel of the job if there is none.
LEMMA SubscribeFacts ==
    ASSUME WorkOK, NEW s \in Sockets, Subscribe(s)
    PROVE  \E x \in SocketStates, c \in Channels \cup {None} :
              /\ sockets' = [sockets EXCEPT ![s] = x]
              /\ x.pc = "claim" /\ x.job = Job(s) /\ Job(s) \in Jobs
              /\ x.creator = (streams[Job(s)] = None)
              /\ streams' = [streams EXCEPT ![Job(s)] = c]
              /\ streams[Job(s)] # None => c = streams[Job(s)]
<1> DEFINE k == sockets[s]
           new == streams[Job(s)] = None
           chan == IF new THEN <<s, "socket">> ELSE streams[Job(s)]
           x == [[[k EXCEPT !.pc = "claim"] EXCEPT !.creator = new] EXCEPT !.chan = chan]
<1>1. k \in SocketStates /\ Job(s) \in Jobs /\ k.job = Job(s)
  BY DEF WorkOK, Subscribe, Job
<1>2. chan \in Channels \cup {None} /\ new \in BOOLEAN
  BY <1>1 DEF WorkOK, Channels
<1>3. sockets' = [sockets EXCEPT ![s] = x] /\ streams' = [streams EXCEPT ![Job(s)] = chan]
  BY DEF Subscribe, WorkOK
<1>4. streams[Job(s)] # None => chan = streams[Job(s)]
  OBVIOUS
<1> HIDE DEF k, new, chan
<1>5. x \in SocketStates /\ x.pc = "claim" /\ x.job = Job(s) /\ x.creator = new
  BY <1>1, <1>2 DEF SocketStates
<1> QED BY <1>1, <1>2, <1>3, <1>4, <1>5 DEF new

\* The steps that only move a handler on.
LEMMA MoveFacts ==
    ASSUME WorkOK, NEW s \in Sockets, sockets[s].pc # "new",
           NEW pc \in {"claimed", "refused", "failing", "forward"},
           sockets' = [sockets EXCEPT ![s].pc = pc]
    PROVE  \E x \in SocketStates :
              /\ sockets' = [sockets EXCEPT ![s] = x] /\ x.pc = pc
              /\ x.job = Job(s) /\ Job(s) \in Jobs /\ x.creator = sockets[s].creator
<1> DEFINE k == sockets[s]
           x == [k EXCEPT !.pc = pc]
<1>1. k \in SocketStates /\ Job(s) \in Jobs /\ k.job = Job(s)
  BY DEF WorkOK, Job
<1>2. sockets' = [sockets EXCEPT ![s] = x]
  BY DEF WorkOK
<1> HIDE DEF k
<1>3. x \in SocketStates /\ x.pc = pc /\ x.job = Job(s) /\ x.creator = k.creator
  BY <1>1 DEF SocketStates
<1> QED BY <1>1, <1>2, <1>3 DEF k

-----------------------------------------------------------------------------
(***************************************************************************)
(* The inductive invariant.  A job has at most one claim: a handler that   *)
(* was told so or the task it spawned, and the job is not Pending then.    *)
(***************************************************************************)
Claimer(s) == sockets[s].pc = "claimed" \/ Busy(s)

ClaimsOnce ==
    /\ \A s \in Sockets : Claimer(s) => status[Job(s)] # "Pending"
    /\ \A s, t \in Sockets : Claimer(s) /\ Claimer(t) /\ Job(s) = Job(t) => s = t

Accounts == ClaimsOnce /\ StreamsAreOwned /\ ClaimsAreAnswered

\* The states in which a task holds a permit, and a second one.
Holders == {s \in Sockets : tasks[s].pc \in {"permit", "details", "second", "embedding",
                                             "embed", "stream"}}
TwiceHolders == {s \in Sockets : tasks[s].pc \in {"embedding", "embed"}}

PermitsHeld ==
    /\ IsFiniteSet(Holders) /\ IsFiniteSet(TwiceHolders) /\ permits \in Nat
    /\ permits + Cardinality(Holders) + Cardinality(TwiceHolders) = CONCURRENCY

Sound == Typed /\ Accounts /\ PermitsHeld

\* A step that leaves the tasks' states and the permits alone keeps the count.
LEMMA PermitsSame ==
    ASSUME PermitsHeld, permits' = permits,
           \A s \in Sockets : \/ tasks'[s].pc = tasks[s].pc
                              \/ /\ tasks[s].pc \in {"none", "complete", "cleanup"}
                                 /\ tasks'[s].pc \in {"none", "queued", "cleanup"}
    PROVE  PermitsHeld'
<1>1. Holders' = Holders /\ TwiceHolders' = TwiceHolders
  BY DEF Holders, TwiceHolders
<1> QED BY <1>1 DEF PermitsHeld

\* A connection is accepted.
LEMMA SoundOpen ==
    ASSUME Sound, NEW s \in Sockets, NEW j \in Jobs, Open(s, j)
    PROVE  Sound'
<1>1. WorkOK
  BY DEF Sound, Typed
<1>2. PICK x \in SocketStates : /\ sockets' = [sockets EXCEPT ![s] = x]
                                /\ x.pc = "handshake" /\ x.job = j
  BY <1>1, OpenFacts
<1>3. /\ UNCHANGED <<status, unanswered, streams, tasks, notices, permits, process, embedding>>
      /\ sockets[s] = NoSocket
  BY DEF Open, canister
<1>4. sockets[s].pc = "new" /\ Job(s) = None /\ tasks[s].pc = "none" /\ s \notin notices
  BY <1>1, <1>3, NothingOK DEF WorkOK, Job
<1>5. WorkOK'
  BY <1>1, <1>2, <1>3, <1>4, SocketMoves DEF WorkOK
<1>6. Typed' /\ PermitsHeld'
  BY <1>3, <1>5, PermitsSame DEF Sound, Typed, CanisterOK
<1>7. /\ sockets'[s] = x /\ \A t \in Sockets : t # s => sockets'[t] = sockets[t]
  BY <1>1, <1>2 DEF WorkOK
<1>8. ClaimsOnce' /\ StreamsAreOwned'
  BY <1>2, <1>3, <1>4, <1>7, NodeAssumption
     DEF Sound, Accounts, ClaimsOnce, StreamsAreOwned, Claimer, Busy, Job
<1>9. ClaimsAreAnswered'
  BY <1>2, <1>3, <1>4, <1>7, NodeAssumption
     DEF Sound, Accounts, ClaimsAreAnswered, Busy, Job, Up
<1> QED BY <1>6, <1>8, <1>9 DEF Sound, Accounts

\* A handler returns: it has nothing to answer, or a task of its own to do so.
LEMMA SoundClose ==
    ASSUME Sound, NEW s \in Sockets, Close(s),
           sockets[s].pc \in {"handshake", "failing", "forward"},
           UNCHANGED <<canister, tasks, notices, permits, process, embedding>>,
           \/ streams' = streams
              /\ (sockets[s].pc = "failing" => ~sockets[s].creator)
           \/ streams' = [streams EXCEPT ![Job(s)] = None]
    PROVE  Sound'
<1>1. WorkOK
  BY DEF Sound, Typed
<1>2. PICK x \in SocketStates :
         /\ sockets' = [sockets EXCEPT ![s] = x] /\ x.pc = "closed"
         /\ x.job = Job(s) /\ Job(s) \in Jobs
  BY <1>1, CloseFacts
<1>3. streams' \in [Jobs -> Channels \cup {None}]
  BY <1>1 DEF WorkOK
<1>5. UNCHANGED <<status, unanswered, tasks, notices, permits, process, embedding>>
  BY DEF canister
<1>4. WorkOK'
  <2>1. /\ sockets' = [sockets EXCEPT ![s] = x] /\ x.pc # "new" /\ x.job \in Jobs
        /\ tasks' = tasks /\ notices' = notices
        /\ tasks[s].pc # "none" => x.pc \in {"forward", "closed"}
    BY <1>2, <1>5
  <2> QED BY <1>1, <1>3, <2>1, SocketMoves
<1>6. Typed' /\ PermitsHeld'
  BY <1>4, <1>5, PermitsSame DEF Sound, Typed, CanisterOK
<1>7. /\ sockets'[s] = x /\ \A t \in Sockets : t # s => sockets'[t] = sockets[t]
  BY <1>1, <1>2 DEF WorkOK
<1>8. \A t \in Sockets : Job(t)' = Job(t)
  BY <1>2, <1>7 DEF Job
<1>9. ClaimsOnce'
  BY <1>2, <1>5, <1>7, <1>8 DEF Sound, Accounts, ClaimsOnce, Claimer, Busy
<1>10. \A j \in Jobs : streams'[j] # None => streams'[j] = streams[j]
  BY <1>1 DEF WorkOK
<1>11. StreamsAreOwned'
  <2> SUFFICES ASSUME NEW j \in Jobs, streams'[j] # None
               PROVE  \E t \in Sockets : Job(t)' = j /\
                        (\/ tasks'[t].pc # "none"
                         \/ sockets'[t].creator
                            /\ sockets'[t].pc \in {"claim", "claimed", "refused", "failing"})
    BY DEF StreamsAreOwned
  <2>1. PICK t \in Sockets : Job(t) = j /\
                        (\/ tasks[t].pc # "none"
                         \/ sockets[t].creator
                            /\ sockets[t].pc \in {"claim", "claimed", "refused", "failing"})
    BY <1>10 DEF Sound, Accounts, StreamsAreOwned
  <2>2. CASE t # s
    BY <1>5, <1>7, <1>8, <2>1, <2>2
  <2>3. CASE t = s
    <3>1. ~(sockets[s].pc = "failing" /\ sockets[s].creator)
      BY <1>1, <2>1, <2>3 DEF WorkOK
    <3>2. tasks[s].pc # "none"
      BY <2>1, <2>3, <3>1
    <3> QED BY <1>5, <1>8, <2>1, <2>3, <3>2
  <2> QED BY <2>2, <2>3
<1>12. ClaimsAreAnswered'
  BY <1>2, <1>5, <1>7, <1>8 DEF Sound, Accounts, ClaimsAreAnswered, Busy, Up
<1> QED BY <1>6, <1>9, <1>11, <1>12 DEF Sound, Accounts

\* A handler subscribes to the stream of its job.
LEMMA SoundSubscribe ==
    ASSUME Sound, NEW s \in Sockets, Subscribe(s)
    PROVE  Sound'
<1>1. WorkOK
  BY DEF Sound, Typed
<1>2. PICK x \in SocketStates, c \in Channels \cup {None} :
         /\ sockets' = [sockets EXCEPT ![s] = x]
         /\ x.pc = "claim" /\ x.job = Job(s) /\ Job(s) \in Jobs
         /\ x.creator = (streams[Job(s)] = None)
         /\ streams' = [streams EXCEPT ![Job(s)] = c]
         /\ streams[Job(s)] # None => c = streams[Job(s)]
  BY <1>1, SubscribeFacts
<1>3. /\ UNCHANGED <<status, unanswered, tasks, notices, permits, process, embedding>>
      /\ sockets[s].pc = "handshake"
  BY DEF Subscribe, canister
<1>4. streams' \in [Jobs -> Channels \cup {None}] /\ tasks[s].pc = "none"
  BY <1>1, <1>2, <1>3 DEF WorkOK
<1>5. WorkOK'
  <2>1. /\ sockets' = [sockets EXCEPT ![s] = x] /\ x.pc # "new" /\ x.job \in Jobs
        /\ tasks' = tasks /\ notices' = notices
        /\ tasks[s].pc # "none" => x.pc \in {"forward", "closed"}
    BY <1>2, <1>3, <1>4
  <2> QED BY <1>1, <1>4, <2>1, SocketMoves
<1>6. Typed' /\ PermitsHeld'
  BY <1>3, <1>5, PermitsSame DEF Sound, Typed, CanisterOK
<1>7. /\ sockets'[s] = x /\ \A t \in Sockets : t # s => sockets'[t] = sockets[t]
  BY <1>1, <1>2 DEF WorkOK
<1>8. \A t \in Sockets : Job(t)' = Job(t)
  BY <1>2, <1>7 DEF Job
<1>9. ClaimsOnce'
  BY <1>2, <1>3, <1>7, <1>8 DEF Sound, Accounts, ClaimsOnce, Claimer, Busy
<1>10. StreamsAreOwned'
  <2> SUFFICES ASSUME NEW j \in Jobs, streams'[j] # None
               PROVE  \E t \in Sockets : Job(t)' = j /\
                        (\/ tasks'[t].pc # "none"
                         \/ sockets'[t].creator
                            /\ sockets'[t].pc \in {"claim", "claimed", "refused", "failing"})
    BY DEF StreamsAreOwned
  <2>1. CASE j = Job(s) /\ streams[j] = None
    BY <1>2, <1>7, <1>8, <2>1
  <2>2. CASE ~(j = Job(s) /\ streams[j] = None)
    <3>1. streams'[j] = streams[j]
      BY <1>1, <1>2, <2>2 DEF WorkOK
    <3>2. PICK t \in Sockets : Job(t) = j /\
                        (\/ tasks[t].pc # "none"
                         \/ sockets[t].creator
                            /\ sockets[t].pc \in {"claim", "claimed", "refused", "failing"})
      BY <3>1 DEF Sound, Accounts, StreamsAreOwned
    <3> QED BY <1>3, <1>4, <1>7, <1>8, <3>2
  <2> QED BY <2>1, <2>2
<1>11. ClaimsAreAnswered'
  BY <1>2, <1>3, <1>7, <1>8 DEF Sound, Accounts, ClaimsAreAnswered, Busy, Up
<1> QED BY <1>6, <1>9, <1>10, <1>11 DEF Sound, Accounts

\* claim_job: the canister accepts it from the first who asks.
LEMMA SoundClaim ==
    ASSUME Sound, NEW s \in Sockets, NEW reached \in BOOLEAN, NEW replied \in BOOLEAN,
           ClaimJob(s, reached, replied)
    PROVE  Sound'
<1>1. WorkOK /\ CanisterOK
  BY DEF Sound, Typed
<1> DEFINE claims == reached /\ status[Job(s)] = "Pending"
<1>2. PICK pc : pc = IF claims /\ replied THEN "claimed" ELSE "refused"
  OBVIOUS
<1>3. /\ sockets[s].pc = "claim"
      /\ status' = IF claims THEN [status EXCEPT ![Job(s)] = "InProgress"] ELSE status
      /\ sockets' = [sockets EXCEPT ![s].pc = pc]
      /\ UNCHANGED <<unanswered, streams, tasks, notices, permits, process, embedding>>
  BY <1>2 DEF ClaimJob, Waits
<1>4. PICK x \in SocketStates :
         /\ sockets' = [sockets EXCEPT ![s] = x] /\ x.pc = pc
         /\ x.job = Job(s) /\ Job(s) \in Jobs /\ x.creator = sockets[s].creator
  BY <1>1, <1>2, <1>3, MoveFacts
<1>5. tasks[s].pc = "none" /\ streams' \in [Jobs -> Channels \cup {None}]
  BY <1>1, <1>3 DEF WorkOK
<1>6. WorkOK'
  <2>1. /\ sockets' = [sockets EXCEPT ![s] = x] /\ x.pc # "new" /\ x.job \in Jobs
        /\ tasks' = tasks /\ notices' = notices
        /\ tasks[s].pc # "none" => x.pc \in {"forward", "closed"}
    BY <1>2, <1>3, <1>4, <1>5
  <2> QED BY <1>1, <1>5, <2>1, SocketMoves
<1>7. CanisterOK'
  BY <1>1, <1>3 DEF CanisterOK, Live
<1>8. Typed' /\ PermitsHeld'
  BY <1>3, <1>6, <1>7, PermitsSame DEF Sound, Typed
<1>9. /\ sockets'[s] = x /\ \A t \in Sockets : t # s => sockets'[t] = sockets[t]
      /\ \A j \in Jobs : j # Job(s) => status'[j] = status[j]
      /\ status'[Job(s)] = IF claims THEN "InProgress" ELSE status[Job(s)]
  BY <1>1, <1>3, <1>4 DEF WorkOK, CanisterOK
<1>10. \A t \in Sockets : Job(t)' = Job(t)
  BY <1>4, <1>9 DEF Job
<1>11. \A t \in Sockets : Claimer(t)' => Claimer(t) \/ (t = s /\ claims)
  BY <1>2, <1>3, <1>4, <1>9 DEF Claimer, Busy
<1>12. \A t \in Sockets : Claimer(t) => Job(t) \in Jobs /\ status[Job(t)] # "Pending"
  BY <1>1 DEF Sound, Accounts, ClaimsOnce, Claimer, Busy, WorkOK
<1>13. ClaimsOnce'
  <2>1. ASSUME NEW t \in Sockets, Claimer(t)'
        PROVE  status'[Job(t)] # "Pending"
    BY <1>4, <1>9, <1>11, <1>12, <2>1
  <2>2. ASSUME NEW t \in Sockets, NEW u \in Sockets, Claimer(t)', Claimer(u)', Job(t) = Job(u)
        PROVE  t = u
    BY <1>11, <1>12, <2>2 DEF Sound, Accounts, ClaimsOnce
  <2> QED BY <1>10, <2>1, <2>2 DEF ClaimsOnce
<1>14. StreamsAreOwned'
  BY <1>2, <1>3, <1>4, <1>9, <1>10 DEF Sound, Accounts, StreamsAreOwned
<1>15. ClaimsAreAnswered'
  <2> SUFFICES ASSUME NEW j \in Jobs, Up', status'[j] = "InProgress"
               PROVE  \/ j \in unanswered'
                      \/ \E t \in Sockets : Job(t)' = j /\
                           (Busy(t)' \/ t \in notices' \/ sockets'[t].pc \in {"claimed", "refused"})
    BY DEF ClaimsAreAnswered
  <2>1. CASE j = Job(s)
    BY <1>2, <1>4, <1>9, <1>10, <2>1
  <2>2. CASE j # Job(s)
    <3>1. \/ j \in unanswered
          \/ \E t \in Sockets : Job(t) = j /\
                (Busy(t) \/ t \in notices \/ sockets[t].pc \in {"claimed", "refused"})
      BY <1>3, <1>9, <2>2 DEF Sound, Accounts, ClaimsAreAnswered, Up
    <3> QED BY <1>3, <1>9, <1>10, <2>2, <3>1 DEF Busy
  <2> QED BY <2>1, <2>2
<1> QED BY <1>8, <1>13, <1>14, <1>15 DEF Sound, Accounts

\* The job cannot be prepared: a report of it is spawned.
LEMMA SoundPreparationFails ==
    ASSUME Sound, NEW s \in Sockets, PreparationFails(s)
    PROVE  Sound'
<1>1. WorkOK
  BY DEF Sound, Typed
<1>2. /\ sockets[s].pc \in {"refused", "claimed"} /\ notices' = notices \cup {s}
      /\ sockets' = [sockets EXCEPT ![s].pc = "failing"]
      /\ UNCHANGED <<status, unanswered, streams, tasks, permits, process, embedding>>
  BY DEF PreparationFails, canister
<1>3. PICK x \in SocketStates :
         /\ sockets' = [sockets EXCEPT ![s] = x] /\ x.pc = "failing"
         /\ x.job = Job(s) /\ Job(s) \in Jobs /\ x.creator = sockets[s].creator
  BY <1>1, <1>2, MoveFacts
<1>4. tasks[s].pc = "none" /\ streams' \in [Jobs -> Channels \cup {None}]
  BY <1>1, <1>2 DEF WorkOK
<1>5. WorkOK'
  BY ZenonT(60), <1>1, <1>2, <1>3, <1>4, SocketMoves
<1>6. Typed' /\ PermitsHeld'
  BY <1>2, <1>5, PermitsSame DEF Sound, Typed, CanisterOK
<1>7. sockets'[s] = x /\ \A t \in Sockets : t # s => sockets'[t] = sockets[t]
  BY <1>1, <1>3 DEF WorkOK
<1>8. \A t \in Sockets : Job(t)' = Job(t)
  BY <1>3, <1>7 DEF Job
<1>9. ClaimsOnce' /\ StreamsAreOwned'
  BY <1>2, <1>3, <1>7, <1>8 DEF Sound, Accounts, ClaimsOnce, StreamsAreOwned, Claimer, Busy
<1>10. ClaimsAreAnswered'
  BY <1>2, <1>3, <1>7, <1>8 DEF Sound, Accounts, ClaimsAreAnswered, Busy, Up
<1> QED BY <1>6, <1>9, <1>10 DEF Sound, Accounts

\* The history is there: the task takes over from the handler.
LEMMA SoundPrepared ==
    ASSUME Sound, NEW s \in Sockets, Prepared(s)
    PROVE  Sound'
<1>1. WorkOK
  BY DEF Sound, Typed
<1>2. /\ sockets[s].pc = "claimed" /\ sockets' = [sockets EXCEPT ![s].pc = "forward"]
      /\ tasks' = [tasks EXCEPT ![s].pc = "queued"]
      /\ UNCHANGED <<status, unanswered, streams, notices, permits, process, embedding>>
  BY DEF Prepared, canister
<1>3. PICK x \in SocketStates :
         /\ sockets' = [sockets EXCEPT ![s] = x] /\ x.pc = "forward"
         /\ x.job = Job(s) /\ Job(s) \in Jobs /\ x.creator = sockets[s].creator
  BY <1>1, <1>2, MoveFacts
<1>4. tasks[s].pc = "none" /\ tasks[s] \in TaskStates /\ tasks[s].senders = <<>>
  BY <1>1, <1>2 DEF WorkOK, SendersOK
<1>5. PICK k \in TaskStates : /\ tasks' = [tasks EXCEPT ![s] = k] /\ k.pc = "queued"
                              /\ k.senders = <<>>
  <2> DEFINE k0 == tasks[s]
             k == [k0 EXCEPT !.pc = "queued"]
  <2>1. tasks' = [tasks EXCEPT ![s] = k]
    BY <1>1, <1>2 DEF WorkOK
  <2>2. k \in TaskStates /\ k.pc = "queued" /\ k.senders = <<>>
    BY <1>4 DEF TaskStates
  <2> HIDE DEF k
  <2> QED BY <2>1, <2>2
<1>6. /\ sockets' \in [Sockets -> SocketStates] /\ tasks' \in [Sockets -> TaskStates]
      /\ sockets'[s] = x /\ \A t \in Sockets : t # s => sockets'[t] = sockets[t]
      /\ tasks'[s] = k /\ \A t \in Sockets : t # s => tasks'[t] = tasks[t]
  BY <1>1, <1>3, <1>5 DEF WorkOK
<1>7. WorkOK'
  BY <1>1, <1>2, <1>3, <1>5, <1>6 DEF WorkOK, SendersOK, Job
<1>8. Typed' /\ PermitsHeld'
  BY <1>2, <1>4, <1>5, <1>6, <1>7, PermitsSame DEF Sound, Typed, CanisterOK
<1>9. \A t \in Sockets : Job(t)' = Job(t)
  BY <1>3, <1>6 DEF Job
<1>10. \A t \in Sockets : Claimer(t)' <=> Claimer(t)
  BY <1>2, <1>3, <1>5, <1>6 DEF Claimer, Busy
<1>11. ClaimsOnce'
  BY <1>2, <1>9, <1>10 DEF Sound, Accounts, ClaimsOnce
<1>12. StreamsAreOwned' /\ ClaimsAreAnswered'
  BY <1>2, <1>3, <1>5, <1>6, <1>9
     DEF Sound, Accounts, StreamsAreOwned, ClaimsAreAnswered, Busy, Up
<1> QED BY <1>8, <1>11, <1>12 DEF Sound, Accounts

\* What complete_job does to a job and leaves alone of the others.
LEMMA CompleteFacts ==
    ASSUME CanisterOK, NEW j \in Jobs, NEW r, NEW reached, CompleteJob(j, r, reached)
    PROVE  /\ status'[j] = "InProgress" => j \in unanswered'
           /\ \A i \in Jobs : i # j => status'[i] = status[i]
           /\ \A i \in Jobs : i # j /\ i \in unanswered => i \in unanswered'
           /\ status'[j] = "Pending" => status[j] = "Pending"
<1>1. Final(r) \in {"Completed", "Failed"}
  BY DEF Final
<1>2. CASE reached /\ status[j] = "InProgress"
  BY <1>1, <1>2 DEF CompleteJob, CanisterOK
<1>3. CASE ~(reached /\ status[j] = "InProgress")
  BY <1>3 DEF CompleteJob
<1> QED BY <1>2, <1>3

\* A report of a failure reaches the canister or not.
LEMMA SoundReport ==
    ASSUME Sound, NEW s \in Sockets, NEW reached \in BOOLEAN, ReportFailure(s, reached)
    PROVE  Sound'
<1>1. WorkOK /\ CanisterOK
  BY DEF Sound, Typed
<1>2. /\ s \in notices /\ notices' = notices \ {s} /\ CompleteJob(Job(s), "Failure", reached)
      /\ UNCHANGED <<sockets, streams, tasks, permits, process, embedding>>
  BY DEF ReportFailure
<1>3. PICK j : j = Job(s)
  OBVIOUS
<1>4. j \in Jobs /\ CompleteJob(j, "Failure", reached)
  BY <1>1, <1>2, <1>3 DEF WorkOK
<1>5. CanisterOK'
  BY <1>1, <1>4, CompleteTyped
<1>6. WorkOK'
  BY <1>1, <1>2 DEF WorkOK, Job
<1>7. Typed' /\ PermitsHeld'
  BY <1>2, <1>5, <1>6, PermitsSame DEF Sound, Typed
<1>8. /\ status'[j] = "InProgress" => j \in unanswered'
      /\ \A i \in Jobs : i # j => status'[i] = status[i]
      /\ \A i \in Jobs : i # j /\ i \in unanswered => i \in unanswered'
      /\ status'[j] = "Pending" => status[j] = "Pending"
  BY <1>1, <1>4, CompleteFacts
<1>9. \A t \in Sockets : Claimer(t) => Job(t) \in Jobs
  BY <1>1 DEF Claimer, Busy, WorkOK
<1>10. ClaimsOnce' /\ StreamsAreOwned'
  BY <1>2, <1>8, <1>9 DEF Sound, Accounts, ClaimsOnce, StreamsAreOwned, Claimer, Busy, Job
<1>11. ClaimsAreAnswered'
  BY <1>2, <1>3, <1>8 DEF Sound, Accounts, ClaimsAreAnswered, Busy, Job, Up
<1> QED BY <1>7, <1>10, <1>11 DEF Sound, Accounts

-----------------------------------------------------------------------------
(***************************************************************************)
(* Tasks.                                                                  *)
(***************************************************************************)
\* A task that stays busy keeps its claim and its stream.
LEMMA TaskAccounts ==
    ASSUME WorkOK, Accounts, NEW s \in Sockets, Busy(s), Busy(s)',
           \A t \in Sockets : t # s => tasks'[t] = tasks[t],
           \A t \in Sockets : /\ sockets'[t].pc = sockets[t].pc
                              /\ sockets'[t].job = sockets[t].job
                              /\ sockets'[t].creator = sockets[t].creator,
           \A j \in Jobs : j # Job(s) => streams'[j] = streams[j],
           UNCHANGED <<status, unanswered, notices>>, process'.phase = process.phase
    PROVE  Accounts'
<1>1. \A t \in Sockets : Job(t)' = Job(t) /\ (Busy(t)' <=> Busy(t))
  BY DEF Job, Busy
<1>2. ClaimsOnce'
  BY <1>1 DEF Accounts, ClaimsOnce, Claimer
<1>3. StreamsAreOwned'
  <2> SUFFICES ASSUME NEW j \in Jobs, streams'[j] # None
               PROVE  \E t \in Sockets : Job(t)' = j /\
                        (\/ tasks'[t].pc # "none"
                         \/ sockets'[t].creator
                            /\ sockets'[t].pc \in {"claim", "claimed", "refused", "failing"})
    BY DEF StreamsAreOwned
  <2>1. CASE j = Job(s)
    BY <1>1, <2>1 DEF Busy
  <2>2. CASE j # Job(s)
    BY <1>1, <2>2 DEF Accounts, StreamsAreOwned
  <2> QED BY <2>1, <2>2
<1>4. ClaimsAreAnswered'
  BY <1>1 DEF Accounts, ClaimsAreAnswered, Up
<1> QED BY <1>2, <1>3, <1>4 DEF Accounts

\* What the steps of a task do to its state when they only move it on.
LEMMA TaskFacts ==
    ASSUME WorkOK, NEW s \in Sockets, tasks[s].pc # "none",
           NEW pc \in {"permit", "details", "second", "embedding", "embed", "stream"},
           tasks' = [tasks EXCEPT ![s].pc = pc]
    PROVE  \E k \in TaskStates : /\ tasks' = [tasks EXCEPT ![s] = k] /\ k.pc = pc
                                 /\ k.senders = tasks[s].senders
                                 /\ sockets[s].pc \in {"forward", "closed"}
<1> DEFINE k0 == tasks[s]
           k == [k0 EXCEPT !.pc = pc]
<1>1. tasks' = [tasks EXCEPT ![s] = k] /\ k0 \in TaskStates
  BY DEF WorkOK
<1>2. sockets[s].pc \in {"forward", "closed"}
  BY DEF WorkOK
<1> HIDE DEF k0
<1>3. k \in TaskStates /\ k.pc = pc /\ k.senders = k0.senders
  BY <1>1 DEF TaskStates
<1> HIDE DEF k
<1> QED BY <1>1, <1>2, <1>3 DEF k0

\* A task takes a permit.
LEMMA SoundAcquire ==
    ASSUME Sound, NEW s \in Sockets, Acquire(s) \/ AcquireSecond(s)
    PROVE  Sound'
<1>1. WorkOK /\ Accounts /\ PermitsHeld
  BY DEF Sound, Typed
<1>2. PICK pc : pc = IF tasks[s].pc = "queued" THEN "permit" ELSE "embedding"
  OBVIOUS
<1>3. /\ tasks[s].pc \in {"queued", "second"} /\ permits > 0 /\ permits' = permits - 1
      /\ tasks' = [tasks EXCEPT ![s].pc = pc]
      /\ UNCHANGED <<status, unanswered, sockets, streams, notices, process, embedding>>
  BY <1>2 DEF Acquire, AcquireSecond, canister
<1>4. PICK k \in TaskStates : /\ tasks' = [tasks EXCEPT ![s] = k] /\ k.pc = pc
                              /\ k.senders = tasks[s].senders
                              /\ sockets[s].pc \in {"forward", "closed"}
  BY ZenonT(60), <1>1, <1>2, <1>3, TaskFacts
<1>5. SendersOK(k)
  BY <1>1, <1>2, <1>3, <1>4 DEF WorkOK, SendersOK
<1>6. WorkOK'
  <2>1. streams' \in [Jobs -> Channels \cup {None}] /\ notices' = notices /\ sockets' = sockets
    BY <1>1, <1>3 DEF WorkOK
  <2> QED BY <1>1, <1>4, <1>5, <2>1, TaskMoves
<1>7. tasks'[s] = k /\ \A t \in Sockets : t # s => tasks'[t] = tasks[t]
  BY <1>1, <1>4 DEF WorkOK
<1>8. Busy(s) /\ Busy(s)'
  BY <1>2, <1>3, <1>4, <1>7 DEF Busy
<1>9. Accounts'
  BY <1>1, <1>3, <1>7, <1>8, TaskAccounts
<1>10. PermitsHeld'
  <2>1. /\ permits \in Nat /\ IsFiniteSet(Holders) /\ IsFiniteSet(TwiceHolders)
        /\ permits + Cardinality(Holders) + Cardinality(TwiceHolders) = CONCURRENCY
    BY <1>1 DEF PermitsHeld
  <2>2. Cardinality(Holders) \in Nat /\ Cardinality(TwiceHolders) \in Nat
    BY <2>1, FS_CardinalityType
  <2>3. CASE tasks[s].pc = "queued"
    <3>1. Holders' = Holders \cup {s} /\ s \notin Holders /\ TwiceHolders' = TwiceHolders
      BY <1>2, <1>4, <1>7, <2>3 DEF Holders, TwiceHolders
    <3>2. IsFiniteSet(Holders') /\ Cardinality(Holders') = Cardinality(Holders) + 1
      BY <2>1, <3>1, FS_AddElement
    <3> QED BY <1>3, <2>1, <2>2, <3>1, <3>2 DEF PermitsHeld
  <2>4. CASE tasks[s].pc = "second"
    <3>1. TwiceHolders' = TwiceHolders \cup {s} /\ s \notin TwiceHolders /\ Holders' = Holders
      BY <1>2, <1>4, <1>7, <2>4 DEF Holders, TwiceHolders
    <3>2. IsFiniteSet(TwiceHolders') /\ Cardinality(TwiceHolders') = Cardinality(TwiceHolders) + 1
      BY <2>1, <3>1, FS_AddElement
    <3> QED BY <1>3, <2>1, <2>2, <3>1, <3>2 DEF PermitsHeld
  <2> QED BY <1>3, <2>3, <2>4
<1>11. Typed'
  BY <1>3, <1>6 DEF Sound, Typed, CanisterOK
<1> QED BY <1>9, <1>10, <1>11 DEF Sound

\* Tasks that hold what they held.
LEMMA PermitsKept ==
    ASSUME PermitsHeld, permits' = permits, Holders' = Holders, TwiceHolders' = TwiceHolders
    PROVE  PermitsHeld'
BY DEF PermitsHeld

\* A task gets a sender, for which it may have to create the stream again.
LEMMA SoundSender ==
    ASSUME Sound, NEW s \in Sockets, GetBroadcastSender(s) \/ GetSecondSender(s)
    PROVE  Sound'
<1>1. WorkOK /\ Accounts /\ PermitsHeld
  BY DEF Sound, Typed
<1>2. PICK pc, next : /\ Sender(s, pc, next)
                      /\ \/ pc = "permit" /\ next = "details"
                         \/ pc = "embedding" /\ next = "embed"
  BY DEF GetBroadcastSender, GetSecondSender
<1>3. PICK c : c = IF streams[Job(s)] = None THEN <<s, pc>> ELSE streams[Job(s)]
  OBVIOUS
<1>4. /\ tasks[s].pc = pc /\ streams' = [streams EXCEPT ![Job(s)] = c]
      /\ UNCHANGED <<status, unanswered, sockets, notices, permits, process, embedding>>
  BY <1>2, <1>3 DEF Sender, canister
<1>5. sockets[s].pc \in {"forward", "closed"} /\ Job(s) \in Jobs /\ tasks[s] \in TaskStates
  BY <1>1, <1>2, <1>4 DEF WorkOK
<1>6. c \in Channels
  BY <1>1, <1>2, <1>3, <1>5 DEF WorkOK, Channels
<1>7. PICK k \in TaskStates : /\ tasks' = [tasks EXCEPT ![s] = k] /\ k.pc = next
                              /\ k.senders = Append(tasks[s].senders, c)
  <2> DEFINE k0 == tasks[s]
             q == Append(k0.senders, c)
             k == [[k0 EXCEPT !.pc = next] EXCEPT !.senders = q]
  <2>1. k0.senders \in Seq(Channels) /\ q \in Seq(Channels)
    BY <1>5, <1>6 DEF TaskStates
  <2>2. tasks' = [tasks EXCEPT ![s] = k]
    BY <1>1, <1>2, <1>3, <1>5 DEF Sender, WorkOK, TaskStates
  <2> HIDE DEF q
  <2>3. k \in TaskStates /\ k.pc = next /\ k.senders = q
    BY <1>2, <1>5, <2>1 DEF TaskStates
  <2> HIDE DEF k
  <2> QED BY <2>2, <2>3 DEF q
<1>8. SendersOK(k)
  <2>1. tasks[s].senders \in Seq(Channels) /\ SendersOK(tasks[s])
    BY <1>1, <1>5 DEF WorkOK, TaskStates
  <2>2. Len(k.senders) = Len(tasks[s].senders) + 1
    BY <1>6, <1>7, <2>1
  <2>3. CASE pc = "permit"
    <3>1. Len(tasks[s].senders) = 0
      BY <1>4, <2>1, <2>3 DEF SendersOK
    <3> QED BY <1>2, <1>7, <2>2, <2>3, <3>1 DEF SendersOK
  <2>4. CASE pc = "embedding"
    <3>1. Len(tasks[s].senders) = 1
      BY <1>4, <2>1, <2>4 DEF SendersOK
    <3> QED BY <1>2, <1>7, <2>2, <2>4, <3>1 DEF SendersOK
  <2> QED BY <1>2, <2>3, <2>4
<1>9. streams' \in [Jobs -> Channels \cup {None}] /\ \A j \in Jobs : j # Job(s) => streams'[j] = streams[j]
  BY <1>1, <1>4, <1>6 DEF WorkOK
<1>10. WorkOK'
  <2>1. notices' = notices /\ sockets' = sockets /\ tasks' = [tasks EXCEPT ![s] = k]
    BY <1>4, <1>7
  <2> QED BY <1>1, <1>5, <1>8, <1>9, <2>1, TaskMoves
<1>11. tasks'[s] = k /\ \A t \in Sockets : t # s => tasks'[t] = tasks[t]
  BY <1>1, <1>7 DEF WorkOK
<1>12. Busy(s) /\ Busy(s)'
  BY <1>2, <1>4, <1>7, <1>11 DEF Busy
<1>13. Accounts'
  BY <1>1, <1>4, <1>9, <1>11, <1>12, TaskAccounts
<1>14. Holders' = Holders /\ TwiceHolders' = TwiceHolders
  BY <1>2, <1>4, <1>7, <1>11 DEF Holders, TwiceHolders
<1>15. Typed' /\ PermitsHeld'
  BY <1>1, <1>4, <1>10, <1>14, PermitsKept DEF Sound, Typed, CanisterOK
<1> QED BY <1>13, <1>15 DEF Sound

\* The details of the model say how a task goes on.
LEMMA SoundDispatch ==
    ASSUME Sound, NEW s \in Sockets, Dispatch(s)
    PROVE  Sound'
<1>1. WorkOK /\ Accounts /\ PermitsHeld
  BY DEF Sound, Typed
<1>2. PICK pc : pc = IF embedding THEN "second" ELSE "stream"
  OBVIOUS
<1>3. /\ tasks[s].pc = "details" /\ tasks' = [tasks EXCEPT ![s].pc = pc]
      /\ UNCHANGED <<status, unanswered, sockets, streams, notices, permits, process, embedding>>
  BY <1>2 DEF Dispatch, canister
<1>4. PICK k \in TaskStates : /\ tasks' = [tasks EXCEPT ![s] = k] /\ k.pc = pc
                              /\ k.senders = tasks[s].senders
                              /\ sockets[s].pc \in {"forward", "closed"}
  BY ZenonT(60), <1>1, <1>2, <1>3, TaskFacts
<1>5. SendersOK(k)
  BY <1>1, <1>2, <1>3, <1>4 DEF WorkOK, SendersOK
<1>6. WorkOK'
  <2>1. streams' \in [Jobs -> Channels \cup {None}] /\ notices' = notices /\ sockets' = sockets
    BY <1>1, <1>3 DEF WorkOK
  <2> QED BY <1>1, <1>4, <1>5, <2>1, TaskMoves
<1>7. tasks'[s] = k /\ \A t \in Sockets : t # s => tasks'[t] = tasks[t]
  BY <1>1, <1>4 DEF WorkOK
<1>8. Busy(s) /\ Busy(s)'
  BY <1>2, <1>3, <1>4, <1>7 DEF Busy
<1>9. Accounts'
  BY <1>1, <1>3, <1>7, <1>8, TaskAccounts
<1>10. Holders' = Holders /\ TwiceHolders' = TwiceHolders
  BY <1>2, <1>3, <1>4, <1>7 DEF Holders, TwiceHolders
<1>11. Typed' /\ PermitsHeld'
  BY <1>1, <1>3, <1>6, <1>10, PermitsKept DEF Sound, Typed, CanisterOK
<1> QED BY <1>9, <1>11 DEF Sound

\* process_request returns: the permits the task held come back.
LEMMA SoundEnds ==
    ASSUME Sound, NEW s \in Sockets, tasks[s].pc \in {"details", "stream", "embed"},
           NEW r \in Results, NEW final \in BOOLEAN, NEW terminal \in BOOLEAN,
           Ends(s, r, final, terminal), UNCHANGED <<canister, streams, notices, embedding>>
    PROVE  Sound'
<1>1. WorkOK /\ Accounts /\ PermitsHeld
  BY DEF Sound, Typed
<1>2. PICK k : k = [pc |-> "complete", senders |-> <<>>, result |-> r]
  OBVIOUS
<1>3. /\ permits' = permits + Held(s) /\ tasks' = [tasks EXCEPT ![s] = k]
      /\ process' = [process EXCEPT !.fatal = process.fatal \/ terminal]
      /\ UNCHANGED <<status, unanswered, streams, notices, embedding>>
  BY <1>2 DEF Ends, canister
<1>4. k \in TaskStates /\ k.pc = "complete" /\ SendersOK(k)
  BY <1>2 DEF TaskStates, SendersOK, Results
<1>5. /\ sockets' \in [Sockets -> SocketStates]
      /\ \A t \in Sockets : /\ sockets'[t].pc = sockets[t].pc
                            /\ sockets'[t].job = sockets[t].job
                            /\ sockets'[t].creator = sockets[t].creator
  <2>1. ASSUME NEW t \in Sockets
        PROVE  /\ [sockets[t] EXCEPT !.final = TRUE] \in SocketStates
               /\ [sockets[t] EXCEPT !.final = TRUE].pc = sockets[t].pc
               /\ [sockets[t] EXCEPT !.final = TRUE].job = sockets[t].job
               /\ [sockets[t] EXCEPT !.final = TRUE].creator = sockets[t].creator
    <3>1. sockets[t] \in SocketStates
      BY <1>1 DEF WorkOK
    <3> QED BY <3>1 DEF SocketStates
  <2>2. \E S : sockets' = [t \in Sockets |-> IF t \in S
                                            THEN [sockets[t] EXCEPT !.final = TRUE]
                                            ELSE sockets[t]]
    <3> DEFINE S == {t \in Sockets : final /\ sockets[t].chan = Last(tasks[s].senders)}
    <3>1. sockets' = [t \in Sockets |-> IF t \in S THEN [sockets[t] EXCEPT !.final = TRUE]
                                       ELSE sockets[t]]
      BY DEF Ends
    <3> QED BY <3>1
  <2>3. \A t \in Sockets : sockets[t] \in SocketStates
    BY <1>1 DEF WorkOK
  <2> QED BY <2>1, <2>2, <2>3
<1>6. /\ tasks'[s] = k /\ \A t \in Sockets : t # s => tasks'[t] = tasks[t]
      /\ tasks' \in [Sockets -> TaskStates]
  BY <1>1, <1>3, <1>4 DEF WorkOK
<1>7. WorkOK'
  BY <1>1, <1>3, <1>4, <1>5, <1>6 DEF WorkOK, Job
<1>8. process' \in ProcessStates /\ process'.phase = process.phase
  <2>1. process \in ProcessStates /\ process.fatal \in BOOLEAN
    BY DEF Sound, Typed, ProcessStates
  <2>2. PICK b \in BOOLEAN : b = (process.fatal \/ terminal)
    OBVIOUS
  <2>3. process' = [process EXCEPT !.fatal = b]
    BY <1>3, <2>2
  <2> QED BY <2>1, <2>3 DEF ProcessStates
<1>9. Busy(s) /\ Busy(s)'
  BY <1>4, <1>6 DEF Busy
<1>10. Accounts'
  BY <1>1, <1>3, <1>5, <1>6, <1>8, <1>9, TaskAccounts
<1>11. PermitsHeld'
  <2>1. /\ permits \in Nat /\ IsFiniteSet(Holders) /\ IsFiniteSet(TwiceHolders)
        /\ permits + Cardinality(Holders) + Cardinality(TwiceHolders) = CONCURRENCY
    BY <1>1 DEF PermitsHeld
  <2>2. Cardinality(Holders) \in Nat /\ Cardinality(TwiceHolders) \in Nat
    BY <2>1, FS_CardinalityType
  <2>3. /\ Holders' = Holders \ {s} /\ s \in Holders /\ TwiceHolders' = TwiceHolders \ {s}
        /\ s \in TwiceHolders <=> tasks[s].pc = "embed"
    BY <1>4, <1>6 DEF Holders, TwiceHolders
  <2>4. /\ IsFiniteSet(Holders') /\ Cardinality(Holders') = Cardinality(Holders) - 1
        /\ IsFiniteSet(TwiceHolders')
        /\ Cardinality(TwiceHolders') = IF tasks[s].pc = "embed" THEN Cardinality(TwiceHolders) - 1
                                        ELSE Cardinality(TwiceHolders)
    BY <2>1, <2>3, FS_RemoveElement
  <2>5. permits' = permits + (IF tasks[s].pc = "embed" THEN 2 ELSE 1)
    BY <1>3 DEF Held
  <2>6. permits' \in Nat
    BY <2>1, <2>5
  <2>7. permits' + Cardinality(Holders') + Cardinality(TwiceHolders') = CONCURRENCY
    BY <2>1, <2>2, <2>4, <2>5
  <2> QED BY <2>4, <2>6, <2>7 DEF PermitsHeld
<1>12. Typed'
  BY <1>3, <1>7, <1>8 DEF Sound, Typed, CanisterOK
<1> QED BY <1>10, <1>11, <1>12 DEF Sound

\* The ways in which process_request returns.
LEMMA SoundAsks ==
    ASSUME Sound, NEW s \in Sockets, Asks(s)
    PROVE  Sound'
<1>1. PICK r \in Results, final \in BOOLEAN, terminal \in BOOLEAN :
         /\ tasks[s].pc \in {"details", "stream", "embed"}
         /\ Ends(s, r, final, terminal) /\ UNCHANGED <<canister, streams, notices, embedding>>
  BY DEF Asks, NoModelDetails, BuildRequestFails, NoStream, StreamEndsWith,
         EmbeddingEndsWith, At, Results
<1> QED BY <1>1, SoundEnds

\* The task gives its answer.
LEMMA SoundComplete ==
    ASSUME Sound, NEW s \in Sockets, NEW reached \in BOOLEAN, Complete(s, reached)
    PROVE  Sound'
<1>1. WorkOK /\ CanisterOK
  BY DEF Sound, Typed
<1>2. PICK j, r : j = Job(s) /\ r = tasks[s].result
  OBVIOUS
<1>3. PICK k : k = [NoTask EXCEPT !.pc = "cleanup"]
  OBVIOUS
<1>4. k \in TaskStates /\ k.pc = "cleanup" /\ SendersOK(k)
  BY <1>3, NothingOK DEF TaskStates, SendersOK
<1>5. /\ tasks[s].pc = "complete" /\ CompleteJob(j, r, reached)
      /\ tasks' = [tasks EXCEPT ![s] = k]
      /\ UNCHANGED <<sockets, streams, notices, permits, process, embedding>>
  BY <1>2, <1>3 DEF Complete
<1>6. sockets[s].pc \in {"forward", "closed"} /\ j \in Jobs
  BY <1>1, <1>2, <1>5 DEF WorkOK
<1>7. CanisterOK'
  BY <1>1, <1>5, <1>6, CompleteTyped
<1>8. WorkOK'
  <2>1. streams' \in [Jobs -> Channels \cup {None}] /\ notices' = notices /\ sockets' = sockets
        /\ tasks' = [tasks EXCEPT ![s] = k]
    BY <1>1, <1>5 DEF WorkOK
  <2> QED BY <1>1, <1>4, <1>6, <2>1, TaskMoves
<1>9. tasks'[s] = k /\ \A t \in Sockets : t # s => tasks'[t] = tasks[t]
  BY <1>1, <1>5 DEF WorkOK
<1>10. PermitsHeld'
  BY <1>4, <1>5, <1>9, PermitsSame DEF Sound
<1>11. /\ status'[j] = "InProgress" => j \in unanswered'
       /\ \A i \in Jobs : i # j => status'[i] = status[i]
       /\ \A i \in Jobs : i # j /\ i \in unanswered => i \in unanswered'
       /\ status'[j] = "Pending" => status[j] = "Pending"
  BY <1>1, <1>5, <1>6, CompleteFacts
<1>12. \A t \in Sockets : (Claimer(t)' => Claimer(t)) /\ (Claimer(t) => Job(t) \in Jobs)
  BY <1>1, <1>4, <1>5, <1>9 DEF Claimer, Busy, WorkOK
<1>13. ClaimsOnce'
  BY <1>5, <1>11, <1>12 DEF Sound, Accounts, ClaimsOnce, Job
<1>14. StreamsAreOwned'
  BY <1>4, <1>5, <1>9 DEF Sound, Accounts, StreamsAreOwned, Job
<1>15. ClaimsAreAnswered'
  BY <1>2, <1>5, <1>9, <1>11 DEF Sound, Accounts, ClaimsAreAnswered, Busy, Job, Up
<1> QED BY <1>5, <1>7, <1>8, <1>10, <1>13, <1>14, <1>15 DEF Sound, Typed, Accounts

\* The task removes the stream and is gone.
LEMMA SoundCleanUp ==
    ASSUME Sound, NEW s \in Sockets, CleanUp(s)
    PROVE  Sound'
<1>1. WorkOK
  BY DEF Sound, Typed
<1>2. PICK k : k = NoTask
  OBVIOUS
<1>3. k \in TaskStates /\ k.pc = "none" /\ SendersOK(k)
  BY <1>2, NothingOK DEF SendersOK
<1>4. /\ tasks[s].pc = "cleanup" /\ streams' = [streams EXCEPT ![Job(s)] = None]
      /\ tasks' = [tasks EXCEPT ![s] = k]
      /\ UNCHANGED <<status, unanswered, sockets, notices, permits, process, embedding>>
  BY <1>2 DEF CleanUp, canister
<1>5. sockets[s].pc \in {"forward", "closed"} /\ Job(s) \in Jobs
  BY <1>1, <1>4 DEF WorkOK
<1>6. /\ streams' \in [Jobs -> Channels \cup {None}] /\ streams'[Job(s)] = None
      /\ \A j \in Jobs : j # Job(s) => streams'[j] = streams[j]
  BY <1>1, <1>4, <1>5 DEF WorkOK
<1>7. WorkOK'
  <2>1. notices' = notices /\ sockets' = sockets /\ tasks' = [tasks EXCEPT ![s] = k]
    BY <1>4
  <2> QED BY <1>1, <1>3, <1>5, <1>6, <2>1, TaskMoves
<1>8. tasks'[s] = k /\ \A t \in Sockets : t # s => tasks'[t] = tasks[t]
  BY <1>1, <1>4 DEF WorkOK
<1>9. Typed' /\ PermitsHeld'
  BY <1>3, <1>4, <1>7, <1>8, PermitsSame DEF Sound, Typed, CanisterOK
<1>10. \A t \in Sockets : Busy(t)' <=> Busy(t)
  BY <1>3, <1>4, <1>8 DEF Busy
<1>11. ClaimsOnce' /\ ClaimsAreAnswered'
  BY <1>4, <1>10 DEF Sound, Accounts, ClaimsOnce, ClaimsAreAnswered, Claimer, Job, Up
<1>12. StreamsAreOwned'
  BY <1>4, <1>6, <1>8 DEF Sound, Accounts, StreamsAreOwned, Job
<1> QED BY <1>9, <1>11, <1>12 DEF Sound, Accounts

-----------------------------------------------------------------------------
\* A canister times a job out.
LEMMA SoundTimeOut ==
    ASSUME Sound, NEW j \in Jobs, TimeOut(j)
    PROVE  Sound'
<1>1. CanisterOK /\ WorkOK
  BY DEF Sound, Typed
<1>2. /\ status' = [status EXCEPT ![j] = "Failed"] /\ unanswered' = unanswered \ {j}
      /\ UNCHANGED <<sockets, streams, tasks, notices, permits, process, embedding>>
  BY DEF TimeOut, work
<1>3. status'[j] = "Failed" /\ \A i \in Jobs : i # j => status'[i] = status[i]
  BY <1>1, <1>2 DEF CanisterOK
<1>4. CanisterOK'
  BY <1>1, <1>2 DEF CanisterOK
<1>5. WorkOK'
  BY <1>1, <1>2 DEF WorkOK, Job
<1>6. PermitsHeld'
  BY <1>2, PermitsSame DEF Sound
<1>7. \A t \in Sockets : Claimer(t) => Job(t) \in Jobs
  BY <1>1 DEF Claimer, Busy, WorkOK
<1>8. ClaimsOnce' /\ StreamsAreOwned'
  BY <1>2, <1>3, <1>7 DEF Sound, Accounts, ClaimsOnce, StreamsAreOwned, Claimer, Busy, Job
<1>9. ClaimsAreAnswered'
  BY <1>2, <1>3 DEF Sound, Accounts, ClaimsAreAnswered, Busy, Job, Up
<1> QED BY <1>2, <1>4, <1>5, <1>6, <1>8, <1>9 DEF Sound, Typed, Accounts

\* The process is told to stop, or ends and takes everything with it.
LEMMA SoundProcess ==
    ASSUME Sound, ProcessStep
    PROVE  Sound'
<1>1. process \in ProcessStates
  BY DEF Sound, Typed
<1>2. CASE Exit /\ UNCHANGED <<canister, embedding>>
  <2>1. /\ process' = [process EXCEPT !.phase = "exited"]
        /\ sockets' = [s \in Sockets |-> NoSocket] /\ tasks' = [s \in Sockets |-> NoTask]
        /\ streams' = [j \in Jobs |-> None] /\ notices' = {} /\ permits' = CONCURRENCY
        /\ UNCHANGED <<status, unanswered, embedding>>
    BY <1>2 DEF Exit, canister
  <2>2. process' \in ProcessStates /\ process'.phase = "exited"
    BY <1>1, <2>1 DEF ProcessStates
  <2>3. \A s \in Sockets : sockets'[s] = NoSocket /\ tasks'[s] = NoTask
    BY <2>1
  <2>4. WorkOK'
    BY <2>1, <2>3, NothingOK DEF WorkOK, SendersOK
  <2>5. Typed'
    BY <2>1, <2>2, <2>4 DEF Sound, Typed, CanisterOK
  <2>6. ~Up'
    BY <2>2 DEF Up
  <2>7. Accounts'
    BY <2>1, <2>3, <2>6, NothingOK
       DEF Accounts, ClaimsOnce, StreamsAreOwned, ClaimsAreAnswered, Claimer, Busy
  <2>8. Holders' = {} /\ TwiceHolders' = {}
    BY <2>3, NothingOK DEF Holders, TwiceHolders
  <2>9. PermitsHeld'
    BY <2>1, <2>8, FS_EmptySet, NodeAssumption DEF PermitsHeld
  <2> QED BY <2>5, <2>7, <2>9 DEF Sound
<1>3. ASSUME UNCHANGED <<canister, work, embedding>>, Up, process' \in ProcessStates
      PROVE  Sound'
  <2>1. UNCHANGED <<status, unanswered, sockets, streams, tasks, notices, permits, embedding>>
    BY <1>3 DEF canister, work
  <2>2. Typed' /\ PermitsHeld'
    BY <1>3, <2>1, PermitsSame DEF Sound, Typed, CanisterOK, WorkOK, Job
  <2>3. Accounts'
    BY <1>3, <2>1 DEF Sound, Accounts, ClaimsOnce, StreamsAreOwned, ClaimsAreAnswered,
                      Claimer, Busy, Job
  <2> QED BY <2>2, <2>3 DEF Sound
<1>4. CASE DrainAndShutdown \/ Stop \/ StopServing \/ FatalShutdown
  <2>1. process' \in ProcessStates
    BY <1>1, <1>4 DEF ProcessStates, DrainAndShutdown, Stop, StopServing, FatalShutdown
  <2>2. UNCHANGED <<canister, work, embedding>> /\ Up
    BY <1>4 DEF DrainAndShutdown, Stop, StopServing, FatalShutdown, Up
  <2> QED BY <1>3, <2>1, <2>2
<1> QED BY <1>2, <1>4 DEF ProcessStep, Abort, WaitAndExit, FatalExit

\* The steps of a connection.
LEMMA SoundSocketStep ==
    ASSUME Sound, NEW s \in Sockets, SocketStep(s)
    PROVE  Sound'
<1>1. CASE HandshakeFails(s) \/ ForwardEnds(s) \/ Disconnect(s)
  <2>1. /\ Close(s) /\ sockets[s].pc \in {"handshake", "forward"} /\ streams' = streams
        /\ UNCHANGED <<canister, tasks, notices, permits, process, embedding>>
    BY <1>1 DEF HandshakeFails, ForwardEnds, Disconnect
  <2> QED BY <2>1, SoundClose
<1>2. CASE GiveUp(s)
  <2>1. /\ Close(s) /\ sockets[s].pc = "failing"
        /\ UNCHANGED <<canister, tasks, notices, permits, process, embedding>>
        /\ \/ streams' = streams /\ ~sockets[s].creator
           \/ streams' = [streams EXCEPT ![Job(s)] = None]
    BY <1>2 DEF GiveUp
  <2> QED BY <2>1, SoundClose
<1> QED BY <1>1, <1>2, SoundOpen, SoundSubscribe, SoundClaim, SoundPreparationFails,
           SoundPrepared, SoundReport DEF SocketStep

\* The steps of a task.
LEMMA SoundTaskStep ==
    ASSUME Sound, NEW s \in Sockets, TaskStep(s)
    PROVE  Sound'
BY SoundAcquire, SoundSender, SoundDispatch, SoundAsks, SoundComplete, SoundCleanUp
   DEF TaskStep

\* At first no job is claimed and all permits are there.
LEMMA SoundInit == Init => Sound
<1> SUFFICES ASSUME Init PROVE Sound
  OBVIOUS
<1>1. Typed
  BY TypedInit
<1>2. \A s \in Sockets : sockets[s].pc = "new" /\ tasks[s].pc = "none"
  BY NothingOK DEF Init
<1>3. Accounts
  BY <1>2 DEF Init, Accounts, ClaimsOnce, StreamsAreOwned, ClaimsAreAnswered, Claimer, Busy
<1>4. Holders = {} /\ TwiceHolders = {}
  BY <1>2 DEF Holders, TwiceHolders
<1>5. PermitsHeld
  BY <1>4, FS_EmptySet, NodeAssumption DEF Init, PermitsHeld
<1> QED BY <1>1, <1>3, <1>5 DEF Sound

\* Every step keeps the invariant.
LEMMA SoundStep == Sound /\ [Next]_vars => Sound'
<1> SUFFICES ASSUME Sound, [Next]_vars PROVE Sound'
  OBVIOUS
<1>1. CASE UNCHANGED vars
  <2>1. UNCHANGED <<status, unanswered, sockets, streams, tasks, notices, permits,
                    process, embedding>>
    BY <1>1 DEF vars, canister, work
  <2>2. Typed' /\ PermitsHeld'
    BY <2>1, PermitsSame DEF Sound, Typed, CanisterOK, WorkOK, Job
  <2>3. Accounts'
    BY <2>1 DEF Sound, Accounts, ClaimsOnce, StreamsAreOwned, ClaimsAreAnswered,
                Claimer, Busy, Job, Up
  <2> QED BY <2>2, <2>3 DEF Sound
<1> QED BY <1>1, SoundProcess, SoundTimeOut, SoundSocketStep, SoundTaskStep DEF Next

\* The invariant is what TasksAreSound asks for.
LEMMA SoundMeaning == Sound => TasksAreSound /\ ClaimsAreAnswered
<1> SUFFICES ASSUME Sound PROVE TasksAreSound /\ ClaimsAreAnswered
  OBVIOUS
<1>1. permits \in 0 .. CONCURRENCY
  <2>1. Cardinality(Holders) \in Nat /\ Cardinality(TwiceHolders) \in Nat
    BY FS_CardinalityType DEF Sound, PermitsHeld
  <2> QED BY <2>1, NodeAssumption DEF Sound, PermitsHeld
<1>2. ASSUME NEW s \in Sockets
      PROVE  tasks[s].senders \in BoundedSeq(Channels, 2)
  <2>1. /\ tasks[s].senders \in Seq(Channels) /\ tasks[s] \in TaskStates /\ SendersOK(tasks[s])
    BY DEF Sound, Typed, WorkOK, TaskStates
  <2>2. Len(tasks[s].senders) \in 0 .. 2
    <3>1. \/ tasks[s].senders = <<>> \/ Len(tasks[s].senders) = 1 \/ Len(tasks[s].senders) = 2
      BY <2>1 DEF SendersOK, TaskStates
    <3> QED BY <3>1
  <2>3. tasks[s].senders \in [1 .. Len(tasks[s].senders) -> Channels]
    BY <2>1
  <2> QED BY <2>2, <2>3 DEF BoundedSeq, SeqOf
<1>3. TypeOK
  <2>1. tasks \in [Sockets ->
          [pc : {"none", "queued", "permit", "details", "second", "embedding",
                 "embed", "stream", "complete", "cleanup"},
           senders : BoundedSeq(Channels, 2),
           result : {"none", "Success", "Failure"}]]
    <3> HIDE DEF BoundedSeq
    <3>1. tasks \in [Sockets -> TaskStates]
      BY DEF Sound, Typed, WorkOK
    <3> QED BY <1>2, <3>1 DEF TaskStates
  <2> QED BY <1>1, <2>1 DEF Sound, Typed, CanisterOK, WorkOK, SocketStates, ProcessStates, TypeOK
<1>4. OneTaskPerJob /\ StreamsAreOwned /\ ClaimsAreAnswered
  BY DEF Sound, Accounts, ClaimsOnce, Claimer, OneTaskPerJob
<1> QED BY <1>3, <1>4 DEF TasksAreSound

\* However connections ask for the same job, drop, are refused or lose the
\* canister's reply, and however streams are removed and recreated under the
\* tasks: one task at most generates for a job, every entry of job_streams has
\* somebody who removes it, and the semaphore has the permits that no task
\* holds, also where an embedding task holds two.
THEOREM TasksSound == Spec => []TasksAreSound
<1>1. Sound => TasksAreSound
  BY SoundMeaning
<1> QED BY SoundInit, SoundStep, <1>1, PTL DEF Spec

\* A job the node has claimed is in the hands of a handler, a task or a report
\* until the canister has refused or not received its answer, on every error
\* path of the preparation and of the task.
THEOREM ClaimsAnswered == Spec => []ClaimsAreAnswered
<1>1. Sound => ClaimsAreAnswered
  BY SoundMeaning
<1> QED BY SoundInit, SoundStep, <1>1, PTL DEF Spec
=============================================================================
