---------------------------- MODULE ClientUploads ----------------------------
(***************************************************************************)
(* Uploading files from the browser client: the dialog that stages files   *)
(* (UploadModal), the queue of jobs of the file store (addFileJob,         *)
(* _manageJobQueue, _executeJob), the processing of one job (processFile)  *)
(* with the text extraction of a PDF, whose batches of pages are asked in  *)
(* parallel and retried, and the lists that show jobs.  An action is what  *)
(* runs between two awaits.                                                *)
(***************************************************************************)
EXTENDS Naturals, Sequences, FiniteSets

CONSTANTS ConcurrencyLimit,  \* CONCURRENCY_LIMIT
          MaxOcrRetries,     \* MAX_OCR_RETRIES
          MaxBatches,        \* bound: batches of OCR_BATCH_SIZE pages in a PDF
          MaxUploads,        \* bound: jobs ever added
          MaxPicks,          \* bound: selections of files by the user
          MaxSessions        \* bound: times a user signs in

ASSUME UploadBounds ==
    /\ ConcurrencyLimit \in Nat \ {0} /\ MaxOcrRetries \in Nat
    /\ MaxBatches \in Nat /\ MaxUploads \in Nat /\ MaxPicks \in Nat /\ MaxSessions \in Nat

VARIABLES
    dialog,   \* UploadModal: open, staged files, selections in process, reset timers
    jobs,     \* fileProcessingJobs in the order of their keys, with each job's blob
    tasks,    \* _executeJob of each job: where it waits, its batches, and the session
              \* whose client and canister uploadFiles took, 0 if there was none
    wakeups,  \* timers of addFileJob that will call _manageJobQueue
    session,  \* the session of the user, and whether it is open with a folder on display
    stored,   \* the sessions whose canister has stored the file of a job
    picks     \* number of selections

uploadVars == <<dialog, jobs, tasks, wakeups, session, stored, picks>>

Kinds == {"pdf", "markdown", "other"}   \* fileType; an image is treated as "other"
JobIds == 1..MaxUploads

NoTask == [at |-> "none", batches |-> <<>>, owner |-> 0]
NewBatch == [at |-> "asking", attempt |-> 0]

UploadsInit ==
    /\ dialog = [open |-> TRUE, staged |-> <<>>, picking |-> <<>>, resets |-> 0]
    /\ jobs = <<>>
    /\ tasks = [j \in JobIds |-> NoTask]
    /\ wakeups = 0
    /\ session = [id |-> 1, open |-> TRUE]
    /\ stored = [j \in JobIds |-> <<>>]
    /\ picks = 0

-----------------------------------------------------------------------------
(* The dialog.                                                              *)

\* handleFileSelection up to its await: a file that is staged is refused.
SelectFiles(kind) ==
    /\ dialog.open /\ picks < MaxPicks
    /\ \A i \in DOMAIN dialog.staged : dialog.staged[i] # kind
    /\ dialog' = [dialog EXCEPT !.picking = Append(@, kind)]
    /\ picks' = picks + 1
    /\ UNCHANGED <<jobs, tasks, wakeups, session, stored>>

\* processAndCompressFiles is done, whether or not the dialog is still open.
FilesStaged ==
    /\ dialog.picking # <<>>
    /\ dialog' = [dialog EXCEPT !.picking = Tail(@), !.staged = Append(@, Head(dialog.picking))]
    /\ UNCHANGED <<jobs, tasks, wakeups, session, stored, picks>>

RemoveFile(i) ==
    /\ dialog.open /\ i \in DOMAIN dialog.staged
    /\ dialog' = [dialog EXCEPT !.staged = SubSeq(@, 1, i - 1) \o SubSeq(@, i + 1, Len(@))]
    /\ UNCHANGED <<jobs, tasks, wakeups, session, stored, picks>>

\* handleClose: the staged files go when a timer fires.
Closed == [dialog EXCEPT !.open = FALSE, !.resets = @ + 1]

CloseDialog ==
    /\ dialog.open /\ dialog.resets = 0
    /\ dialog' = Closed
    /\ UNCHANGED <<jobs, tasks, wakeups, session, stored, picks>>

OpenDialog ==
    /\ ~dialog.open /\ session.open /\ picks < MaxPicks
    /\ dialog' = [dialog EXCEPT !.open = TRUE]
    /\ UNCHANGED <<jobs, tasks, wakeups, session, stored, picks>>

ResetTimer ==
    /\ dialog.resets > 0
    /\ dialog' = [dialog EXCEPT !.resets = @ - 1, !.staged = <<>>]
    /\ UNCHANGED <<jobs, tasks, wakeups, session, stored, picks>>

\* addFileJob; a PDF has the model chosen for its text, if there is one.
NewJob(kind, model) ==
    [kind |-> kind, model |-> kind = "pdf" /\ model, status |-> "queued", blob |-> TRUE,
     session |-> session.id]

\* handleUpload: a job for every staged file.
Upload(model) ==
    /\ dialog.open /\ session.open
    /\ dialog.staged # <<>> /\ Len(jobs) + Len(dialog.staged) <= MaxUploads
    /\ jobs' = jobs \o [i \in DOMAIN dialog.staged |-> NewJob(dialog.staged[i], model)]
    /\ wakeups' = wakeups + Len(dialog.staged)
    /\ dialog' = Closed
    /\ UNCHANGED <<tasks, session, stored, picks>>

-----------------------------------------------------------------------------
(* The queue.                                                               *)

Active == {"converting", "extracting", "uploading"}   \* "chunking" is not counted

ActiveJobs == {j \in DOMAIN jobs : jobs[j].status \in Active}
QueuedJobs == {j \in DOMAIN jobs : jobs[j].status = "queued"}

\* The first jobs of the queue, as many as there are free slots.
JobsToStart ==
    {j \in QueuedJobs :
        Cardinality({k \in QueuedJobs : k < j}) + Cardinality(ActiveJobs) < ConcurrencyLimit}

\* _executeJob and processFile up to their first await.
StartsAs(j) ==
    CASE jobs[j].kind = "pdf" -> IF jobs[j].model THEN [status |-> "converting", at |-> "convert"]
                                 ELSE [status |-> "error", at |-> "end"]
      [] jobs[j].kind = "markdown" -> [status |-> "chunking", at |-> "text"]
      [] OTHER -> [status |-> "uploading", at |-> "upload"]

\* What uploadFiles reads of the auth store when it is called, before its await.
SignedIn == IF session.open THEN session.id ELSE 0

\* A task that waits in processFile, or in uploadFiles for the bytes of the file.
WaitsAt(at) == [NoTask EXCEPT !.at = at, !.owner = IF at = "upload" THEN SignedIn ELSE 0]

\* _manageJobQueue on jobs js and tasks ts.  Without a folder on display a job
\* fails before any await, and its finally goes on to the next: all of them fail.
ManageJobQueue(js, ts) ==
    IF session.open
    THEN /\ jobs' = [j \in DOMAIN js |-> IF j \in JobsToStart
                                         THEN [js[j] EXCEPT !.status = StartsAs(j).status] ELSE js[j]]
         /\ tasks' = [j \in JobIds |-> IF j \in JobsToStart
                                       THEN WaitsAt(StartsAs(j).at) ELSE ts[j]]
    ELSE /\ jobs' = [j \in DOMAIN js |-> IF j \in QueuedJobs /\ JobsToStart # {}
                                         THEN [js[j] EXCEPT !.status = "error", !.blob = FALSE]
                                         ELSE js[j]]
         /\ tasks' = ts

QueueTimer ==
    /\ wakeups > 0
    /\ wakeups' = wakeups - 1
    /\ ManageJobQueue(jobs, tasks)
    /\ UNCHANGED <<dialog, session, stored, picks>>

\* updateJob: a job that the store no longer has is left alone.
Updated(j, status) ==
    IF jobs[j].status = "gone" THEN jobs ELSE [jobs EXCEPT ![j].status = status]

Goes(j, at) == tasks' = [tasks EXCEPT ![j] = WaitsAt(at)]

\* Mutant of FinishJob: the queue is not looked at when a job ends.
FinishJobOnly(j) ==
    /\ tasks[j].at = "end"
    /\ jobs' = [jobs EXCEPT ![j].blob = @ /\ jobs[j].status = "gone"]
    /\ tasks' = [tasks EXCEPT ![j] = NoTask]
    /\ UNCHANGED <<dialog, wakeups, session, stored, picks>>

\* The finally of _executeJob.
FinishJob(j) ==
    /\ tasks[j].at = "end"
    /\ ManageJobQueue([jobs EXCEPT ![j].blob = @ /\ jobs[j].status = "gone"],
                      [tasks EXCEPT ![j] = NoTask])
    /\ UNCHANGED <<dialog, wakeups, session, stored, picks>>

-----------------------------------------------------------------------------
(* processFile.                                                             *)

\* The pages of a PDF are images: n batches of them are asked.
Converted(j, n) ==
    /\ tasks[j].at = "convert"
    /\ jobs' = Updated(j, "extracting")
    /\ tasks' = [tasks EXCEPT ![j] = [WaitsAt("ocr") EXCEPT !.batches = [b \in 1..n |-> NewBatch]]]
    /\ UNCHANGED <<dialog, wakeups, session, stored, picks>>

BatchGoes(j, b, at) ==
    /\ tasks' = [tasks EXCEPT ![j].batches[b].at = at]
    /\ UNCHANGED <<dialog, jobs, wakeups, session, stored, picks>>

\* executeOcrOnImages: the temporary chat is created, and its promise waits for
\* the stream.
OcrAsked(j, b) == tasks[j].batches[b].at = "asking" /\ BatchGoes(j, b, "streaming")

OcrAnswered(j, b) ==
    /\ tasks[j].batches[b].at = "streaming"
    /\ \E text \in {"fulfilled", "empty"} : BatchGoes(j, b, text)

\* No node, no chat, an error of the stream or the time-out: retryAsync waits
\* and asks again, or gives up.
OcrFails(j, b) ==
    /\ tasks[j].batches[b].at \in {"asking", "streaming"}
    /\ BatchGoes(j, b, IF tasks[j].batches[b].attempt < MaxOcrRetries THEN "backoff" ELSE "rejected")

RetryOcr(j, b) ==
    /\ tasks[j].batches[b].at = "backoff"
    /\ tasks' = [tasks EXCEPT ![j].batches[b] = [at |-> "asking", attempt |-> @.attempt + 1]]
    /\ UNCHANGED <<dialog, jobs, wakeups, session, stored, picks>>

\* All batches have settled: what some of them gave is uploaded.
Extracted(j) ==
    LET results == {tasks[j].batches[b].at : b \in DOMAIN tasks[j].batches}
    IN  /\ tasks[j].at = "ocr" /\ results \subseteq {"fulfilled", "empty", "rejected"}
        /\ IF "fulfilled" \in results
           THEN jobs' = Updated(j, "uploading") /\ Goes(j, "upload")
           ELSE jobs' = Updated(j, "error") /\ Goes(j, "end")
        /\ UNCHANGED <<dialog, wakeups, session, stored, picks>>

\* The text of a file is read and cut into chunks.
TextRead(j) ==
    /\ tasks[j].at = "text"
    /\ jobs' = Updated(j, "uploading")
    /\ Goes(j, "upload")
    /\ UNCHANGED <<dialog, wakeups, session, stored, picks>>

\* uploadFiles has the bytes and calls the canister that it took, with the identity
\* that the client holds by then.  A canister refuses any identity but its owner's,
\* which is ProcessFails.
BytesRead(j) ==
    /\ tasks[j].at = "upload" /\ tasks[j].owner \in {0, SignedIn}
    /\ IF tasks[j].owner = 0
       THEN jobs' = Updated(j, "complete") /\ Goes(j, "end")
       ELSE UNCHANGED jobs /\ tasks' = [tasks EXCEPT ![j].at = "sent"]
    /\ UNCHANGED <<dialog, wakeups, session, stored, picks>>

StoresFile(j) == stored' = [stored EXCEPT ![j] = Append(@, tasks[j].owner)]

\* The canister has stored the file.
Uploaded(j) ==
    /\ tasks[j].at = "sent"
    /\ StoresFile(j)
    /\ jobs' = Updated(j, "complete")
    /\ Goes(j, "end")
    /\ UNCHANGED <<dialog, wakeups, session, picks>>

\* Mutant of ProcessFails: the error of uploadFiles does not reach processFile.
ProcessFailsSilently(j) ==
    /\ tasks[j].at \in {"convert", "text", "upload", "sent"}
    /\ jobs' = Updated(j, IF tasks[j].at \in {"upload", "sent"} THEN "complete" ELSE "error")
    /\ Goes(j, "end")
    /\ UNCHANGED <<dialog, wakeups, session, stored, picks>>

\* Converting, reading or storing the file fails; a call that fails may have stored
\* it nevertheless.
ProcessFails(j) ==
    /\ tasks[j].at \in {"convert", "text", "upload", "sent"}
    /\ UNCHANGED stored \/ (tasks[j].at = "sent" /\ StoresFile(j))
    /\ jobs' = Updated(j, "error")
    /\ Goes(j, "end")
    /\ UNCHANGED <<dialog, wakeups, session, picks>>

-----------------------------------------------------------------------------
\* dismissJob, from the lists of uploads.
DismissJob(j) ==
    /\ jobs[j].status \in {"complete", "error"}
    /\ jobs' = [jobs EXCEPT ![j].status = "gone", ![j].blob = FALSE]
    /\ UNCHANGED <<dialog, tasks, wakeups, session, stored, picks>>

\* logout resets the file store; tasks, timers and blobs stay.
SignOut ==
    /\ session.open /\ session.id < MaxSessions
    /\ session' = [session EXCEPT !.open = FALSE]
    /\ jobs' = [j \in DOMAIN jobs |-> [jobs[j] EXCEPT !.status = "gone"]]
    /\ dialog' = [dialog EXCEPT !.open = FALSE]
    /\ UNCHANGED <<tasks, wakeups, stored, picks>>

SignIn ==
    /\ ~session.open
    /\ session' = [id |-> session.id + 1, open |-> TRUE]
    /\ UNCHANGED <<dialog, jobs, tasks, wakeups, stored, picks>>

-----------------------------------------------------------------------------
TaskStep(j) ==
    \/ FinishJob(j) \/ Extracted(j) \/ TextRead(j) \/ BytesRead(j) \/ Uploaded(j) \/ ProcessFails(j)
    \/ \E n \in 0..MaxBatches : Converted(j, n)
    \/ \E b \in DOMAIN tasks[j].batches :
         OcrAsked(j, b) \/ OcrAnswered(j, b) \/ OcrFails(j, b) \/ RetryOcr(j, b)

UploadsUser ==
    \/ \E k \in Kinds : SelectFiles(k)
    \/ \E i \in 1..MaxPicks : RemoveFile(i)
    \/ \E model \in BOOLEAN : Upload(model)
    \/ \E j \in DOMAIN jobs : DismissJob(j)
    \/ CloseDialog \/ OpenDialog \/ SignOut \/ SignIn

UploadsNext ==
    \/ UploadsUser \/ FilesStaged \/ ResetTimer \/ QueueTimer
    \/ \E j \in DOMAIN jobs : TaskStep(j)

\* Timers fire, calls return, and OCR requests end or time out.
UploadsFairness ==
    /\ WF_uploadVars(QueueTimer)
    /\ \A j \in JobIds : WF_uploadVars(j \in DOMAIN jobs /\ TaskStep(j))

UploadsSpec == UploadsInit /\ [][UploadsNext]_uploadVars /\ UploadsFairness

-----------------------------------------------------------------------------
\* A job on display says "complete" only if its file was stored, once, in the
\* canister of the user who chose it, and a queued job still has its blob.
CompleteIsStored ==
    \A j \in DOMAIN jobs :
        /\ jobs[j].status = "complete" => stored[j] = <<jobs[j].session>>
        /\ jobs[j].status = "queued" => jobs[j].blob /\ stored[j] = <<>> /\ tasks[j].at = "none"

\* A job that is queued is processed to its end, unless the user signs out.
UploadsEnd ==
    \A j \in JobIds : (j \in QueuedJobs) ~> (j \in DOMAIN jobs /\ jobs[j].status \in {"complete", "error", "gone"})

\* A file that a user chose is stored in that user's canister only: "Reset all
\* stores to clear any user-specific data" (logout).
FilesStayHome ==
    \A j \in DOMAIN jobs : \A i \in DOMAIN stored[j] : stored[j][i] = jobs[j].session
=============================================================================
