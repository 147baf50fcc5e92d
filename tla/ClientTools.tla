----------------------------- MODULE ClientTools -----------------------------
(***************************************************************************)
(* The tool calls of an answer, run by the browser client: runAndContinue- *)
(* FromTools (message/tool.ts) and the queue of searches that wait for the *)
(* index (queue.ts), composed with the file store.  One assistant message  *)
(* has a files_search call and perhaps a web_search call; a result is what *)
(* the files_search call gives.                                            *)
(***************************************************************************)
EXTENDS ClientFiles

CONSTANTS MaxRuns   \* bound: runs of the tools under way at a time

VARIABLES
    message,     \* the assistant message: its results, whether it asks for an action
    queued,      \* whether queuedToolCalls names the message
    processing,  \* isProcessingTools of the message
    current,     \* whether the message's chat is on display
    runs,        \* calls of runAndContinueFromTools that wait
    processed,   \* what the effect of processQueuedToolCalls saw last
    sent         \* the results that continuations carried

toolVars == <<message, queued, processing, current, runs, processed, sent>>

NoResult == "no result"
Placeholder == "the index is being updated"
Found == "what was found"
NothingToSearch == "no searchable file"

ToolsInit ==
    /\ FilesInit
    /\ \E web \in BOOLEAN :
         message = [results |-> NoResult, asks |-> TRUE, failed |-> FALSE, web |-> web]
    /\ queued = FALSE /\ processing = FALSE /\ current = TRUE
    /\ runs = {}
    /\ processed = [indexing |-> "idle", queued |-> FALSE]
    /\ sent = {}

-----------------------------------------------------------------------------
\* The index cannot be searched: it is stale, never built, or holds fewer files
\* than there are.
NeedsIndexing ==
    \/ fs.stale \/ fs.indexing = "idle"
    \/ Cardinality(fs.files \cap TextFiles) > Cardinality(fs.chunks)

\* The files_search call: its result, and whether it is queued.
FilesSearch ==
    IF fs.files \cap TextFiles = {} THEN [result |-> NothingToSearch, queue |-> FALSE]
    ELSE IF NeedsIndexing \/ fs.indexing = "in-progress"
    THEN [result |-> Placeholder, queue |-> TRUE]
    ELSE [result |-> Found, queue |-> FALSE]

\* A run: whether it found results, the result of the search, where it waits.
Runs == [id : 1..MaxRuns, had : BOOLEAN, result : {Placeholder, Found, NothingToSearch},
         at : {"web", "search", "store", "continue"}]

FreeRuns == {i \in 1..MaxRuns : \A r \in runs : r.id # i}

\* runAndContinueFromTools up to its first await: a result that is there is
\* taken, otherwise the search is made.
StartRun(stillQueued) ==
    \E i \in FreeRuns :
      LET had == message.results # NoResult
          search == FilesSearch
      IN  /\ \A k \in FreeRuns : i <= k
          /\ processing' = TRUE
          /\ queued' = (stillQueued \/ (~had /\ search.queue))
          /\ runs' = runs \cup {[id |-> i, had |-> had,
                                 result |-> IF had THEN message.results ELSE search.result,
                                 at |-> IF message.web /\ ~had THEN "web" ELSE "search"]}

\* The button of ToolCallDisplay and ToolActionBar.
RunTools ==
    /\ message.asks /\ ~processing /\ current
    /\ StartRun(queued)
    /\ UNCHANGED <<message, current, processed, sent>>

Waits(r, at) == r \in runs /\ r.at = at
RunGoes(r, at) == runs' = (runs \ {r}) \cup {[r EXCEPT !.at = at]}
Ends(r) == runs' = runs \ {r} /\ processing' = FALSE

\* web_search: a temporary chat, its stream, its time-out; whatever happens,
\* the call has a result.
WebSearchEnds(r) ==
    /\ Waits(r, "web")
    /\ RunGoes(r, "search")
    /\ UNCHANGED <<message, queued, processing, current, processed, sent>>

\* The results are put into the message, and the run goes on, unless the search
\* is queued.
Updates(r) ==
    /\ message' = [message EXCEPT !.results = r.result, !.asks = FALSE]
    /\ IF queued THEN Ends(r) ELSE RunGoes(r, "continue") /\ UNCHANGED processing

\* Every call has a result: they are stored unless they were there.
ToolsEnd(r) ==
    /\ Waits(r, "search")
    /\ IF r.had THEN Updates(r) ELSE RunGoes(r, "store") /\ UNCHANGED <<message, processing>>
    /\ UNCHANGED <<queued, current, processed, sent>>

StoreToolResults(r) ==
    /\ Waits(r, "store")
    /\ Updates(r)
    /\ UNCHANGED <<queued, current, processed, sent>>

\* The continuation is accepted by the canister, and its stream is opened.
ContinueFromTools(r) ==
    /\ Waits(r, "continue")
    /\ sent' = sent \cup {r.result}
    /\ Ends(r)
    /\ UNCHANGED <<message, queued, current, processed>>

\* Mutant of RunFails: the finally is missing.
RunFailsProcessing(r) ==
    /\ r \in runs /\ r.at \in {"store", "continue"}
    /\ message' = [message EXCEPT !.asks = FALSE, !.failed = TRUE]
    /\ runs' = runs \ {r}
    /\ UNCHANGED <<queued, processing, current, processed, sent>>

\* The catch: storing or continuing fails.
RunFails(r) ==
    /\ r \in runs /\ r.at \in {"store", "continue"}
    /\ message' = [message EXCEPT !.asks = FALSE, !.failed = TRUE]
    /\ Ends(r)
    /\ UNCHANGED <<queued, current, processed, sent>>

-----------------------------------------------------------------------------
ToolsSeen == [indexing |-> fs.indexing, queued |-> queued]

\* processQueuedToolCalls, by the effect on indexingStatus and queuedToolCalls.
\* A call that is queued again by its run makes a new queue, and the effect runs
\* once more (here, unless MaxRuns runs are under way).
ProcessQueuedToolCalls ==
    /\ Settled /\ processed # ToolsSeen
    /\ IF ~queued \/ ~current \/ fs.indexing \notin {"complete", "error"}
             \/ (fs.indexing = "complete" /\ FreeRuns = {})
       THEN processed' = ToolsSeen /\ UNCHANGED <<message, queued, processing, runs>>
       ELSE /\ processed' = [ToolsSeen EXCEPT !.queued = FALSE]
            /\ IF fs.indexing = "complete"
               THEN StartRun(FALSE) /\ UNCHANGED message
               ELSE /\ queued' = FALSE
                    /\ message' = [message EXCEPT !.failed = TRUE]
                    /\ processing' = FALSE
                    /\ UNCHANGED runs
    /\ UNCHANGED <<current, sent>>

\* The user opens another chat, or comes back.
SwitchChat ==
    /\ current' = ~current
    /\ UNCHANGED <<message, queued, processing, runs, processed, sent>>

RunStep(r) ==
    WebSearchEnds(r) \/ ToolsEnd(r) \/ StoreToolResults(r) \/ ContinueFromTools(r) \/ RunFails(r)

EffectsDone == Settled /\ processed = ToolsSeen

ToolsNext ==
    \/ EffectsDone /\ FilesNext /\ UNCHANGED toolVars
    \/ ~Settled /\ Render /\ UNCHANGED toolVars
    \/ ProcessQueuedToolCalls /\ UNCHANGED fileVars
    \/ EffectsDone /\ (\E r \in runs : RunStep(r)) /\ UNCHANGED fileVars
    \/ /\ EffectsDone /\ edits < MaxEdits /\ edits' = edits + 1
       /\ RunTools \/ SwitchChat
       /\ UNCHANGED <<remote, fs, works, rendered, builds>>

\* Calls return, streams end or time out, and React renders.
ToolsFairness ==
    /\ WF_<<fileVars, toolVars>>(~Settled /\ Render /\ UNCHANGED toolVars)
    /\ WF_<<fileVars, toolVars>>(ProcessQueuedToolCalls /\ UNCHANGED fileVars)
    /\ WF_<<fileVars, toolVars>>(EffectsDone /\ (\E w \in works : FileReply(w))
                                   /\ UNCHANGED <<rendered, edits, toolVars>>)
    /\ \A i \in 1..MaxRuns :
         WF_<<fileVars, toolVars>>(EffectsDone /\ (\E r \in runs : r.id = i /\ RunStep(r))
                                     /\ UNCHANGED fileVars)

ToolsSpec == ToolsInit /\ [][ToolsNext]_<<fileVars, toolVars>> /\ ToolsFairness

-----------------------------------------------------------------------------
\* isProcessingTools is lowered again: a run of the tools ends whichever of its
\* calls fails, and whatever the queue, the index and other runs of the same
\* message do meanwhile.  The flag disables the button of the tools.
ToolRunsEnd == processing ~> ~processing
=============================================================================
