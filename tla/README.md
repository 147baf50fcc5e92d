# A TLA+ model of the onecompany/gpt system

The repository implements a chat service whose storage and coordination run in
canisters of the Internet Computer and whose language models run in attested
virtual machines. This directory holds TLA+ models of its core logic, TLC
configurations that check them, and TLAPS proofs of most of the safety properties
that TLC checks.

## Inventory of the system

| Part | Source | State | Operations | Talks to |
|---|---|---|---|---|
| User canister | `src/gpt_user` | owner; chats, messages, jobs; folders and files; caches of nodes and models; id counters, all in stable memory | the owner's chat, message and file calls; the nodes' `claim_job`, `complete_job`, `node_get_message`; `finalize`; timers (sync, time-out, clean-up) | calls the index canister; is called by the owner's browser and by nodes |
| Index canister | `src/gpt_index` | users and their canister; the pool of canisters, each available or assigned with an optional expiry; heap maps of the available ones, the trial expiries and the pending users; nodes with the index principal -> node, models, measurements, policies, managers | `register_user`, `confirm_registration`; node creation, registration, attestation, heartbeat, deactivation; model and governance calls; timers (garbage collection, pool replenishment, liveness) | the management canister; user canisters call it |
| Node | `src/gpt_node` | lifecycle state (ready, draining), active streams, keys, the model client | websocket sessions, the job processor (claim, stream, complete), heartbeat, drain and shutdown, bootstrap and attestation | user canisters, index canister, the model server, browsers |
| Host | `src/gpt_host` | the configured and the running virtual machine | commands to provision, start and diagnose a node's machine | operating system |
| Front end: chats | `src/gpt_frontend/src/store/chatStore`, `hooks`, `components/chat` | messages, flags (generating, typing, waiting), active jobs and sockets per chat; leaf on display | send, edit, retry, tools, titles; packets, closes, reconnections, fetches | user canister, nodes |
| Front end: files | `store/fileStore`, `store/embeddingStore.ts`, `services`, `components/files` | folders, files, search index and whether it is stale, upload jobs | navigation, edits, uploads with OCR, indexing, search | user canister |
| Front end: session | `store/authStore`, `app/providers.tsx` | status, canister, root key; key cached in the tab | start-up, sign-in, registration, vault, sign-out | index and user canister |
| Front end: settings | `store/governanceStore.ts`, `store/modelsStore.ts`, `components/settings` | policies, models, nodes, loading flags, the import of nodes | the managers' and owners' calls | index canister |
| Front end: boundary | `utils/candidAdapter.ts`, `utils/mappers.ts`, `utils/resultUtils.ts`, `services/api` | none | conversion of what is sent and of what is answered | canisters |
| Shared types | `src/gpt_types` | none | request, response and domain records | |
| Measurement tool, VM scripts | `src/gpt_measurement`, `src/gpt_vm` | none | build-time computation of a launch measurement | |

What is hard here:

* **Concurrency.** A canister runs one message at a time, but a handler is cut
  at every `await`; the registration of a user, the garbage collection and the
  timer tasks all hold values read before an `await` and use them after it.
  Nodes, the owner and timers act on the same chat in any order.
* **Failure.** A node may crash after claiming a job, repeat a call or answer
  after its job has timed out. A call to the management canister or the index
  may be rejected in the middle of a sequence.
* **Time.** Jobs, chats, pending registrations, trial canisters and node
  sessions all expire, and the expiry races with the operation that would have
  made it unnecessary.
* **Stale caches.** The user canister decides with copies of the index's nodes
  and models that are up to a timer period old.
* **One thread, many waits.** The front end runs to the next `await`, and then
  any packet, reply, timer or rendered effect may come first: replies overtake
  packets, lists overtake each other, and all of them cross a sign-out.

What makes each part correct:

* *Chats and jobs*: one generation per chat; the lock of a chat always has a
  live job and is always released; a finished job is final; deletions take
  exactly what belongs to the chat; the context given to a node is stable.
* *File system*: a tree under one root, names of folders unique within a folder,
  limits respected, contents index, metadata and content in step.
* *Registration and canister pool*: no canister has two users, an active user
  keeps the canister, no canister is lost, and whatever may expire is found by the
  collection.
* *Node registry*: a principal resolves to the one node it is registered for,
  and only while that node is not inactive.
* *Node*: one task per job, whoever asks; every claimed job is answered on every
  error path; no stream is left behind; all work ends, and so does a shutdown.
* *Chats in the client*: what is shown is never taken back by something older;
  an answer that arrived is not called broken; no socket that is gone blocks a
  reconnection; the branch on display is what the node is given.
* *Files in the client*: an upload called complete is stored, every upload ends
  and none changes its owner; the index is rebuilt when it has become stale; a
  tool that waits for it is continued.
* *Session*: start-up ends; the key of a session is the key of the vault.
* *Boundary*: a value means the same on both sides.

## Modules

| Module | What it is |
|---|---|
| `Arrays` | `filter` and `sort` of JavaScript's arrays (external), by the places they keep. |
| `StableMap` | `insert` and `remove` of the stable maps (an external library). |
| `ChatJobs` | Chats, messages and jobs of one user canister, its timers, and the nodes' calls. |
| `GenerationLock` | What `ChatJobs` promises: one generation at a time per chat. `ChatJobs` implements it. |
| `UserFileSystem` | Folders and files of one user canister. |
| `Registration` | Users and the canister pool of the index, the management canister, and `finalize_registration` of the user canisters: a composition of three parts. |
| `NodeRegistry` | Nodes, measurements and models of the index, with its heap indexes and its liveness timer. |
| `NodeJobs` | One node process: connections, the tasks that run jobs, streams, permits, drain and shutdown, with the status of its jobs in the user canisters. |
| `ClientChat` | The chat store: sending, streams, reconnections, fetches, lists. |
| `ClientBranches` | The tree of messages in the client and in the canister, and the branch on display. |
| `ClientTitles` | The automatic title of a new chat, against renames and deletions of the user. |
| `ClientComposer` | Models, nodes, limits and tools: what a message is sent with. |
| `ClientUploads` | The upload dialog and the queue of file jobs. |
| `ClientFiles`, `ClientTools` | The file store with its search index; the runs of tools that wait for it (`ClientTools` extends `ClientFiles`: the composition is the point). |
| `ClientSearch` | The text search and the delayed search of a file. |
| `ClientSession` | Sign-in, registration, vault, sign-out and the first fetches. |
| `ClientSettings` | Governance, models, nodes, and the import of nodes. |
| `ClientCodec` | What the adapter, the API and the mappers make of values. |
| `ChatJobsProofs`, `UserFileSystemProofs`, `RegistrationProofs`, `NodeRegistryProofs`, `NodeJobsProofs`, `ClientChatProofs` | TLAPS proofs about the module of that name. |
| `ClientPagesProofs` | Proofs about `ClientTools` with `ClientFiles`, `ClientSettings`, `ClientUploads` and `ClientComposer`. |
| `ClientReadingProofs` | Proofs about `ClientSearch` and `ClientBranches`, and about the `filter` and `sort` of `Arrays` that they share. |
| `MCChatJobs`, `MCRegistration`, `MCNodeRegistry`, `MCNodeJobs`, `MCClientChat`, `MCClientUploads`, `MCClientPages` | The instances TLC checks; one `.cfg` file per run. |

A comment "Mutant of D" marks an operator that is no part of the model: it is
D with a plausible mistake, kept to show that the property aimed at that
mistake does fail when D is replaced by it. `PROJECT.json` says which source
lines each definition stands for and which mutant goes with which property.

### How the models correspond to the code

*General.* A canister executes one message at a time, so a handler without an
`await` is one action; a handler is cut at each `await`, and anything may
happen in between. A request the code rejects changes nothing and has no
action: its conditions are the guards. `storage.rs` keeps stable maps; a map is
a function whose domain is the set of stored keys.

*ChatJobs.* The variables are the stable maps `CHATS`, `MESSAGES`, `CHAT_JOBS`,
`NODES`, `MODELS` and the counters of `CONFIG`. A message keeps its chat,
parent, role, error status and whether an answer or a tool call has been
written; texts, keys and usage figures are left out, because no branch looks at
them. A timestamp is kept as an age that stops growing once it is past all the
limits it is compared with. `sync` says at which `await` a timer task is:
`PeriodicTimer` starts it, `SyncNodes` and `SyncModels` are the two
continuations, the second with the time-out of jobs and the clean-up of chats,
which run in the same message. What the index answers is any set of nodes and
models: the cache may be arbitrarily stale. `claimed` is a history variable
with what `claim_job` replied. Nodes may claim and complete, in any order,
repeatedly, late or never.

*UserFileSystem.* The five stable maps and the root id in `CONFIG`. A name is
the text it has when trimmed, and whether the request padded it with blanks:
exactly what distinguishes the code's comparison (as sent) from its storage
(trimmed). `ResolvePath` is `get_item_by_path`. `Spec` has every request a client
can send, `ClientSpec` those of the front end: it trims the names of folders and
the new names of items, and uploads a file under the name that it has.

*Registration.* An operation of the index under way is a frame in `ops` with
its place and the locals it holds across an `await`. `register_user`, a tick of
the garbage collection and the replenishment of the pool are sequences of such
steps. The management canister is external: a call is carried out or fails, and
the continuation of the caller is a later step; calls to different canisters
may be carried out in any order (the counterexamples below do not need two
calls to one canister to be reordered). `finalizing` is the `finalize_registration`
each user has under way, with its two calls to the index; removing the code of
a canister abandons it. Managers obtain their role at any moment. `Upgrade`
rebuilds the heap maps as `post_upgrade_handler` does; it comes when no
operation of the index is under way, because a canister is stopped, and its
outstanding calls answered, before it is upgraded.

*NodeRegistry.* Whether the attestation evidence is acceptable is an input of
`RegisterNode`, the rest of the checks is modelled; the time since the last
heartbeat is an age. `Upgrade` rebuilds the two heap indexes from the stable
map, iterating in its order.

*NodeJobs.* Every connection (`handle_socket_connection`) and every task
(`spawn_ai_processing_task`) has a place, `pc`, between two `await`s. `streams`
is `job_streams`; a channel is named after whoever created it, so that a stream
removed and created again under the same key is another channel. Each receiver
has a flag for the last message, and a channel is closed when neither the map
nor a task has a sender of it. An embedding task takes a second permit and a
second sender. A call to a user canister takes effect or not and is answered or
not; one that the canister refuses because it has dropped the node from its
cache takes no effect. The commands a heartbeat may bring, Continue,
DrainAndShutdown and Abort, come in any order: `NodeRegistry` says when. The
wait for streams at the end has a time limit, so `WaitAndExit` may come in any
state. `unanswered` is a history variable: jobs in progress whose completion was
lost or refused.

*The client modules.* JavaScript has one thread, so an action is what runs
between two `await`s, and an async function that waits is a record in a set
(`ops`, `works`, `runs`, `calls`, `pending`) with its place and its locals. A
canister executes a call and its reply arrives in two steps wherever something
can happen in between. A call that changes a canister may fail with or without
having been executed; one that only reads may fail.
React renders a changed store before the next event is handled: `rendered`,
`shown`, `processed` and `changed` hold what the effects saw last, and nothing
but effects happens while they differ. Bounds on what the user does are named
`Max...` in the modules.

*ClientChat.* A text is `Empty`, `Part` or `Full`. A socket keeps what the node
has sent and whether its handlers, frame and decryption are due; `given` names
the chats whose flags were left up by a send that threw before its `try`.

*ClientBranches.* `there` is the canister's list of messages, `here` the Map of
the client, both with parents, roles and times; the operators are
`messageTree.ts` and `ChatPage.tsx`, the canister's side is `ChatJobs` reduced
to what an edit, a retry and a tool answer do to the tree.

*ClientTitles.* One chat and its temporary chat. A title is told apart by who
gave it.

*ClientComposer.* Tokens in units of 1024. The effects of `HomeClient` and of
`providers.tsx` are one rendering, since React runs them in one.

*ClientUploads.* A job has a task with its stage; `stored` says whose canister
received what. `uploadFiles` takes client and canister of the auth store when it
is called, so a task that enters the stage "upload" takes its `owner` then, and a
sign-out after that changes nothing. OCR batches run concurrently and are retried.

*ClientFiles and ClientTools.* `works` are the async functions of the file
store; an index is a set of files with the flags `indexing` and `stale`. A tool
run finds the index ready, or leaves its call in the queue that an effect
examines.

*ClientSearch.* Texts over letters, ideographs, marks and blanks; a score is
kept as positive or not, because each shared term adds a positive amount.

*ClientSession.* Data is abstracted to the user it belongs to, a key to its user
and the salt that it was derived with: `vaults` has the key whose salt and
validator a canister stores. A set-up that finds them there stores nothing and is
answered with success. `finalize_registration` requires salt and validator and the
canister keeps them as long as the owner, so the branch of `registration.ts` for an
account without a vault (`hasVault` false) is not taken once a canister is
finalized; the model has the branch of a canister that is not.

*ClientSettings.* Store actions under way in `pending`; a row of an import is
known by what it would create. `created` counts the nodes that a row has got by
calls that were answered, `lost` those of calls that were executed and failed for
the client.

*ClientCodec.* A value has a kind (text, number, 64 bits, bytes, list, record)
and one of the contents that a branch of the code tells apart (absent, empty,
zero, something). For each call and field one behaviour of two states: what the
caller means, and what arrives. The other direction is the same for each mapper.
A successful answer with an empty text is left out of `StoredMessages`: the
mapper reads it as incomplete (see below). A maker is in small letters or in
capitals, and one price is changed by a unit when a form divides and multiplies it.

## Runs

Passing runs:

| Run | Question | Bounds |
|---|---|---|
| `chat_lifecycle` | Do locks, jobs, lists and deletions stay consistent when owner, nodes, timers and clock interleave, is the abstract lock implemented, and does every generation end, whatever nodes do? | 2 chats, 4 messages, 2 jobs, one timer task, a node that may return under another principal: a late answer to a timed-out job while the chat, or another one, has its next generation |
| `chat_edits` | Do edits, retries and tool answers keep the message trees apart and leave a running generation's context alone? | 2 chats, 5 messages, 3 jobs: an edit, a retry and a tool answer on the results of one another |
| `registration` | Are canisters kept, correctly bound and never offered while in use, and is whatever may expire tracked, when operations of the index do not overlap? | 2 users, 2 canisters, finalizations and upgrades in between; the limits 0 and 2 of 3 clock values |
| `registry_sessions` | Are sessions whole, both indexes exact, and sessions never taken over? Does a node on a revoked measurement stop? | 2 nodes, 2 principals, 2 measurements, 2 chips, 2 owners |
| `node_jobs` | Is there one task per job, is no claimed job forgotten and no stream left behind, and do all work and every shutdown end? | 2 connections, for the same job or for two, lost calls, an error at every step, chat and embedding models, 3 permits |
| `client_stream` | Does anything older take back what is shown, does a dead socket block a reconnection, is a chat shown as being made without a call? Composer: is readiness true, do requests fit? | 1 chat, with and without tool calls, in two scenes: 2 generations over 1 socket with 1 thing the user does, or 1 generation over 2 sockets in turn with 2 things the user does; 2 models, one of them without output, 2 nodes, 1 tool |
| `client_uploads` | File system: do index, tree, limits and path lookup agree, as the front end uses them? Uploads: is what is complete stored, does every job end? Titles: does the search for a title end, and what is left behind? Search: is what should be found found? Branches: does the branch read, is it the context, is each version reached? | 4 live folders of 5 ids, 2 live files of 3, depth 3, 2 items per folder: every limit is reached, and ids outlive deletions; 2 uploads, 1 job at a time, 1 OCR batch with a retry, 2 sessions; 2 polls, 2 renames; queries and chunks of up to 2 characters of 4 kinds; 8 message ids |
| `client_pages` | Files and tools: is the index maintained, do tool runs end? Session: does start-up end? Settings: does loading mean work, is a node created once? Boundary: do values survive? | 2 files, 2 folders, 2 edits, 2 tool runs; 2 users, 2 visits, 1 PIN chosen; 2 presets, 2 import rows, 2 store actions; every call and field |

`MCClientUploads` and `MCClientPages` are sums: a behaviour is one of one part,
chosen in the first state, while the others rest. The parts share no state, so a
product would only multiply interleavings that cannot differ; where parts do
interact (files with tools, sockets with fetches, dialog with queue, lists with
effects) they are one part. `MCClientChat` chooses a scene the same way: the
composer, or one of two of the chat, each with one of its bounds relaxed. `TreeIsSound`, `PoolIsSound`, `TasksAreSound`,
`RegistryIsWhole` and `HistoryIsSound` are conjunctions of invariants that are
defined, and explained, one by one in their modules.

Ids are handed out by counters, so a run is bounded by how many ids there are;
every kind of record is created at least twice, which is what interference
between two chats, users, canisters or nodes takes. Deadlock is checked except
for the node, which exits, and for the client with the file system, where nothing
may be left to do. In `node_jobs` jobs are
interchangeable, so `Requests` lets the first connection ask for the first job
only. It has more permits than tasks: an embedding task keeps its permit while it
waits for a second, so with as many such tasks as permits they would wait for
each other and `WorkEnds` would fail. The default is 100000 permits.

Each of the other runs checks one statement of the repository that the code
does not keep (`findings` in `PROJECT.json` quotes it):

| Run | What TLC shows |
|---|---|
| `registration_double_return` | `register_user` and the garbage collection both wait for `uninstall_code` of one expired registration; the second continuation offers the canister after it has been given away, and two users share it. |
| `client_final` | `receivedFinalMessage` is set after the decryption of a packet has been awaited; a close event in between finds it unset, and a complete answer is shown as a broken connection. |
| `client_crossing` | A file job that waits at sign-out, for the text of its file or for OCR, is not stopped. If the next user has signed in when it calls `uploadFiles`, it stores the file in that user's canister. |
| `client_vault` | The reply to a set-up of the vault is lost after the canister has stored salt and validator. The user tries again, with a new salt; the canister answers success and stores nothing, and the session encrypts with a key that no later unlock will derive. |

`registration` is restricted to one index operation at a time because the parts
of `PoolIsSound` fail as soon as expired registrations overlap, as
`registration_double_return` shows. `ExpiriesAreTracked` does not need that:
`RegistrationProofs` proves it for operations that overlap in any way.

### Known disagreements that have no run

Met while modelling; the models have the steps, or say that they leave them out.

* User canister: `delete_item` tests the root for id 0 and name "root", but the
  root has id 1 and name "Home", so an empty root is deleted. The collision check
  compares a name as sent, the store keeps it trimmed: two files of a folder get
  one name if one is uploaded with a blank at its end, and a path finds the first.
* Index canister: the collection drops a user who confirms while it waits for
  another user's canister; a principal that becomes a manager while
  `register_user` waits, or by `add_manager`, keeps a canister that expires. Two
  overlapping registrations of one user who claims the manager role between them
  take two canisters, and one of them belongs to nobody and never expires.
* Chat store: a send that throws before its `try` leaves its flags up; a packet
  handled after the close raises flags again; the cooldown of a reconnection
  leaves them; an old list or fetch clears those of a running job; the late
  reply to a send replaces an answer already fetched by an empty message; a fetch
  that cannot decrypt an answer replaces the one that is shown by "[Decryption
  Failed]".
* Titles: the temporary chat stays when the user has renamed the chat (the
  function returns before its clean-up) or when a call fails; a rename under way
  or an older list makes the automatic title replace the user's.
* Composer: tools and attachments chosen for one model are sent with another
  that takes fewer; readiness ignores the black list; a paused model stays
  selected. The preset of the embedding model has the output limit 0, and the
  sliders raise it to their minimum: a request may ask for more than the model has.
* Files: every fetch of a folder sets "hydrating" and only the first one sets
  "hydrated", so folders are not fetched again once one of them was; a failed
  build of a stale index is not repeated.
* Uploads: "chunking" is not counted against the limit of jobs; a PDF with a
  rejected OCR batch is uploaded without those pages; the overlap of chunks has no
  effect (`Math.max(endChar, endChar - overlap)`).
* Session: `initAuth` reports a text that the retry does not recognise;
  `isFatal` does not hide the retry; fetches under way at sign-out fill the
  stores again.
* Settings: forms send a whole copy that may be stale; the model form sends an
  empty description, activates a paused model and drops its score and date. A row of
  an import whose reply was lost counts as failed, and its retry creates a second
  node: `create_node` does not look for one.
* Boundary: a successful answer with an empty text is read as incomplete for
  ever; the table of error codes calls IC0207 fatal and IC0101 not, against the
  comments over its sections. The mapper of models writes the maker in small
  letters, and the form divides a price by a million and multiplies it again, so
  toggling or saving a model may rewrite a maker with capitals, and saving it may
  lose a unit of a price.
* Search: marks stay in pairs of characters, so a query with an ideograph may
  match a chunk by punctuation alone.

## Fairness

* `ChatJobs`: the clock runs, the interval timer of `timers/manager.rs` fires,
  and a call to the index is answered or rejected, which the platform
  guarantees for calls with an unbounded wait. Nothing is assumed of the owner
  or of nodes: `GenerationEnds` says that the time-out alone is enough.
* `NodeRegistry`: the clock and the liveness timer, started in `init` and after
  upgrades. Nothing is assumed of nodes or managers.
* `NodeJobs`: the runtime goes on with every handler and task and with the
  shutdown, calls to canisters and to the provider return (with a result or an
  error), and the semaphore serves tasks in order, hence strong fairness for a
  task. Nothing is assumed of clients: one that connects and never sends its
  request keeps its socket, and the shutdown does not wait for it.

* `ClientUploads`, `ClientTitles`, `ClientTools`, `ClientSession`: a call to a
  canister returns or fails (the agent gives up after its time limit), timers
  fire, and effects run after a rendering. Nothing is assumed of the user, of
  nodes or of the jobs of a canister: `TitlesEnd` holds although the temporary
  chat's job may run for ever, `ToolRunsEnd` and `StartupEnds` although every call
  may fail.

## Proofs

TLC checks the runs above on small instances; the theorems hold for every value
of the constants: any number of chats, users, nodes, files, sockets, retries or
overlapping calls. Each of them has a hierarchical proof that `tlapm` checks
(`PROJECT.json`, "theorems"). An inductive invariant was first checked by TLC.

| Theorem | States | Inductive invariant, and why it is needed |
|---|---|---|
| `ChatJobsProofs!TypeCorrect`, `LocksAgree`, `ListsExact`, `HistorySound` | `TypeOK`, `ActiveJobsAgree`, `ListsAreExact`, `HistoryIsSound` | `Good` with `Below`. A lock is kept only because ids below the counters alone are in use, a deletion leaves live jobs alone only because lists are exact, and a completion fills only its own placeholder because placeholders are unique and local. Stated over three maps instead of the variables, so that the stages of a timer run, time-out then deletion, are proved one after the other. |
| `ChatJobsProofs!FinishedStaysFinal`, `DeletionsAreDue` | `FinishedIsFinal`, `DeletionIsDue` | The same; one step per action. |
| `ChatJobsProofs!ImplementsLock` | `LocksGenerations` | The same. Starting, completing, timing out and deleting are steps of `GenerationLock`; every other step is a stutter. |
| `ChatJobsProofs!ContextStable` | `ContextIsStable` | The same with `ClaimsNoted`: what `claim_job` replied is the chain of parents now. The chain is a recursive function of the id; that it depends only on older messages of the chat is proved by the least counterexample. |
| `UserFileSystemProofs!IndexExact`, `LimitsKept`, `TreeSound` | `IndexIsExact`, `LimitsHold`, `TreeIsSound` | `Tree`: index and parent links are one relation, since an item is linked only under a stored folder and a folder is deleted only when it lists nothing; one root, made first. Limits (with cardinalities of the maps and the walk to the root) are inductive on top of it, for any request. `TreeSound` is about `ClientSpec`: that folders have different names needs that the front end trims them, and that paths resolve follows, whatever files are uploaded. |
| `RegistrationProofs!TypeCorrect`, `ExpiriesTracked` | `TypeOK`, `ExpiriesAreTracked` | Both for any number of operations at once. `Typed`: what a frame holds at each of its places. `Tracked`: between its calls a tick has in its list what it has taken out of the heap map, and a canister that may expire is in its map with its time, also while another operation holds it across an `await`. |
| `NodeRegistryProofs!TypeCorrect`, `IndexesAreExact`, `RegistryWhole`, `NoTakeoverHolds` | `TypeOK`, `PrincipalIndexIsExact`, `RegistryIsWhole`, `NoTakeover` | `Inv`. Removing the principals of deactivated nodes leaves exactly the serving ones only if no two nodes share a principal, which is exactness before the step; the index rebuilt by an upgrade has one entry per principal for the same reason. |
| `NodeJobsProofs!TasksSound`, `ClaimsAnswered` | `TasksAreSound`, `ClaimsAreAnswered` | `Sound`: `Typed`; `Accounts`, who has claimed, created and handed over which stream, at every place of a handler; `PermitsHeld`, the permits taken are those of the tasks. One handler creates the stream of a job, only it starts a task, and a task is what removes the stream. |
| `ClientChatProofs!DeadSocketsForgotten`, `NewChatAskedFor`, `AnswersStay` | `DeadSocketsAreForgotten`, `NewChatIsAskedFor`, `AnswersAreKept` | `Sound`: an entry of `webSockets` is a live socket of its job, a socket's handlers and a reconnection name the job that they were made for, and the flags of a new chat have their send. `AnswersStay` needs what a fetch can bring: answers of begun jobs, complete or empty. |
| `ClientPagesProofs!CompleteStored` | `CompleteIsStored` | `UploadsTyped`, `JobsAreSound`: for each place of a task what is stored and what the job says. |
| `ClientPagesProofs!ReadinessTrue`, `RequestsFitModel` | `ReadinessIsTrue`, `RequestsFit` | `ComposerTyped`, `CountsAreFresh`: the counts that the effects computed are those of the lists they saw last. A request keeps to the limits of its model, or to the minimum of a slider where the model allows less than that. |
| `ClientPagesProofs!IndexMaintained` | `IndexIsMaintained` | `FilesSound`: the mark of a build, the builds that wait for their timer and the works under way account for one another. |
| `ClientPagesProofs!SpinnersMeanWork` | `LoadingMeansWork` | `AllBusy`: for each flag an action that will clear it. The property's own witness is too weak: a restore that awaits its last fetch has cleared the governance flag already, and an action of a component that is gone clears nothing, so the witness must belong to this instance (`own`). |
| `ClientPagesProofs!NodesCreatedOnce` | `CreatedOnce` | `ImportsSound`: a loop of `handleProcessImport` owns the rows it has found, none of them created but the one whose lists it awaits; there is one loop per review; a row that a retry would take is not created, and while a loop works for the review that is shown there is no retry. A call whose reply is lost is counted apart: the theorem says that once a call of a row was answered, no later one creates another node. |
| `ClientReadingProofs!SearchesFind` | `SearchFinds` | `SearchSound`: unless a timer runs, the results are those of the query and the chunks on display. That these are what the property says needs what a token is: it is cut at blanks and marks, so a common word is a common token, and squeezing the blanks out keeps every ideograph. |
| `ClientReadingProofs!TreesAlwaysSound` | (`TreesSound`) | Inductive. Both sides are trees whose ids grow with time (`TreesMatch`); each message of the canister that is not a tool's is in the Map, below the same parent or with a tool message in between that only the canister has (`HangsAlike`); a tool message is in the Map only as the canister has it. |
| `ClientReadingProofs!BranchAlwaysReads`, `SiblingsAlwaysReached` | `BranchReads`, `SiblingsAreReached` | `TreesSound`: the Map is a tree and holds the leaf. What is shown is the chain of the leaf and what has the leaf on its chain (`ShownIs`, by the queue of `getSubtree`); no two messages of a chain have one parent; the leaf that `findNewestLeaf` names has the chosen version on its chain. |
| `ClientReadingProofs!ContextAlwaysShown` | `ContextIsShown` | `TreesSound`. The placeholder of the newest generation has the greatest id, so no message hangs below it and its chain is shown. Along the two chains, by induction over ids, the canister's without tool messages ends the client's, and stops early only below a message that an edit removed. |

*Assumptions.* The named `ASSUME`s of the modules: bounds and limits are natural
numbers (those of which code needs one are positive), the two kinds of timer
task are distinct, `None`, `NoModel`, `Nobody` and the key `"new"` name nothing
real, and the sets of nodes of the composer and of rows of an import file are
finite. No theorem has a hypothesis beyond these.

*Recursion.* No proof uses an induction theorem with an operator parameter, which
the provers cannot instantiate. Where a recursive function has to be unfolded for
every argument (`Ancestor`, `ResolvePath`, `MessageChain`, `Chain`), a lemma takes
the least counterexample: `WFMin` with `NatLessThanWellFounded` (`LeastNat`; as a
statement about a set of numbers, `AllNumbers`). That the functions of
`ClientBranches` satisfy their equations at all, `CHOOSE` being how TLA+ defines
them, is proved from functions that satisfy them up to a number (`WalkExists`
for the walks `Visits` and `Below`, `ChainStep` for `Chain`). The filter and the
sort of `Arrays` are not recursive: an element's place is the number of places
before it, and `InOrderLists` shows that this lists each place once, in order.

*Only model-checked.* The liveness properties, since the prover has no support
for fairness: `GenerationEnds`, `RevokedNodesStop`, `WorkEnds`, `ShutdownEnds`,
`UploadsEnd`, `TitlesEnd`, `ToolRunsEnd`, `StartupEnds`. `PoolIsSound`: it holds for
one operation of the index at a time, which the code does not ensure, so a theorem
about it would say nothing of the program. And `ValuesSurvive` and `ToggleKeepsModel`: the conversions of `ClientCodec` follow the structure of
types and values, as recursive operators, which the prover does not accept. The
module has no constants and its behaviours have one step, so what TLC visits is
all that the model says: there is no larger instance a proof would add.

## Not modelled

Cryptography and evidence collection; contents of files on the canister; queries
of the user canister; the virtual machine image and the build-time measurement;
the operating-system commands of the host tool. Of the front end: layout,
markdown, animation, the landing page, voice input, previews of attachments, and
the generated bindings (`candid/gpt_user.ts`, `candid/gpt_index.ts` and those of
the identity provider, which the client does not import); the declarations that
it does import are in `ClientCodec`. Embeddings are switched off in the code.

## Plan

1. *Done*: `ChatJobs` with its abstract lock, `UserFileSystem`, `Registration`,
   `NodeRegistry`, `NodeJobs`; the client in eleven modules; proofs of every safety
   property but `PoolIsSound` and those of `ClientCodec`.
2. Refinements to state: `ClientBranches`' canister as a part of `ChatJobs` (its
   chain is `MessageChain` of one chat), so that `ContextAlwaysShown` and
   `ContextStable` compose to what a node was given and the page shows.
3. `NodeDrain`: `NodeRegistry`'s draining status, the user canister's cache and
   `NodeJobs`' drain together. The question is whether a draining node can still
   complete what it has claimed: `list_active_nodes` leaves draining nodes out,
   the next synchronisation removes them from the cache, and
   `verify_node_by_caller` then refuses them.
4. `StreamAssembly` (`clients/ai_provider`): text and tool calls put together
   from a stream of fragments, trimming of the context to the model's budget,
   as functions checked against reference definitions.
5. `AttestationPolicy` (`gpt_index` `attestation.rs`, `gpt_node` `security`):
   version and policy comparison as operators, composed with `NodeRegistry`.
6. Host tool: the life cycle of the managed machine.
