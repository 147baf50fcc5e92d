----------------------------- MODULE ClientFiles -----------------------------
(***************************************************************************)
(* The file store of the browser client (gpt_frontend/src/store/fileStore) *)
(* : the folder tree as it is fetched and edited, the search index that is *)
(* built from it, and the effects of providers.tsx that start a build.  An *)
(* action is what runs between two awaits.  Every folder but Root is a     *)
(* child of Root; names and contents are left out.                         *)
(***************************************************************************)
EXTENDS Naturals, Sequences, FiniteSets

CONSTANTS Files, TextFiles,   \* files, and those that isTextMimeType accepts
          Folders, Root,      \* folders, the root one of them
          Nowhere,            \* where a file is that does not exist
          MaxEdits,           \* bound: what the user does
          MaxWorks            \* bound: calls under way at a time

VARIABLES
    remote,    \* the canister's folders and where its files are
    fs,        \* the zustand state
    works,     \* async functions that wait for a reply
    rendered,  \* what the effects of providers.tsx saw last
    builds,    \* timers that will call buildGlobalSearchIndex: 0 or 1
    edits      \* number of things the user did

fileVars == <<remote, fs, works, rendered, builds, edits>>

Unfetched == [known |-> FALSE, items |-> {}]
Fetched(items) == [known |-> TRUE, items |-> items]

Work(kind, folder, items) == [kind |-> kind, folder |-> folder, items |-> items, initial |-> FALSE]

\* The effect of providers.tsx has just asked for the root folder.
FilesInit ==
    /\ \E where \in [Files -> Folders \cup {Nowhere}] :
         remote = [files |-> where, folders |-> ({Root} \cup {where[f] : f \in Files}) \ {Nowhere}]
    /\ fs = [files |-> {}, folders |-> {}, contents |-> [d \in Folders |-> Unfetched],
             rootKnown |-> FALSE, current |-> Nowhere, history |-> <<>>, status |-> "loading",
             hydration |-> "hydrating", indexing |-> "idle", stale |-> FALSE, chunks |-> {}]
    /\ works = {[Work("fetch", Root, {}) EXCEPT !.initial = TRUE]}
    /\ rendered = [hydration |-> "idle", stale |-> FALSE]
    /\ builds = 0
    /\ edits = 0

-----------------------------------------------------------------------------
(* Reading folders.                                                         *)

\* fetchFolderContents up to its await; it returns at once while one is
\* marked as under way.
FetchFolderContents(st, ws, d) ==
    IF st.hydration = "hydrating"
    THEN fs' = st /\ works' = ws
    ELSE /\ fs' = [st EXCEPT !.status = "loading", !.hydration = "hydrating"]
         /\ works' = ws \cup {[Work("fetch", d, {}) EXCEPT !.initial = ~st.rootKnown]}

\* What get_folder_content answers.
Items(d) == {f \in Files : remote.files[f] = d} \cup IF d = Root THEN remote.folders \ {Root} ELSE {}

\* The reply: only the first one ends the hydration.
FetchReturns(w) ==
    /\ w.kind = "fetch" /\ w.folder \in remote.folders
    /\ LET d == w.folder
           items == Items(d)
       IN  fs' = [fs EXCEPT !.files = @ \cup (items \cap Files),
                            !.folders = @ \cup (items \cap Folders) \cup {d},
                            !.contents[d] = Fetched(items),
                            !.status = "idle",
                            !.rootKnown = @ \/ (w.initial /\ d = Root),
                            !.current = d,
                            !.history = IF w.initial \/ @ = <<>> THEN <<d>> ELSE @,
                            !.hydration = IF w.initial THEN "hydrated" ELSE @]
    /\ works' = works \ {w}
    /\ UNCHANGED <<remote, builds>>

FetchFails(w) ==
    /\ w.kind = "fetch"
    /\ fs' = [fs EXCEPT !.hydration = "idle", !.status = "error"]
    /\ works' = works \ {w}
    /\ UNCHANGED <<remote, builds>>

\* What the files page shows: the folder on display, unless there is an error.
OnDisplay(items) ==
    fs.rootKnown /\ fs.status # "error" /\ items \subseteq fs.contents[fs.current].items

\* navigateToFolder, from a click on a folder.
NavigateToFolder(d) ==
    /\ OnDisplay({d}) /\ d \in fs.folders
    /\ LET st == [fs EXCEPT !.current = d, !.history = Append(@, d)]
       IN  IF fs.contents[d].known THEN fs' = st /\ UNCHANGED works
           ELSE FetchFolderContents(st, works, d)
    /\ UNCHANGED <<remote, builds>>

\* navigateToHistoryIndex, and navigateBack, which calls it.
NavigateToHistoryIndex(i) ==
    /\ i \in 1..Len(fs.history) /\ i < Len(fs.history)
    /\ fs' = [fs EXCEPT !.current = fs.history[i], !.history = SubSeq(@, 1, i)]
    /\ UNCHANGED <<remote, works, builds>>

\* navigateToPath, when the address changes.
NavigateToPath(d) ==
    /\ fs.status # "loading"
    /\ fs' = [fs EXCEPT !.status = "loading"]
    /\ works' = works \cup {Work("path", d, {})}
    /\ UNCHANGED <<remote, builds>>

Opened(d, ws) ==
    FetchFolderContents([fs EXCEPT !.history = IF d = Root THEN <<Root>> ELSE <<Root, d>>], ws, d)

\* The walk from a folder up to the root: one that the store does not hold is
\* asked for, and the walk waits.
WalkUp(d, from, ws) ==
    LET unread == {from, Root} \ fs.folders
    IN  IF unread = {} THEN Opened(d, ws)
        ELSE /\ fs' = fs
             /\ works' = ws \cup {Work("walk", d, {IF from \in unread THEN from ELSE Root})}

PathReturns(w) ==
    /\ w.kind = "path" /\ w.folder \in remote.folders
    /\ WalkUp(w.folder, w.folder, works \ {w})
    /\ UNCHANGED <<remote, builds>>

WalkReturns(w) ==
    /\ w.kind = "walk" /\ w.items \subseteq remote.folders
    /\ IF Root \in w.items THEN Opened(w.folder, works \ {w})
       ELSE WalkUp(w.folder, Root, works \ {w})
    /\ UNCHANGED <<remote, builds>>

\* There is no such path or folder, or a call fails: the root is opened.
PathFails(w) ==
    /\ w.kind \in {"path", "walk"}
    /\ FetchFolderContents([fs EXCEPT !.status = "error"], works \ {w}, Root)
    /\ UNCHANGED <<remote, builds>>

-----------------------------------------------------------------------------
(* Changing folders and files.                                              *)

ParentOf(i) == IF i \in Folders THEN Root ELSE remote.files[i]

Asks(st, kind, folder, items) ==
    /\ fs' = st
    /\ works' = works \cup {Work(kind, folder, items)}
    /\ UNCHANGED <<remote, builds>>

CreateFolder(d) ==
    /\ fs.current = Root /\ d \notin remote.folders
    /\ Asks([fs EXCEPT !.status = "loading"], "createFolder", Root, {d})

CreateFolderReturns(w) ==
    /\ w.kind = "createFolder"
    /\ remote' = [remote EXCEPT !.folders = @ \cup w.items]
    /\ FetchFolderContents([fs EXCEPT !.folders = @ \cup w.items,
                                      !.contents[Root] = Fetched(@.items \cup w.items),
                                      !.status = "idle"],
                           works \ {w}, Root)
    /\ UNCHANGED builds

\* The name of a file is part of what is searched: renaming drops its chunks.
RenameItem(i) ==
    /\ OnDisplay({i}) /\ ParentOf(i) # Nowhere
    /\ Asks([fs EXCEPT !.status = "loading"], "rename", ParentOf(i), {i})

RenameReturns(w) ==
    /\ w.kind = "rename"
    /\ LET here == w.items \cap fs.files
       IN  FetchFolderContents([fs EXCEPT !.status = "idle", !.chunks = @ \ here,
                                          !.stale = @ \/ here # {}],
                               works \ {w}, w.folder)
    /\ UNCHANGED <<remote, builds>>

DeleteItems(items) ==
    /\ OnDisplay(items) /\ items # {}
    /\ Asks([fs EXCEPT !.status = "loading"], "delete", fs.current, items)

\* delete_item refuses a folder that is not empty.
DeleteReturns(w) ==
    /\ w.kind = "delete" /\ \A d \in w.items \cap Folders : Items(d) = {}
    /\ remote' = [files |-> [f \in Files |-> IF f \in w.items THEN Nowhere ELSE remote.files[f]],
                  folders |-> remote.folders \ w.items]
    /\ FetchFolderContents([fs EXCEPT !.files = @ \ w.items, !.folders = @ \ w.items,
                                      !.status = "idle",
                                      !.stale = @ \/ fs.chunks \cap w.items # {},
                                      !.chunks = @ \ w.items,
                                      !.contents[w.folder].items = @ \ w.items],
                           works \ {w}, w.folder)
    /\ UNCHANGED builds

\* createFolder, renameItem and deleteItems when the call fails.
EditFails(w) ==
    /\ w.kind \in {"createFolder", "rename", "delete"}
    /\ fs' = [fs EXCEPT !.status = "error"]
    /\ works' = works \ {w}
    /\ UNCHANGED <<remote, builds>>

\* uploadFiles, on behalf of a job of the upload queue.
UploadFiles(f) ==
    /\ fs.current # Nowhere /\ remote.files[f] = Nowhere /\ f \notin fs.files
    /\ \A w \in works : f \notin w.items
    /\ Asks(fs, "upload", fs.current, {f})

UploadReturns(w) ==
    /\ w.kind = "upload" /\ w.folder \in remote.folders
    /\ remote' = [remote EXCEPT !.files = [f \in Files |-> IF f \in w.items THEN w.folder ELSE @[f]]]
    /\ fs' = [fs EXCEPT !.files = @ \cup w.items,
                        !.contents[w.folder] = Fetched(@.items \cup w.items),
                        !.stale = @ \/ w.items \cap TextFiles # {}]
    /\ works' = works \ {w}
    /\ UNCHANGED builds

UploadFails(w) ==
    /\ w.kind = "upload"
    /\ works' = works \ {w}
    /\ UNCHANGED <<remote, fs, builds>>

-----------------------------------------------------------------------------
(* The search index.                                                        *)

\* What buildSearchIndexForFile has to read.
Missing(st) == {f \in st.files \cap TextFiles : f \notin st.chunks}

\* buildGlobalSearchIndex up to its await; without files to read, to its end.
BuildGlobalSearchIndex(st, ws) ==
    IF st.hydration # "hydrated" \/ st.indexing = "in-progress"
    THEN fs' = st /\ works' = ws
    ELSE IF Missing(st) = {}
    THEN fs' = [st EXCEPT !.indexing = "complete", !.stale = FALSE] /\ works' = ws
    ELSE /\ fs' = [st EXCEPT !.indexing = "in-progress", !.stale = FALSE]
         /\ works' = ws \cup {Work("build", Root, Missing(st))}

\* The end of a build that has read every file.
Built(st) == [st EXCEPT !.indexing = "complete"]

\* Mutant of FileRead: a build does not look whether the index became stale.
FileReadNoRebuild(w, f) ==
    /\ w.kind \in {"build", "read"} /\ f \in w.items /\ remote.files[f] # Nowhere
    /\ LET st == [fs EXCEPT !.chunks = @ \cup {f}]
           rest == w.items \ {f}
       IN  /\ fs' = IF w.kind = "build" /\ rest = {} THEN Built(st) ELSE st
           /\ works' = (works \ {w}) \cup IF rest = {} THEN {} ELSE {[w EXCEPT !.items = rest]}
    /\ UNCHANGED <<remote, builds>>

\* One file of a build is read, or one that is viewed.
FileRead(w, f) ==
    /\ w.kind \in {"build", "read"} /\ f \in w.items /\ remote.files[f] # Nowhere
    /\ LET st == [fs EXCEPT !.chunks = @ \cup {f}]
           rest == w.items \ {f}
           done == w.kind = "build" /\ rest = {}
       IN  /\ fs' = IF done THEN Built(st) ELSE st
           /\ works' = (works \ {w}) \cup IF rest = {} THEN {} ELSE {[w EXCEPT !.items = rest]}
           /\ builds' = IF done /\ st.stale THEN 1 ELSE builds
    /\ UNCHANGED remote

\* getFileContent returns null: the build fails, its other reads go on.
FileFails(w, f) ==
    /\ w.kind \in {"build", "read"} /\ f \in w.items
    /\ fs' = IF w.kind = "build" THEN [fs EXCEPT !.indexing = "error"] ELSE fs
    /\ works' = (works \ {w}) \cup IF w.items = {f} THEN {}
                                   ELSE {[w EXCEPT !.kind = "read", !.items = @ \ {f}]}
    /\ UNCHANGED <<remote, builds>>

\* The effect of ViewFileModal: a text file with chunks is indexed.
ViewFile(f) ==
    /\ fs.status # "error" /\ f \in Missing(fs)
    /\ Asks(fs, "read", Root, {f})

\* The search of the files page builds an index that was never built.
SearchFiles ==
    /\ fs.rootKnown /\ fs.indexing = "idle"
    /\ BuildGlobalSearchIndex(fs, works)
    /\ UNCHANGED <<remote, builds>>

BuildTimer ==
    /\ builds > 0
    /\ builds' = 0
    /\ BuildGlobalSearchIndex(fs, works)
    /\ UNCHANGED remote

\* A render: the effects of providers.tsx on hydrationStatus and isIndexStale.
Seen(st) == [hydration |-> st.hydration, stale |-> st.stale]

Render ==
    /\ rendered # Seen(fs)
    /\ rendered' = Seen(fs)
    /\ builds' = IF fs.hydration = "hydrated" /\ rendered.hydration # "hydrated" THEN 1 ELSE builds
    /\ IF fs.stale /\ fs.hydration = "hydrated" THEN BuildGlobalSearchIndex(fs, works)
       ELSE UNCHANGED <<fs, works>>
    /\ UNCHANGED <<remote, edits>>

-----------------------------------------------------------------------------
FileUser ==
    \/ SearchFiles
    \/ \E d \in Folders : NavigateToFolder(d) \/ NavigateToPath(d) \/ CreateFolder(d)
    \/ \E i \in 1..2 : NavigateToHistoryIndex(i)
    \/ \E i \in Files \cup Folders : RenameItem(i) \/ DeleteItems({i})
    \/ \E f \in Files : UploadFiles(f) \/ ViewFile(f)

FileReply(w) ==
    \/ FetchReturns(w) \/ FetchFails(w)
    \/ PathReturns(w) \/ WalkReturns(w) \/ PathFails(w)
    \/ CreateFolderReturns(w) \/ RenameReturns(w) \/ DeleteReturns(w) \/ EditFails(w)
    \/ UploadReturns(w) \/ UploadFails(w)
    \/ \E f \in Files : FileRead(w, f) \/ FileFails(w, f)

\* React renders a change of a zustand store before the next event is handled.
Settled == rendered = Seen(fs)

FilesNext ==
    \/ /\ Settled /\ edits < MaxEdits /\ Cardinality(works) < MaxWorks
       /\ FileUser
       /\ edits' = edits + 1 /\ UNCHANGED rendered
    \/ /\ Settled
       /\ BuildTimer \/ \E w \in works : FileReply(w)
       /\ UNCHANGED <<rendered, edits>>
    \/ Render

-----------------------------------------------------------------------------
\* At most one build of the index is under way, and the index is marked as
\* being built exactly as long as one is: a mark that stays would defer every
\* later build and queue every search.
OneBuild ==
    /\ Cardinality({w \in works : w.kind = "build"}) <= 1
    /\ fs.indexing = "in-progress" <=> \E w \in works : w.kind = "build"

\* A stale index of a hydrated store is rebuilt: unless the last build failed,
\* a build, a timer or a render that starts one is due.
StaleIndexIsRebuilt ==
    fs.stale /\ fs.hydration = "hydrated" /\ fs.indexing # "error" =>
        \/ fs.indexing = "in-progress" \/ builds > 0 \/ rendered # Seen(fs)

\* A stale index of a hydrated store is rebuilt: unless the last build failed, a
\* build, a timer or a render that starts one is due, and the mark of a build
\* lasts exactly as long as the build (a mark that stays would defer every later
\* build and queue every search).
IndexIsMaintained == OneBuild /\ StaleIndexIsRebuilt
=============================================================================
