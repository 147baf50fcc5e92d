--------------------------- MODULE ClientPagesProofs ---------------------------
(***************************************************************************)
(* Proofs about the file store and the settings of the browser client      *)
(* (ClientTools with ClientFiles, and ClientSettings), and about its       *)
(* input: the queue of uploads (ClientUploads) and what a message is sent  *)
(* with (ClientComposer).  The parts share no state.                       *)
(***************************************************************************)
EXTENDS ClientTools, ClientSettings, ClientUploads, ClientComposer, TLAPS, FiniteSetTheorems, SequenceTheorems

-----------------------------------------------------------------------------
(* The file store and its index.                                            *)

\* The fields of the store, and of a function that waits.
StoreShaped(r) ==
    /\ r = [files |-> r.files, folders |-> r.folders, contents |-> r.contents, rootKnown |-> r.rootKnown,
            current |-> r.current, history |-> r.history, status |-> r.status, hydration |-> r.hydration,
            indexing |-> r.indexing, stale |-> r.stale, chunks |-> r.chunks]
    /\ r.stale \in BOOLEAN
WorkShaped(w) == w = [kind |-> w.kind, folder |-> w.folder, items |-> w.items, initial |-> w.initial]
WorksShaped(ws) == \A w \in ws : WorkShaped(w)

\* At most one build, and the mark of the index says whether there is one.
BuildsAgree(st, ws) ==
    /\ \A v, w \in ws : v.kind = "build" /\ w.kind = "build" => v = w
    /\ st.indexing = "in-progress" <=> \E w \in ws : w.kind = "build"

FilesSound ==
    /\ StoreShaped(fs) /\ WorksShaped(works) /\ builds \in {0, 1}
    /\ BuildsAgree(fs, works)
    /\ StaleIndexIsRebuilt

SameBuilds(ws, new) == \A w : w.kind = "build" => (w \in ws <=> w \in new)

LEMMA WorkMade ==
    ASSUME NEW kind, NEW folder, NEW items
    PROVE  WorkShaped(Work(kind, folder, items)) /\ Work(kind, folder, items).kind = kind
BY DEF Work, WorkShaped

LEMMA FetchMade ==
    ASSUME NEW folder, NEW b
    PROVE  LET w == [Work("fetch", folder, {}) EXCEPT !.initial = b]
           IN  WorkShaped(w) /\ w.kind # "build"
BY DEF Work, WorkShaped

LEMMA SeenFields == ASSUME NEW st PROVE Seen(st).hydration = st.hydration /\ Seen(st).stale = st.stale
BY DEF Seen

LEMMA FilesStart == FilesInit => FilesSound
<1> SUFFICES ASSUME FilesInit PROVE FilesSound
  OBVIOUS
<1>1. StoreShaped(fs) /\ fs.indexing = "idle" /\ fs.stale = FALSE
  BY DEF FilesInit, StoreShaped
<1>2. WorksShaped(works) /\ \A w \in works : w.kind # "build"
  <2>1. PICK w : w = [Work("fetch", Root, {}) EXCEPT !.initial = TRUE]
    OBVIOUS
  <2>2. works = {w} /\ WorkShaped(w) /\ w.kind # "build"
    BY <2>1, FetchMade DEF FilesInit
  <2> QED
    BY <2>2 DEF WorksShaped
<1>3. builds = 0
  BY DEF FilesInit
<1> QED
  BY <1>1, <1>2, <1>3 DEF FilesSound, BuildsAgree, StaleIndexIsRebuilt

\* A step that leaves the builds and the mark alone: if it makes the index
\* stale, a render is due.
LEMMA PlainStep ==
    ASSUME FilesSound, Settled, rendered' = rendered, builds' = builds, StoreShaped(fs'), WorksShaped(works'),
           fs'.indexing = fs.indexing, SameBuilds(works, works')
    PROVE  FilesSound'
<1>1. BuildsAgree(fs', works')
  BY DEF FilesSound, BuildsAgree, SameBuilds
<1>2. ASSUME fs'.stale, fs'.hydration = "hydrated", fs'.indexing # "error",
             fs'.indexing # "in-progress", rendered = Seen(fs')
      PROVE  builds' > 0
  <2>1. fs.stale = fs'.stale /\ fs.hydration = fs'.hydration
    <3>1. PICK a, b : a = Seen(fs) /\ b = Seen(fs')
      OBVIOUS
    <3>2. a.stale = fs.stale /\ a.hydration = fs.hydration
      BY <3>1, SeenFields
    <3>3. b.stale = fs'.stale /\ b.hydration = fs'.hydration
      BY <3>1, SeenFields
    <3>4. a = b
      BY <3>1, <1>2 DEF Settled
    <3> QED
      BY <3>2, <3>3, <3>4
  <2> QED
    BY <1>2, <2>1 DEF FilesSound, StaleIndexIsRebuilt, Settled
<1>3. StaleIndexIsRebuilt'
  BY <1>2 DEF StaleIndexIsRebuilt, Seen
<1> QED
  BY <1>1, <1>3 DEF FilesSound

LEMMA FetchStarts ==
    ASSUME NEW st, NEW ws, NEW d, StoreShaped(st), WorksShaped(ws), FetchFolderContents(st, ws, d)
    PROVE  /\ StoreShaped(fs') /\ fs'.indexing = st.indexing
           /\ WorksShaped(works') /\ SameBuilds(ws, works')
<1>1. CASE st.hydration = "hydrating"
  BY <1>1 DEF FetchFolderContents, SameBuilds
<1>2. CASE st.hydration # "hydrating"
  <2>1. fs' = [st EXCEPT !.status = "loading", !.hydration = "hydrating"]
    BY <1>2 DEF FetchFolderContents
  <2>2. StoreShaped(fs') /\ fs'.indexing = st.indexing
    BY <2>1 DEF StoreShaped
  <2>3. PICK w : w = [Work("fetch", d, {}) EXCEPT !.initial = ~st.rootKnown]
    OBVIOUS
  <2>4. WorkShaped(w) /\ w.kind # "build" /\ works' = ws \cup {w}
    BY <1>2, <2>3, FetchMade DEF FetchFolderContents
  <2> QED
    BY <2>2, <2>4 DEF WorksShaped, SameBuilds
<1> QED
  BY <1>1, <1>2

LEMMA AsksStep ==
    ASSUME FilesSound, Settled, rendered' = rendered, NEW st, NEW kind, NEW folder, NEW items, kind # "build",
           StoreShaped(st), st.indexing = fs.indexing, Asks(st, kind, folder, items)
    PROVE  FilesSound'
<1>1. PICK w : w = Work(kind, folder, items)
  OBVIOUS
<1>2. WorkShaped(w) /\ w.kind # "build" /\ works' = works \cup {w}
  BY <1>1, WorkMade DEF Asks
<1>3. WorksShaped(works') /\ SameBuilds(works, works')
  BY <1>2 DEF FilesSound, WorksShaped, SameBuilds
<1> QED
  BY <1>3, PlainStep DEF Asks

\* A build starts, or nothing happens; afterwards no rebuild is owed.
LEMMA BuildStarts ==
    ASSUME FilesSound, BuildGlobalSearchIndex(fs, works)
    PROVE  /\ StoreShaped(fs') /\ WorksShaped(works') /\ BuildsAgree(fs', works')
           /\ fs'.stale /\ fs'.hydration = "hydrated" => fs'.indexing = "in-progress"
<1>1. CASE fs.hydration # "hydrated" \/ fs.indexing = "in-progress"
  BY <1>1 DEF BuildGlobalSearchIndex, FilesSound
<1>2. CASE fs.hydration = "hydrated" /\ fs.indexing # "in-progress" /\ Missing(fs) = {}
  <2>1. fs' = [fs EXCEPT !.indexing = "complete", !.stale = FALSE] /\ works' = works
    BY <1>2 DEF BuildGlobalSearchIndex
  <2>2. StoreShaped(fs') /\ fs'.indexing = "complete" /\ fs'.stale = FALSE
    BY <2>1 DEF FilesSound, StoreShaped
  <2> QED
    BY <1>2, <2>1, <2>2 DEF FilesSound, BuildsAgree
<1>3. CASE fs.hydration = "hydrated" /\ fs.indexing # "in-progress" /\ Missing(fs) # {}
  <2>1. PICK w : w = Work("build", Root, Missing(fs))
    OBVIOUS
  <2>2. fs' = [fs EXCEPT !.indexing = "in-progress", !.stale = FALSE] /\ works' = works \cup {w}
    BY <1>3, <2>1 DEF BuildGlobalSearchIndex
  <2>3. StoreShaped(fs') /\ fs'.indexing = "in-progress" /\ fs'.stale = FALSE
    BY <2>2 DEF FilesSound, StoreShaped
  <2>4. WorkShaped(w) /\ w.kind = "build" /\ \A v \in works : v.kind # "build"
    BY <1>3, <2>1, WorkMade DEF FilesSound, BuildsAgree
  <2> QED
    BY <2>2, <2>3, <2>4 DEF FilesSound, WorksShaped, BuildsAgree
<1> QED
  BY <1>1, <1>2, <1>3

LEMMA BuildStep ==
    ASSUME FilesSound, BuildGlobalSearchIndex(fs, works), builds' \in {0, 1}
    PROVE  FilesSound'
<1>1. /\ StoreShaped(fs') /\ WorksShaped(works') /\ BuildsAgree(fs', works')
      /\ fs'.stale /\ fs'.hydration = "hydrated" => fs'.indexing = "in-progress"
  BY BuildStarts
<1> QED
  BY <1>1 DEF FilesSound, StaleIndexIsRebuilt

\* The user.
LEMMA FileUserStep == ASSUME FilesSound, Settled, rendered' = rendered, FileUser PROVE FilesSound'
<1> DEFINE loading == [fs EXCEPT !.status = "loading"]
<1>1. StoreShaped(fs) /\ WorksShaped(works) /\ SameBuilds(works, works)
  BY DEF FilesSound, SameBuilds
<1>2. StoreShaped(loading) /\ loading.indexing = fs.indexing
  BY <1>1 DEF StoreShaped
<1>3. ASSUME SearchFiles PROVE FilesSound'
  BY <1>3, BuildStep DEF SearchFiles, FilesSound
<1>4. ASSUME NEW d \in Folders, NavigateToFolder(d) PROVE FilesSound'
  <2>1. PICK st : st = [fs EXCEPT !.current = d, !.history = Append(@, d)]
    OBVIOUS
  <2>2. StoreShaped(st) /\ st.indexing = fs.indexing
    BY <1>1, <2>1 DEF StoreShaped
  <2>3. /\ builds' = builds
        /\ (fs' = st /\ works' = works) \/ FetchFolderContents(st, works, d)
    BY <1>4, <2>1 DEF NavigateToFolder
  <2>4. /\ StoreShaped(fs') /\ fs'.indexing = st.indexing
        /\ WorksShaped(works') /\ SameBuilds(works, works')
    BY <1>1, <2>2, <2>3, FetchStarts
  <2> QED
    BY <2>2, <2>3, <2>4, PlainStep
<1>5. ASSUME NEW i, NavigateToHistoryIndex(i) PROVE FilesSound'
  <2>1. StoreShaped(fs') /\ fs'.indexing = fs.indexing
    BY <1>1, <1>5 DEF StoreShaped, NavigateToHistoryIndex
  <2> QED
    BY <1>1, <1>5, <2>1, PlainStep DEF NavigateToHistoryIndex
<1>6. ASSUME NEW d \in Folders, NavigateToPath(d) PROVE FilesSound'
  <2>1. WorksShaped(works') /\ SameBuilds(works, works')
    <3>1. PICK w : w = Work("path", d, {})
      OBVIOUS
    <3>2. WorkShaped(w) /\ w.kind # "build" /\ works' = works \cup {w}
      BY <1>6, <3>1, WorkMade DEF NavigateToPath
    <3> QED
      BY <1>1, <3>2 DEF WorksShaped, SameBuilds
  <2> QED
    BY <1>2, <1>6, <2>1, PlainStep DEF NavigateToPath
<1>7. ASSUME NEW d \in Folders, CreateFolder(d) PROVE FilesSound'
  BY <1>2, <1>7, AsksStep DEF CreateFolder
<1>8. ASSUME NEW i, RenameItem(i) PROVE FilesSound'
  BY <1>2, <1>8, AsksStep DEF RenameItem
<1>9. ASSUME NEW items, DeleteItems(items) PROVE FilesSound'
  BY <1>2, <1>9, AsksStep DEF DeleteItems
<1>10. ASSUME NEW f \in Files, UploadFiles(f) \/ ViewFile(f) PROVE FilesSound'
  BY <1>1, <1>10, AsksStep DEF UploadFiles, ViewFile
<1> QED
  BY <1>3, <1>4, <1>5, <1>6, <1>7, <1>8, <1>9, <1>10 DEF FileUser

\* A function that does not build the index has ended.
LEMMA WorkEnds ==
    ASSUME NEW ws, WorksShaped(ws), NEW w \in ws, w.kind # "build"
    PROVE  WorksShaped(ws \ {w}) /\ SameBuilds(ws, ws \ {w})
BY DEF WorksShaped, SameBuilds

LEMMA SameBuildsTransitive ==
    ASSUME NEW a, NEW b, NEW c, SameBuilds(a, b), SameBuilds(b, c)
    PROVE  SameBuilds(a, c)
BY DEF SameBuilds

\* It goes on with fetchFolderContents.
LEMMA RefetchStep ==
    ASSUME FilesSound, Settled, rendered' = rendered, builds' = builds, NEW w \in works, w.kind # "build",
           NEW st, NEW d, StoreShaped(st), st.indexing = fs.indexing, FetchFolderContents(st, works \ {w}, d)
    PROVE  FilesSound'
<1>1. WorksShaped(works \ {w}) /\ SameBuilds(works, works \ {w})
  BY WorkEnds DEF FilesSound
<1>2. /\ StoreShaped(fs') /\ fs'.indexing = st.indexing
      /\ WorksShaped(works') /\ SameBuilds(works \ {w}, works')
  BY <1>1, FetchStarts
<1> QED
  BY <1>1, <1>2, SameBuildsTransitive, PlainStep

LEMMA EndStep ==
    ASSUME FilesSound, Settled, rendered' = rendered, builds' = builds, NEW w \in works, w.kind # "build",
           works' = works \ {w}, StoreShaped(fs'), fs'.indexing = fs.indexing
    PROVE  FilesSound'
<1>1. WorksShaped(works') /\ SameBuilds(works, works')
  BY WorkEnds DEF FilesSound
<1> QED
  BY <1>1, PlainStep

\* navigateToPath walks up to the root, or opens the folder.
LEMMA WalkStep ==
    ASSUME FilesSound, Settled, rendered' = rendered, builds' = builds, NEW w \in works, w.kind # "build",
           NEW d, NEW from, WalkUp(d, from, works \ {w}) \/ Opened(d, works \ {w})
    PROVE  FilesSound'
<1>1. StoreShaped(fs)
  BY DEF FilesSound
<1>2. CASE Opened(d, works \ {w})
  <2>1. PICK st : st = [fs EXCEPT !.history = IF d = Root THEN <<Root>> ELSE <<Root, d>>]
    OBVIOUS
  <2>2. StoreShaped(st) /\ st.indexing = fs.indexing
    BY <2>1, <1>1 DEF StoreShaped
  <2>3. FetchFolderContents(st, works \ {w}, d)
    BY <2>1, <1>2 DEF Opened
  <2> QED
    BY <2>2, <2>3, RefetchStep
<1>3. CASE WalkUp(d, from, works \ {w}) /\ ~Opened(d, works \ {w})
  <2>1. PICK rest : rest = works \ {w}
    OBVIOUS
  <2>2. PICK n : fs' = fs /\ works' = rest \cup {n} /\ \E at : n = Work("walk", d, {at})
    BY <2>1, <1>3 DEF WalkUp
  <2>3. WorkShaped(n) /\ n.kind # "build"
    BY <2>2, WorkMade
  <2>4. WorksShaped(rest) /\ SameBuilds(works, rest)
    BY <2>1, WorkEnds DEF FilesSound
  <2>5. WorksShaped(works') /\ SameBuilds(rest, works')
    BY <2>2, <2>3, <2>4 DEF WorksShaped, SameBuilds
  <2> QED
    BY <1>1, <2>2, <2>4, <2>5, SameBuildsTransitive, PlainStep
<1> QED
  BY <1>2, <1>3

LEMMA FileReplyStep ==
    ASSUME FilesSound, Settled, rendered' = rendered, NEW w \in works,
           \/ FetchReturns(w) \/ FetchFails(w) \/ CreateFolderReturns(w)
           \/ PathReturns(w) \/ WalkReturns(w) \/ PathFails(w)
           \/ RenameReturns(w) \/ DeleteReturns(w) \/ EditFails(w) \/ UploadReturns(w) \/ UploadFails(w)
    PROVE  FilesSound'
<1>1. StoreShaped(fs)
  BY DEF FilesSound
<1>2. CASE FetchReturns(w) \/ FetchFails(w) \/ EditFails(w)
  <2>1. StoreShaped(fs') /\ fs'.indexing = fs.indexing
    BY <1>1, <1>2 DEF FetchReturns, FetchFails, EditFails, StoreShaped
  <2>2. works' = works \ {w} /\ builds' = builds /\ w.kind # "build"
    BY <1>2 DEF FetchReturns, FetchFails, EditFails
  <2> QED
    BY <2>1, <2>2, EndStep
<1>3. CASE PathReturns(w) \/ WalkReturns(w)
  BY <1>3, WalkStep DEF PathReturns, WalkReturns
<1>a. CASE PathFails(w)
  <2>1. PICK st : st = [fs EXCEPT !.status = "error"]
    OBVIOUS
  <2>2. StoreShaped(st) /\ st.indexing = fs.indexing
    BY <2>1, <1>1 DEF StoreShaped
  <2>3. FetchFolderContents(st, works \ {w}, Root) /\ builds' = builds /\ w.kind # "build"
    BY <2>1, <1>a DEF PathFails
  <2> QED
    BY <2>2, <2>3, RefetchStep
<1>4. CASE CreateFolderReturns(w)
  <2>1. PICK st : st = [fs EXCEPT !.folders = @ \cup w.items, !.contents[Root] = Fetched(@.items \cup w.items),
                                  !.status = "idle"]
    OBVIOUS
  <2>2. StoreShaped(st) /\ st.indexing = fs.indexing
    BY <2>1, <1>1 DEF StoreShaped
  <2>3. FetchFolderContents(st, works \ {w}, Root) /\ builds' = builds /\ w.kind # "build"
    BY <2>1, <1>4 DEF CreateFolderReturns
  <2> QED
    BY <2>2, <2>3, RefetchStep
<1>5. CASE RenameReturns(w)
  <2>1. PICK taken : taken = w.items \cap fs.files
    OBVIOUS
  <2>2. PICK st : st = [fs EXCEPT !.status = "idle", !.chunks = @ \ taken, !.stale = @ \/ taken # {}]
    OBVIOUS
  <2>3. StoreShaped(st) /\ st.indexing = fs.indexing
    BY <2>2, <1>1 DEF StoreShaped
  <2>4. FetchFolderContents(st, works \ {w}, w.folder) /\ builds' = builds /\ w.kind # "build"
    BY <2>1, <2>2, <1>5 DEF RenameReturns
  <2> QED
    BY <2>3, <2>4, RefetchStep
<1>6. CASE DeleteReturns(w)
  <2>1. PICK st : st = [fs EXCEPT !.files = @ \ w.items, !.folders = @ \ w.items, !.status = "idle",
                                  !.stale = @ \/ fs.chunks \cap w.items # {}, !.chunks = @ \ w.items,
                                  !.contents[w.folder].items = @ \ w.items]
    OBVIOUS
  <2>2. StoreShaped(st) /\ st.indexing = fs.indexing
    BY <2>1, <1>1 DEF StoreShaped
  <2>3. FetchFolderContents(st, works \ {w}, w.folder) /\ builds' = builds /\ w.kind # "build"
    BY <2>1, <1>6 DEF DeleteReturns
  <2> QED
    BY <2>2, <2>3, RefetchStep
<1>7. CASE UploadReturns(w) \/ UploadFails(w)
  <2>1. StoreShaped(fs') /\ fs'.indexing = fs.indexing
    BY <1>1, <1>7 DEF UploadReturns, UploadFails, StoreShaped
  <2>2. works' = works \ {w} /\ builds' = builds /\ w.kind # "build"
    BY <1>7 DEF UploadReturns, UploadFails
  <2> QED
    BY <2>1, <2>2, EndStep
<1> QED
  BY <1>2, <1>3, <1>a, <1>4, <1>5, <1>6, <1>7

\* A file is read for a build: the last one ends it, and a timer is set if the
\* index has become stale meanwhile.
LEMMA FileReadStep ==
    ASSUME FilesSound, Settled, rendered' = rendered, NEW w \in works, NEW f \in Files, FileRead(w, f)
    PROVE  FilesSound'
<1>1. PICK st : st = [fs EXCEPT !.chunks = @ \cup {f}]
  OBVIOUS
<1>2. PICK rest : rest = w.items \ {f}
  OBVIOUS
<1>3. PICK left : left = [w EXCEPT !.items = rest]
  OBVIOUS
<1>4. /\ StoreShaped(st) /\ st.indexing = fs.indexing /\ st.stale = fs.stale /\ st.hydration = fs.hydration
      /\ WorkShaped(left) /\ left.kind = w.kind /\ WorksShaped(works)
  BY SMTT(30), <1>1, <1>3 DEF FilesSound, StoreShaped, WorksShaped, WorkShaped
<1>5. w.kind \in {"build", "read"} /\ works' = (works \ {w}) \cup IF rest = {} THEN {} ELSE {left}
  BY <1>2, <1>3 DEF FileRead
<1>6. WorksShaped(works')
  BY <1>4, <1>5 DEF WorksShaped
<1>7. CASE w.kind = "read"
  <2>1. fs' = st /\ builds' = builds
    BY <1>1, <1>7 DEF FileRead
  <2>2. SameBuilds(works, works')
    BY <1>4, <1>5, <1>7 DEF SameBuilds
  <2> QED
    BY <2>1, <2>2, <1>4, <1>6, PlainStep
<1>8. CASE w.kind = "build" /\ rest # {}
  <2>1. fs' = st /\ builds' = builds
    BY <1>1, <1>2, <1>8 DEF FileRead
  <2>2. st.indexing = "in-progress" /\ \A v \in works : v.kind = "build" => v = w
    BY <1>4, <1>8 DEF FilesSound, BuildsAgree
  <2>3. BuildsAgree(fs', works')
    BY <2>1, <2>2, <1>4, <1>5, <1>8 DEF BuildsAgree
  <2> QED
    BY <2>1, <2>2, <2>3, <1>4, <1>6 DEF FilesSound, StaleIndexIsRebuilt
<1>9. CASE w.kind = "build" /\ rest = {}
  <2>1. fs' = Built(st) /\ builds' = IF st.stale THEN 1 ELSE builds
    BY <1>1, <1>2, <1>9 DEF FileRead
  <2>2. StoreShaped(fs') /\ fs'.indexing = "complete" /\ fs'.stale = st.stale
    BY <2>1, <1>4 DEF Built, StoreShaped
  <2>3. \A v \in works' : v.kind # "build"
    BY <1>5, <1>9 DEF FilesSound, BuildsAgree
  <2>4. fs'.stale => builds' > 0
    BY <2>1, <2>2
  <2>5. builds' \in {0, 1}
    BY <2>1 DEF FilesSound
  <2> QED
    BY <2>2, <2>3, <2>4, <2>5, <1>6 DEF FilesSound, BuildsAgree, StaleIndexIsRebuilt
<1> QED
  BY <1>5, <1>7, <1>8, <1>9

LEMMA FileFailsStep ==
    ASSUME FilesSound, Settled, rendered' = rendered, NEW w \in works, NEW f \in Files, FileFails(w, f)
    PROVE  FilesSound'
<1>1. PICK left : left = [[w EXCEPT !.kind = "read"] EXCEPT !.items = w.items \ {f}]
  OBVIOUS
<1>2. WorkShaped(w) /\ WorksShaped(works) /\ StoreShaped(fs)
  BY DEF FilesSound, WorksShaped
<1>3. WorkShaped(left) /\ left.kind = "read" /\ left = [w EXCEPT !.kind = "read", !.items = @ \ {f}]
  BY <1>1, <1>2 DEF WorkShaped
<1>4. /\ w.kind \in {"build", "read"} /\ works' = (works \ {w}) \cup IF w.items = {f} THEN {} ELSE {left}
      /\ builds' = builds
  BY <1>3 DEF FileFails
<1>5. WorksShaped(works')
  BY <1>2, <1>3, <1>4 DEF WorksShaped
<1>6. CASE w.kind = "read"
  <2>1. fs' = fs
    BY <1>6 DEF FileFails
  <2>2. SameBuilds(works, works')
    BY <1>3, <1>4, <1>6 DEF SameBuilds
  <2> QED
    BY <2>1, <2>2, <1>2, <1>4, <1>5, PlainStep
<1>7. CASE w.kind = "build"
  <2>1. fs' = [fs EXCEPT !.indexing = "error"]
    BY <1>7 DEF FileFails
  <2>2. StoreShaped(fs') /\ fs'.indexing = "error"
    BY <2>1, <1>2 DEF StoreShaped
  <2>3. \A v \in works' : v.kind # "build"
    BY <1>3, <1>4, <1>7 DEF FilesSound, BuildsAgree
  <2> QED
    BY <2>2, <2>3, <1>4, <1>5 DEF FilesSound, BuildsAgree, StaleIndexIsRebuilt
<1> QED
  BY <1>4, <1>6, <1>7

LEMMA RenderStep == ASSUME FilesSound, Render PROVE FilesSound'
<1>1. builds' \in {0, 1}
  BY DEF Render, FilesSound
<1>2. CASE fs.stale /\ fs.hydration = "hydrated"
  BY <1>1, <1>2, BuildStep DEF Render
<1>3. CASE ~(fs.stale /\ fs.hydration = "hydrated")
  <2>1. fs' = fs /\ works' = works
    BY <1>3 DEF Render
  <2> QED
    BY <1>1, <1>3, <2>1 DEF FilesSound, StaleIndexIsRebuilt
<1> QED
  BY <1>2, <1>3

LEMMA FilesStep == ASSUME FilesSound, FilesNext PROVE FilesSound'
<1>1. ASSUME Settled, rendered' = rendered, BuildTimer PROVE FilesSound'
  BY <1>1, BuildStep DEF BuildTimer
<1>2. ASSUME Settled, rendered' = rendered, NEW w \in works, FileReply(w) PROVE FilesSound'
  BY <1>2, FileReplyStep, FileReadStep, FileFailsStep DEF FileReply
<1> QED
  BY <1>1, <1>2, FileUserStep, RenderStep DEF FilesNext

LEMMA BuildsCounted == FilesSound => IndexIsMaintained
<1> SUFFICES ASSUME FilesSound PROVE IndexIsMaintained
  OBVIOUS
<1>1. PICK B : B = {w \in works : w.kind = "build"}
  OBVIOUS
<1>2. Cardinality(B) <= 1
  <2>1. CASE B = {}
    <3>1. Cardinality(B) = 0
      BY <2>1, FS_EmptySet
    <3> QED
      BY <3>1
  <2>2. CASE B # {}
    <3>1. PICK b : b \in B
      BY <2>2
    <3>2. B = {b}
      BY <1>1, <3>1 DEF FilesSound, BuildsAgree
    <3>3. Cardinality(B) = 1
      BY <3>2, FS_Singleton
    <3> QED
      BY <3>3
  <2> QED
    BY <2>1, <2>2
<1> QED
  BY <1>1, <1>2 DEF FilesSound, BuildsAgree, IndexIsMaintained, OneBuild

\* However fetches, edits, uploads, reads and renders overlap, the mark of a
\* build of the search index (buildGlobalSearchIndex of fileStore) stands
\* exactly as long as one is under way, and a stale index whose last build did
\* not fail has a build, a timer or a render ahead of it that makes it good.
THEOREM IndexMaintained == ToolsSpec => []IndexIsMaintained
<1>1. ToolsInit => FilesSound
  BY FilesStart DEF ToolsInit
<1>2. FilesSound /\ [ToolsNext]_<<fileVars, toolVars>> => FilesSound'
  <2> SUFFICES ASSUME FilesSound, [ToolsNext]_<<fileVars, toolVars>> PROVE FilesSound'
    OBVIOUS
  <2>1. ASSUME UNCHANGED <<remote, fs, works, rendered, builds>> PROVE FilesSound'
    BY <2>1 DEF FilesSound, StaleIndexIsRebuilt, Seen
  <2>2. CASE ToolsNext
    BY <2>1, <2>2, FilesStep, RenderStep DEF ToolsNext, fileVars
  <2>3. CASE UNCHANGED <<fileVars, toolVars>>
    BY <2>1, <2>3 DEF fileVars
  <2> QED
    BY <2>2, <2>3
<1> QED
  BY <1>1, <1>2, BuildsCounted, PTL DEF ToolsSpec

-----------------------------------------------------------------------------
(* The settings: the fields of the stores and of the actions under way.     *)

GovShaped(g) == g = [loading |-> g.loading, fetched |-> g.fetched, manager |-> g.manager,
                     unclaimed |-> g.unclaimed, rules |-> g.rules, pool |-> g.pool]
PageShaped(p) ==
    /\ p = [tab |-> p.tab, form |-> p.form, copy |-> p.copy, submitting |-> p.submitting,
            restoring |-> p.restoring, claiming |-> p.claiming, own |-> p.own]
    /\ p.form \in PolicyForms \cup {"add", "model", "none"}
ModelsShaped(m) == m = [models |-> m.models, loading |-> m.loading, fetched |-> m.fetched]
ListsShaped(nl) == nl \in [Lists -> [loading : BOOLEAN, fetched : BOOLEAN]]
WizardShaped(z) == z = [step |-> z.step, review |-> z.review, rows |-> z.rows,
                        processing |-> z.processing, creating |-> z.creating, own |-> z.own]
PendingShaped(w) == w = [n |-> w.n, kind |-> w.kind, stage |-> w.stage, arg |-> w.arg, seen |-> w.seen,
                         lists |-> w.lists, review |-> w.review, todo |-> w.todo]

\* What a store action can wait for.
StageFits(w) ==
    /\ w.stage = "lists" => w.kind \in {"nodes", "create", "import"}
    /\ w.stage = "models" => w.kind \in ModelKinds \cup {"models"}
    /\ w.stage \in {"refetch", "answer"} => w.kind \in (GovKinds \ ModelKinds) \cup {"initial"}
    /\ w.kind = "restore" /\ w.stage = "call" => w.arg # {}
PendingTyped(ps) == \A w \in ps : PendingShaped(w) /\ StageFits(w)

SettingsTyped ==
    /\ GovShaped(gov) /\ PageShaped(page) /\ ModelsShaped(modelList) /\ ListsShaped(nodeLists)
    /\ WizardShaped(wizard) /\ PendingTyped(pending)

LEMMA PendingMade ==
    ASSUME NEW kind, NEW arg
    PROVE  /\ PendingShaped(Pending(kind, arg)) /\ Pending(kind, arg).kind = kind
           /\ Pending(kind, arg).stage = "call" /\ ((kind = "restore" /\ arg = {}) \/ StageFits(Pending(kind, arg)))
           /\ Pending(kind, arg).n = started /\ Pending(kind, arg).arg = arg
BY DEF Pending, PendingShaped, StageFits

Staged(kind, stage) == [Pending(kind, {}) EXCEPT !.stage = stage]
Imported(n, todo) == [Pending("import", {}) EXCEPT !.review = n, !.todo = todo]

LEMMA StageMade ==
    ASSUME NEW kind, NEW stage,
           \/ kind = "initial" /\ stage = "refetch"
           \/ kind \in {"restore", "models"} /\ stage = "models"
    PROVE  LET w == Staged(kind, stage)
           IN  PendingShaped(w) /\ w.kind = kind /\ w.stage = stage /\ w.n = started /\ w.arg = {} /\ StageFits(w)
<1>1. PICK p, w : p = Pending(kind, {}) /\ w = Staged(kind, stage)
  OBVIOUS
<1>2. PendingShaped(p) /\ p.kind = kind /\ p.n = started /\ p.arg = {}
  BY <1>1, PendingMade
<1>3. PendingShaped(w) /\ w.kind = kind /\ w.stage = stage /\ w.n = started /\ w.arg = {}
  BY <1>1, <1>2 DEF PendingShaped, Staged
<1> QED
  BY <1>1, <1>3 DEF StageFits, ModelKinds, GovKinds

LEMMA ListMade ==
    ASSUME NEW l, NEW w, w = [Pending("nodes", {}) EXCEPT !.stage = "lists", !.lists = {l}]
    PROVE  PendingShaped(w) /\ w.kind = "nodes" /\ w.stage = "lists" /\ w.lists = {l} /\ StageFits(w)
<1>1. PICK p : p = Pending("nodes", {})
  OBVIOUS
<1>2. PendingShaped(p) /\ p.kind = "nodes"
  BY <1>1, PendingMade
<1>3. PendingShaped(w) /\ w.kind = "nodes" /\ w.stage = "lists" /\ w.lists = {l}
  BY <1>1, <1>2 DEF PendingShaped
<1> QED
  BY <1>3 DEF StageFits

LEMMA ImportMade ==
    ASSUME NEW n, NEW todo
    PROVE  LET w == Imported(n, todo)
           IN  /\ PendingShaped(w) /\ w.kind = "import" /\ w.stage = "call" /\ w.review = n
               /\ w.todo = todo /\ StageFits(w)
<1>1. PICK p, w : p = Pending("import", {}) /\ w = Imported(n, todo)
  OBVIOUS
<1>2. PendingShaped(p) /\ p.kind = "import" /\ p.stage = "call"
  BY <1>1, PendingMade
<1>3. PendingShaped(w) /\ w.kind = "import" /\ w.stage = "call" /\ w.review = n /\ w.todo = todo
  BY <1>1, <1>2 DEF PendingShaped, Imported
<1> QED
  BY <1>1, <1>3 DEF StageFits

LEMMA MorePending ==
    ASSUME PendingTyped(pending), NEW new, PendingShaped(new), StageFits(new), Starts(new)
    PROVE  PendingTyped(pending')
BY DEF Starts, PendingTyped

-----------------------------------------------------------------------------
(* LoadingMeansWork, with the action that will clear each flag.             *)

\* A restore that waits for its last fetchModels has cleared the flag of the
\* governance store already.
ForGov(w) ==
    /\ w.kind \in GovKinds \cup {"initial"}
    /\ ~(w.kind = "restore" /\ w.stage = "models" /\ w.arg = {})
ForPool(w) == w.kind \in {"canisters", "provision"}
ForModels(w) == w.stage = "models"
ForList(w, l) == w.stage = "lists" /\ l \in w.lists
\* Only the instance of the component that has started an action hears of it.
ForCreating(w, own) == w.kind = "create" /\ w.n \in own
ForImport(w, n) == w.kind = "import" /\ n = w.review
ForRestoring(w, own) == w.kind = "restore" /\ w.n \in own

Busy(g, m, nl, z, p, ps) ==
    /\ g.loading => \E w \in ps : ForGov(w)
    /\ g.pool => \E w \in ps : ForPool(w)
    /\ m.loading => \E w \in ps : ForModels(w)
    /\ \A l \in Lists : nl[l].loading => \E w \in ps : ForList(w, l)
    /\ z.creating => \E w \in ps : ForCreating(w, z.own)
    /\ z.processing => \E w \in ps : ForImport(w, z.review)
    /\ p.restoring => \E w \in ps : ForRestoring(w, p.own)

AllBusy == Busy(gov, modelList, nodeLists, wizard, page, pending)

\* An action of the user: nothing ends.
LEMMA BusyMore ==
    ASSUME NEW g, NEW m, NEW nl, NEW z, NEW p, NEW ps, Busy(g, m, nl, z, p, ps),
           NEW g2, NEW m2, NEW nl2, NEW z2, NEW p2, NEW ps2, ps \subseteq ps2,
           g2.loading => g.loading \/ \E v \in ps2 : ForGov(v),
           g2.pool => g.pool \/ \E v \in ps2 : ForPool(v),
           m2.loading => m.loading \/ \E v \in ps2 : ForModels(v),
           \A l \in Lists : nl2[l].loading => nl[l].loading \/ \E v \in ps2 : ForList(v, l),
           z2.creating => (z.creating /\ z.own \subseteq z2.own) \/ \E v \in ps2 : ForCreating(v, z2.own),
           z2.processing => (z.processing /\ z.review = z2.review) \/ \E v \in ps2 : ForImport(v, z2.review),
           p2.restoring => (p.restoring /\ p.own \subseteq p2.own) \/ \E v \in ps2 : ForRestoring(v, p2.own)
    PROVE  Busy(g2, m2, nl2, z2, p2, ps2)
BY DEF Busy, ForCreating, ForRestoring

\* A step of the action w: others may go on as they are.
LEMMA BusyStep ==
    ASSUME AllBusy, NEW w, pending \ {w} \subseteq pending',
           gov'.loading => (gov.loading /\ ~ForGov(w)) \/ \E v \in pending' : ForGov(v),
           gov'.pool => (gov.pool /\ ~ForPool(w)) \/ \E v \in pending' : ForPool(v),
           modelList'.loading => (modelList.loading /\ ~ForModels(w)) \/ \E v \in pending' : ForModels(v),
           \A l \in Lists :
             nodeLists'[l].loading => (nodeLists[l].loading /\ ~ForList(w, l)) \/ \E v \in pending' : ForList(v, l),
           wizard'.creating => (wizard.creating /\ wizard.own = wizard'.own /\ ~ForCreating(w, wizard.own))
                                 \/ \E v \in pending' : ForCreating(v, wizard'.own),
           wizard'.processing => (wizard.processing /\ wizard.review = wizard'.review /\ ~ForImport(w, wizard.review))
                                   \/ \E v \in pending' : ForImport(v, wizard'.review),
           page'.restoring => (page.restoring /\ page.own = page'.own /\ ~ForRestoring(w, page.own))
                                \/ \E v \in pending' : ForRestoring(v, page'.own)
    PROVE  AllBusy'
BY DEF AllBusy, Busy

SettingsGoes == SettingsTyped' /\ AllBusy'

\* The governance tab.
LEMMA GoverningStarts ==
    ASSUME SettingsTyped, NEW kind \in GovKinds, NEW arg, kind # "restore" \/ arg # {}, StartsGoverning(kind, arg)
    PROVE  /\ GovShaped(gov') /\ gov'.pool = gov.pool /\ PendingTyped(pending') /\ pending \subseteq pending'
           /\ \E v \in pending' : ForGov(v) /\ v.kind = kind /\ v.n = started
<1>1. PICK new : new = Pending(kind, arg)
  OBVIOUS
<1>2. PendingShaped(new) /\ StageFits(new) /\ new.kind = kind /\ new.stage = "call" /\ new.n = started
  BY <1>1, PendingMade
<1>3. Starts(new) /\ gov' = [gov EXCEPT !.loading = TRUE]
  BY <1>1 DEF StartsGoverning
<1>4. PendingTyped(pending') /\ pending' = pending \cup {new}
  BY <1>2, <1>3, MorePending DEF SettingsTyped, Starts
<1>5. GovShaped(gov') /\ gov'.pool = gov.pool
  BY <1>3 DEF SettingsTyped, GovShaped
<1>6. ForGov(new)
  BY <1>2 DEF ForGov
<1> QED
  BY <1>2, <1>4, <1>5, <1>6

LEMMA FormSteps ==
    ASSUME SettingsTyped, AllBusy,
           ClaimManagerRole \/ ExitForm \/ SubmitForm \/ (\E form \in PolicyForms \cup {"add", "model"} : EnterForm(form))
             \/ (\E kind \in {"row", "removeManager", "toggle"} : RowAction(kind))
    PROVE  SettingsGoes
<1>1. UNCHANGED <<modelList, nodeLists, wizard>>
  BY DEF ClaimManagerRole, ExitForm, SubmitForm, EnterForm, RowAction
<1>2. PageShaped(page') /\ page'.restoring = page.restoring /\ page.own \subseteq page'.own
  BY DEF SettingsTyped, PageShaped, ClaimManagerRole, ExitForm, SubmitForm, EnterForm, RowAction
<1>3. /\ GovShaped(gov') /\ gov'.pool = gov.pool /\ PendingTyped(pending') /\ pending \subseteq pending'
      /\ gov'.loading => gov.loading \/ \E v \in pending' : ForGov(v)
  <2>1. CASE ClaimManagerRole
    BY <2>1, GoverningStarts DEF ClaimManagerRole, GovKinds
  <2>2. CASE SubmitForm
    <3>1. page.form \in GovKinds /\ page.form # "restore"
      BY <2>2 DEF SubmitForm, SettingsTyped, PageShaped, PolicyForms, GovKinds, ModelKinds
    <3> QED
      BY <2>2, <3>1, GoverningStarts DEF SubmitForm
  <2>3. CASE \E kind \in {"row", "removeManager", "toggle"} : RowAction(kind)
    BY <2>3, GoverningStarts DEF RowAction, GovKinds, ModelKinds
  <2>4. CASE ExitForm \/ \E form \in PolicyForms \cup {"add", "model"} : EnterForm(form)
    BY <2>4 DEF ExitForm, EnterForm, SettingsTyped
  <2> QED
    BY <2>1, <2>2, <2>3, <2>4
<1>4. SettingsTyped'
  BY <1>1, <1>2, <1>3 DEF SettingsTyped
<1>5. AllBusy'
  BY <1>1, <1>2, <1>3, BusyMore DEF AllBusy
<1> QED
  BY <1>4, <1>5 DEF SettingsGoes

LEMMA OpenTabStep == ASSUME SettingsTyped, AllBusy, NEW tab, OpenTab(tab) PROVE SettingsGoes
<1>1. /\ page' = FreshTab(tab) /\ wizard' = FreshWizard(wizard.review) /\ UNCHANGED <<modelList, nodeLists>>
  BY DEF OpenTab
<1>2. PageShaped(page') /\ page'.restoring = FALSE
  BY <1>1 DEF FreshTab, PageShaped
<1>3. WizardShaped(wizard') /\ wizard'.creating = FALSE /\ wizard'.processing = FALSE
  BY <1>1 DEF FreshWizard, WizardShaped
<1>4. /\ GovShaped(gov') /\ gov'.pool = gov.pool /\ PendingTyped(pending') /\ pending \subseteq pending'
      /\ gov'.loading => gov.loading \/ \E v \in pending' : ForGov(v)
  <2>1. CASE UNCHANGED <<gov, pending>>
    BY <2>1 DEF SettingsTyped
  <2>2. CASE /\ Starts([Pending("initial", {}) EXCEPT !.stage = "refetch"])
             /\ gov' = [gov EXCEPT !.loading = TRUE]
    <3>1. PICK new : new = Staged("initial", "refetch")
      OBVIOUS
    <3>2. PendingShaped(new) /\ StageFits(new) /\ new.kind = "initial"
      BY <3>1, StageMade
    <3>3. PendingTyped(pending') /\ pending' = pending \cup {new}
      BY <2>2, <3>1, <3>2, MorePending DEF SettingsTyped, Starts, Staged
    <3>4. GovShaped(gov') /\ gov'.pool = gov.pool
      BY <2>2 DEF SettingsTyped, GovShaped
    <3> QED
      BY <3>2, <3>3, <3>4 DEF ForGov
  <2> QED
    BY <2>1, <2>2 DEF OpenTab
<1>5. SettingsTyped'
  BY <1>1, <1>2, <1>3, <1>4 DEF SettingsTyped
<1>6. AllBusy'
  BY <1>1, <1>2, <1>3, <1>4, BusyMore DEF AllBusy
<1> QED
  BY <1>5, <1>6 DEF SettingsGoes

LEMMA RestoreStep == ASSUME SettingsTyped, AllBusy, RestoreDefaults PROVE SettingsGoes
<1>1. /\ page' = [page EXCEPT !.restoring = TRUE, !.own = @ \cup {started}]
      /\ UNCHANGED <<modelList, nodeLists, wizard>>
  BY DEF RestoreDefaults
<1>2. PageShaped(page') /\ started \in page'.own
  BY <1>1 DEF SettingsTyped, PageShaped
<1>3. /\ GovShaped(gov') /\ gov'.pool = gov.pool /\ PendingTyped(pending') /\ pending \subseteq pending'
      /\ gov'.loading => gov.loading \/ \E v \in pending' : ForGov(v)
      /\ \E v \in pending' : v.kind = "restore" /\ v.n = started
  <2>1. CASE Presets \ modelList.models # {} /\ StartsGoverning("restore", Presets \ modelList.models)
    BY <2>1, GoverningStarts DEF GovKinds, ModelKinds
  <2>2. CASE Starts([Pending("restore", {}) EXCEPT !.stage = "models"]) /\ UNCHANGED gov
    <3>1. PICK new : new = Staged("restore", "models")
      OBVIOUS
    <3>2. PendingShaped(new) /\ StageFits(new) /\ new.kind = "restore" /\ new.n = started
      BY <3>1, StageMade
    <3>3. PendingTyped(pending') /\ pending' = pending \cup {new}
      BY <2>2, <3>1, <3>2, MorePending DEF SettingsTyped, Starts, Staged
    <3> QED
      BY <2>2, <3>2, <3>3 DEF SettingsTyped
  <2> QED
    BY <2>1, <2>2 DEF RestoreDefaults
<1>4. \E v \in pending' : ForRestoring(v, page'.own)
  BY <1>2, <1>3 DEF ForRestoring
<1>5. SettingsTyped'
  BY <1>1, <1>2, <1>3 DEF SettingsTyped
<1>6. AllBusy'
  <2>1. modelList' = modelList /\ nodeLists' = nodeLists /\ wizard' = wizard
    BY <1>1
  <2>2. Busy(gov, modelList, nodeLists, wizard, page, pending)
    BY DEF AllBusy
  <2>3. Busy(gov', modelList', nodeLists', wizard', page', pending')
    BY <2>1, <2>2, <1>3, <1>4, BusyMore
  <2> QED
    BY <2>3 DEF AllBusy
<1> QED
  BY <1>5, <1>6 DEF SettingsGoes

LEMMA FetchModelsStep == ASSUME SettingsTyped, AllBusy, FetchModels PROVE SettingsGoes
<1>1. PICK new : new = Staged("models", "models")
  OBVIOUS
<1>2. PendingShaped(new) /\ StageFits(new) /\ new.stage = "models"
  BY <1>1, StageMade
<1>3. PendingTyped(pending') /\ pending' = pending \cup {new}
  BY <1>1, <1>2, MorePending DEF FetchModels, SettingsTyped, Starts, Staged
<1>4. ModelsShaped(modelList') /\ UNCHANGED <<gov, page, nodeLists, wizard>>
  BY DEF FetchModels, SettingsTyped, ModelsShaped
<1>5. \E v \in pending' : ForModels(v)
  BY <1>2, <1>3 DEF ForModels
<1>6. SettingsTyped'
  BY <1>3, <1>4 DEF SettingsTyped
<1>7. AllBusy'
  BY <1>3, <1>4, <1>5, BusyMore DEF AllBusy
<1> QED
  BY <1>6, <1>7 DEF SettingsGoes

LEMMA FetchCanistersStep ==
    ASSUME SettingsTyped, AllBusy, NEW kind \in {"canisters", "provision"}, FetchCanisters(kind)
    PROVE  SettingsGoes
<1>1. PICK new : new = Pending(kind, {})
  OBVIOUS
<1>2. PendingShaped(new) /\ StageFits(new) /\ new.kind = kind
  BY <1>1, PendingMade
<1>3. PendingTyped(pending') /\ pending' = pending \cup {new}
  BY <1>1, <1>2, MorePending DEF FetchCanisters, SettingsTyped, Starts
<1>4. GovShaped(gov') /\ gov'.loading = gov.loading /\ UNCHANGED <<modelList, page, nodeLists, wizard>>
  BY DEF FetchCanisters, SettingsTyped, GovShaped
<1>5. \E v \in pending' : ForPool(v)
  BY <1>2, <1>3 DEF ForPool
<1>6. SettingsTyped'
  BY <1>3, <1>4 DEF SettingsTyped
<1>7. AllBusy'
  BY <1>3, <1>4, <1>5, BusyMore DEF AllBusy
<1> QED
  BY <1>6, <1>7 DEF SettingsGoes

\* The wizard, and the lists of nodes that leaving it fetches.
LEMMA ListStarts ==
    ASSUME SettingsTyped, NEW l \in Lists, NEW force \in BOOLEAN, StartsList(l, force)
    PROVE  /\ PendingTyped(pending') /\ pending \subseteq pending' /\ ListsShaped(nodeLists')
           /\ \A k \in Lists : nodeLists'[k].loading => nodeLists[k].loading \/ \E v \in pending' : ForList(v, k)
           /\ \A v \in pending' \ pending : v.kind = "nodes"
<1>1. PICK new : new = [Pending("nodes", {}) EXCEPT !.stage = "lists", !.lists = {l}]
  OBVIOUS
<1>2. PendingShaped(new) /\ StageFits(new) /\ new.stage = "lists" /\ new.lists = {l} /\ new.kind = "nodes"
  BY <1>1, ListMade
<1>3. PendingTyped(pending') /\ pending' = pending \cup {new}
  BY <1>1, <1>2, MorePending DEF StartsList, SettingsTyped, Starts
<1>4. ForList(new, l)
  BY <1>2 DEF ForList
<1>5. PICK b : b = (nodeLists[l].loading \/ force \/ ~nodeLists[l].fetched)
  OBVIOUS
<1>6. nodeLists' = [nodeLists EXCEPT ![l] = [nodeLists[l] EXCEPT !.loading = b]]
  BY <1>5 DEF StartsList
<1>7. b \in BOOLEAN /\ nodeLists \in [Lists -> [loading : BOOLEAN, fetched : BOOLEAN]]
  BY <1>5 DEF SettingsTyped, ListsShaped
<1>8. ListsShaped(nodeLists') /\ \A k \in Lists \ {l} : nodeLists'[k] = nodeLists[k]
  BY <1>6, <1>7 DEF ListsShaped
<1> QED
  BY <1>2, <1>3, <1>4, <1>8

LEMMA WizardStep ==
    ASSUME SettingsTyped, AllBusy,
           \/ \E l \in Lists : FetchNodes(l)
           \/ EnterWizard \/ ParseImportFile \/ ExitWizard \/ ImportDone
           \/ \E r \in ImportRows : RemoveRow(r)
    PROVE  SettingsGoes
<1>1. UNCHANGED <<gov, page, modelList>>
  BY DEF FetchNodes, EnterWizard, ParseImportFile, ExitWizard, ImportDone, RemoveRow
<1>2. /\ WizardShaped(wizard') /\ wizard'.creating = wizard.creating /\ wizard'.own = wizard.own
      /\ wizard'.processing => wizard.processing /\ wizard'.review = wizard.review
  BY DEF SettingsTyped, WizardShaped, FetchNodes, EnterWizard, ParseImportFile, ExitWizard, ImportDone, RemoveRow,
         Left
<1>3. /\ PendingTyped(pending') /\ pending \subseteq pending' /\ ListsShaped(nodeLists')
      /\ \A k \in Lists : nodeLists'[k].loading => nodeLists[k].loading \/ \E v \in pending' : ForList(v, k)
  <2>1. CASE EnterWizard \/ ParseImportFile \/ \E r \in ImportRows : RemoveRow(r)
    BY <2>1 DEF EnterWizard, ParseImportFile, RemoveRow, SettingsTyped
  <2>2. CASE ExitWizard \/ ImportDone
    BY <2>2, ListStarts DEF ExitWizard, ImportDone, Lists
  <2>3. CASE \E l \in Lists : FetchNodes(l)
    BY <2>3, ListStarts DEF FetchNodes
  <2> QED
    BY <2>1, <2>2, <2>3
<1>4. SettingsTyped'
  BY <1>1, <1>2, <1>3 DEF SettingsTyped
<1>5. AllBusy'
  BY <1>1, <1>2, <1>3, BusyMore DEF AllBusy
<1> QED
  BY <1>4, <1>5 DEF SettingsGoes

LEMMA CreateStep == ASSUME SettingsTyped, AllBusy, CreateNode PROVE SettingsGoes
<1>1. PICK new : new = Pending("create", {})
  OBVIOUS
<1>2. PendingShaped(new) /\ StageFits(new) /\ new.kind = "create" /\ new.n = started
  BY <1>1, PendingMade
<1>3. PendingTyped(pending') /\ pending' = pending \cup {new}
  BY <1>1, <1>2, MorePending DEF CreateNode, SettingsTyped, Starts
<1>4. UNCHANGED <<gov, page, modelList, nodeLists>>
  BY DEF CreateNode
<1>5. /\ WizardShaped(wizard') /\ started \in wizard'.own /\ wizard'.processing = wizard.processing
      /\ wizard'.review = wizard.review
  BY DEF CreateNode, SettingsTyped, WizardShaped
<1>6. \E v \in pending' : ForCreating(v, wizard'.own)
  BY <1>2, <1>3, <1>5 DEF ForCreating
<1>7. SettingsTyped'
  BY <1>3, <1>4, <1>5 DEF SettingsTyped
<1>8. AllBusy'
  BY <1>3, <1>4, <1>5, <1>6, BusyMore DEF AllBusy
<1> QED
  BY <1>7, <1>8 DEF SettingsGoes

LEMMA MarksKeep ==
    ASSUME NEW z, WizardShaped(z), NEW n, NEW r, NEW status
    PROVE  LET y == Marks(z, n, r, status)
           IN  /\ WizardShaped(y) /\ y.step = z.step /\ y.review = z.review /\ y.processing = z.processing
               /\ y.creating = z.creating /\ y.own = z.own
<1>1. CASE Marks(z, n, r, status) = z
  BY <1>1
<1>2. CASE Marks(z, n, r, status) = [z EXCEPT !.rows[r] = status]
  <2>1. PICK y : y = [z EXCEPT !.rows[r] = status]
    OBVIOUS
  <2>2. /\ WizardShaped(y) /\ y.step = z.step /\ y.review = z.review /\ y.processing = z.processing
        /\ y.creating = z.creating /\ y.own = z.own
    BY <2>1 DEF WizardShaped
  <2> QED
    BY <1>2, <2>1, <2>2
<1> QED
  BY <1>1, <1>2 DEF Marks

LEMMA ProcessImportStep == ASSUME SettingsTyped, AllBusy, ProcessImport PROVE SettingsGoes
<1>1. PICK todo :
        /\ Starts([Pending("import", {}) EXCEPT !.review = wizard.review, !.todo = todo])
        /\ wizard' = Marks([wizard EXCEPT !.processing = TRUE], wizard.review, todo[1], "processing")
  BY DEF ProcessImport
<1>2. PICK new : new = Imported(wizard.review, todo)
  OBVIOUS
<1>3. PendingShaped(new) /\ StageFits(new) /\ new.kind = "import" /\ new.review = wizard.review
  BY <1>2, ImportMade
<1>4. PendingTyped(pending') /\ pending' = pending \cup {new}
  BY <1>1, <1>2, <1>3, MorePending DEF SettingsTyped, Starts, Imported
<1>5. UNCHANGED <<gov, page, modelList, nodeLists>>
  BY DEF ProcessImport
<1>6. PICK z : z = [wizard EXCEPT !.processing = TRUE]
  OBVIOUS
<1>7. WizardShaped(z) /\ z.review = wizard.review /\ z.creating = wizard.creating /\ z.own = wizard.own
  BY <1>6 DEF SettingsTyped, WizardShaped
<1>8. /\ WizardShaped(wizard') /\ wizard'.review = wizard.review /\ wizard'.creating = wizard.creating
      /\ wizard'.own = wizard.own
  <2>1. PICK y : y = Marks(z, wizard.review, todo[1], "processing")
    OBVIOUS
  <2>2. wizard' = y
    BY <2>1, <1>1, <1>6
  <2>3. WizardShaped(y) /\ y.review = z.review /\ y.creating = z.creating /\ y.own = z.own
    BY <2>1, <1>7, MarksKeep
  <2> QED
    BY <2>2, <2>3, <1>7
<1>9. \E v \in pending' : ForImport(v, wizard'.review)
  BY <1>3, <1>4, <1>8 DEF ForImport
<1>10. SettingsTyped'
  BY <1>4, <1>5, <1>8 DEF SettingsTyped
<1>11. AllBusy'
  BY <1>4, <1>5, <1>8, <1>9, BusyMore DEF AllBusy
<1> QED
  BY <1>10, <1>11 DEF SettingsGoes

\* What the end of an action does to the tab.
LEMMA PageAfterFacts ==
    ASSUME PageShaped(page), NEW w, NEW ok \in BOOLEAN, NEW p, p = PageAfter(w, ok)
    PROVE  /\ PageShaped(p) /\ p.own = page.own
           /\ p.restoring => page.restoring /\ ~ForRestoring(w, page.own)
<1>1. CASE w.n \notin page.own
  <2>1. p = page
    BY <1>1 DEF PageAfter
  <2> QED
    BY <1>1, <2>1 DEF ForRestoring
<1>2. CASE w.n \in page.own /\ w.kind = "restore"
  <2>1. p = [page EXCEPT !.restoring = FALSE]
    BY <1>2 DEF PageAfter, PolicyForms
  <2> QED
    BY <2>1 DEF PageShaped
<1>3. CASE w.n \in page.own /\ w.kind # "restore"
  <2>1. \/ p = page \/ p = [page EXCEPT !.claiming = FALSE]
        \/ p = [page EXCEPT !.form = "none", !.copy = {}, !.submitting = {}]
        \/ p = [page EXCEPT !.submitting = @ \ {w.n}]
    BY <1>3 DEF PageAfter
  <2>2. PageShaped(p) /\ p.own = page.own /\ p.restoring = page.restoring
    BY <2>1 DEF PageShaped
  <2> QED
    BY <1>3, <2>2 DEF ForRestoring
<1> QED
  BY <1>1, <1>2, <1>3

\* One preset after the other.
LEMMA NextPresetFacts ==
    ASSUME NEW w, PendingShaped(w), w.kind = "restore", NEW v, v = NextPreset(w)
    PROVE  /\ PendingShaped(v) /\ StageFits(v) /\ v.kind = "restore" /\ v.n = w.n
           /\ v.stage = "call" => ForGov(v)
<1>1. PICK left : left = w.arg \ {CHOOSE m \in w.arg : TRUE}
  OBVIOUS
<1>2. v = [w EXCEPT !.arg = left, !.stage = IF left = {} THEN "models" ELSE "call"]
  BY <1>1 DEF NextPreset
<1>3. /\ PendingShaped(v) /\ v.kind = "restore" /\ v.n = w.n /\ v.arg = left
      /\ v.stage = IF left = {} THEN "models" ELSE "call"
  BY <1>2 DEF PendingShaped
<1> QED
  BY <1>3 DEF StageFits, ForGov, GovKinds, ModelKinds

LEMMA KindsApart ==
    /\ \A k \in GovKinds \cup {"initial", "models"} :
         k \notin {"canisters", "provision", "nodes", "create", "import"}
    /\ "restore" \in ModelKinds /\ "models" \notin GovKinds /\ ModelKinds \subseteq GovKinds /\ "restore" \in GovKinds
BY DEF GovKinds, ModelKinds, PolicyForms

LEMMA Replaced ==
    ASSUME NEW ps, PendingTyped(ps), NEW w, NEW v, PendingShaped(v), StageFits(v)
    PROVE  PendingTyped((ps \ {w}) \cup {v}) /\ PendingTyped(ps \ {w})
BY DEF PendingTyped

LEMMA CallReturnsStep ==
    ASSUME SettingsTyped, AllBusy, NEW w \in pending, GovernanceCallReturns(w)
    PROVE  SettingsGoes
<1>1. PICK v : v = [w EXCEPT !.stage = IF w.kind \in ModelKinds THEN "models" ELSE "refetch"]
  OBVIOUS
<1>2. PendingShaped(w) /\ StageFits(w) /\ w.kind \in GovKinds /\ w.stage = "call"
  BY DEF SettingsTyped, PendingTyped, GovernanceCallReturns
<1>3. /\ PendingShaped(v) /\ v.kind = w.kind /\ v.n = w.n /\ v.arg = w.arg
      /\ v.stage = IF w.kind \in ModelKinds THEN "models" ELSE "refetch"
  BY <1>1, <1>2 DEF PendingShaped
<1>4. StageFits(v) /\ ForGov(v)
  BY <1>2, <1>3 DEF StageFits, ForGov
<1>5. pending' = (pending \ {w}) \cup {v} /\ UNCHANGED <<page, modelList, nodeLists, wizard>>
  BY <1>1 DEF GovernanceCallReturns
<1>6. GovShaped(gov') /\ gov'.pool = gov.pool
  BY DEF GovernanceCallReturns, SettingsTyped, GovShaped
<1>7. SettingsTyped'
  BY <1>3, <1>4, <1>5, <1>6, Replaced DEF SettingsTyped
<1>8. /\ ~ForPool(w) /\ ~ForModels(w) /\ \A l : ~ForList(w, l)
      /\ \A own : ~ForCreating(w, own) /\ (ForRestoring(w, own) => ForRestoring(v, own))
      /\ \A n : ~ForImport(w, n)
  BY <1>2, <1>3, KindsApart DEF ForPool, ForModels, ForList, ForCreating, ForRestoring, ForImport
<1>9. AllBusy'
  <2>1. v \in pending' /\ pending \ {w} \subseteq pending'
    BY <1>5
  <2> QED
    BY <2>1, <1>4, <1>5, <1>6, <1>8, BusyStep
<1> QED
  BY <1>7, <1>9 DEF SettingsGoes

LEMMA CallFailsGoes ==
    ASSUME SettingsTyped, AllBusy, NEW w \in pending, GovernanceCallFails(w)
    PROVE  SettingsGoes
<1>1. PendingShaped(w) /\ StageFits(w) /\ w.kind \in GovKinds /\ w.stage = "call" /\ PageShaped(page)
  BY DEF SettingsTyped, PendingTyped, GovernanceCallFails
<1>2. /\ ~ForPool(w) /\ ~ForModels(w) /\ \A l : ~ForList(w, l)
      /\ \A own : ~ForCreating(w, own)
      /\ \A n : ~ForImport(w, n)
  BY <1>1, KindsApart DEF ForPool, ForModels, ForList, ForCreating, ForImport
<1>3. UNCHANGED <<modelList, nodeLists, wizard>>
  BY DEF GovernanceCallFails
<1>4. CASE w.kind = "restore"
  <2>1. PICK v : v = NextPreset(w)
    OBVIOUS
  <2>2. /\ PendingShaped(v) /\ StageFits(v) /\ v.kind = "restore" /\ v.n = w.n
        /\ v.stage = "call" => ForGov(v)
    BY <1>1, <1>4, <2>1, NextPresetFacts
  <2>3. /\ pending' = (pending \ {w}) \cup {v} /\ gov' = [gov EXCEPT !.loading = (v.stage = "call")]
        /\ page' = page
    BY <1>4, <2>1 DEF GovernanceCallFails
  <2>4. GovShaped(gov') /\ gov'.pool = gov.pool /\ gov'.loading = (v.stage = "call")
    BY <2>3 DEF SettingsTyped, GovShaped
  <2>5. SettingsTyped'
    BY <1>3, <2>2, <2>3, <2>4, Replaced DEF SettingsTyped
  <2>6. \A own : ForRestoring(w, own) => ForRestoring(v, own)
    BY <2>2 DEF ForRestoring
  <2>7. v \in pending' /\ pending \ {w} \subseteq pending'
    BY <2>3
  <2>8. AllBusy'
    BY <1>2, <1>3, <2>2, <2>3, <2>4, <2>6, <2>7, BusyStep
  <2> QED
    BY <2>5, <2>8 DEF SettingsGoes
<1>5. CASE w.kind # "restore"
  <2>1. /\ pending' = pending \ {w} /\ gov' = [gov EXCEPT !.loading = FALSE]
        /\ page' = PageAfter(w, FALSE)
    BY <1>5 DEF GovernanceCallFails
  <2>2. GovShaped(gov') /\ gov'.pool = gov.pool /\ gov'.loading = FALSE
    BY <2>1 DEF SettingsTyped, GovShaped
  <2>3. /\ PageShaped(page') /\ page'.own = page.own
        /\ page'.restoring => page.restoring /\ ~ForRestoring(w, page.own)
    BY <1>1, <2>1, PageAfterFacts
  <2>4. PendingTyped(pending')
    BY <2>1 DEF SettingsTyped, PendingTyped
  <2>5. SettingsTyped'
    BY <1>3, <2>2, <2>3, <2>4 DEF SettingsTyped
  <2>6. pending \ {w} \subseteq pending'
    BY <2>1
  <2>7. AllBusy'
    BY <1>2, <1>3, <2>2, <2>3, <2>6, BusyStep
  <2> QED
    BY <2>5, <2>7 DEF SettingsGoes
<1> QED
  BY <1>4, <1>5

LEMMA QueriesStep ==
    ASSUME SettingsTyped, AllBusy, NEW w \in pending, QueriesExecute(w)
    PROVE  SettingsGoes
<1>1. PICK v : v = [w EXCEPT !.stage = "answer", !.arg = index.rules, !.seen = index.managed]
  OBVIOUS
<1>2. /\ PendingShaped(w) /\ StageFits(w) /\ w.stage = "refetch"
      /\ w.kind \in (GovKinds \ ModelKinds) \cup {"initial"}
  BY DEF SettingsTyped, PendingTyped, QueriesExecute, StageFits
<1>3. PendingShaped(v) /\ v.kind = w.kind /\ v.n = w.n /\ v.stage = "answer"
  BY <1>1, <1>2 DEF PendingShaped
<1>4. StageFits(v) /\ ForGov(v)
  BY <1>2, <1>3, KindsApart DEF StageFits, ForGov
<1>5. pending' = (pending \ {w}) \cup {v} /\ UNCHANGED <<gov, page, modelList, nodeLists, wizard>>
  BY <1>1 DEF QueriesExecute
<1>6. SettingsTyped'
  BY <1>3, <1>4, <1>5, Replaced DEF SettingsTyped
<1>7. /\ ~ForPool(w) /\ ~ForModels(w) /\ \A l : ~ForList(w, l)
      /\ \A own : ~ForCreating(w, own) /\ ~ForRestoring(w, own)
      /\ \A n : ~ForImport(w, n)
  BY <1>2, KindsApart DEF ForPool, ForModels, ForList, ForCreating, ForRestoring, ForImport
<1>8. AllBusy'
  <2>1. v \in pending' /\ pending \ {w} \subseteq pending'
    BY <1>5
  <2> QED
    BY <2>1, <1>4, <1>5, <1>7, BusyStep
<1> QED
  BY <1>6, <1>8 DEF SettingsGoes

LEMMA InitialDataStep ==
    ASSUME SettingsTyped, AllBusy, NEW w \in pending, InitialDataReturns(w)
    PROVE  SettingsGoes
<1>1. /\ w.stage = "answer" /\ w.kind \in (GovKinds \ ModelKinds) \cup {"initial"} /\ PageShaped(page)
  BY DEF SettingsTyped, PendingTyped, InitialDataReturns, StageFits
<1>2. GovShaped(gov') /\ gov'.loading = FALSE /\ gov'.pool = gov.pool
  BY DEF InitialDataReturns, SettingsTyped, GovShaped
<1>3. pending' = pending \ {w} /\ page' = PageAfter(w, TRUE) /\ UNCHANGED <<modelList, nodeLists, wizard>>
  BY DEF InitialDataReturns
<1>4. /\ PageShaped(page') /\ page'.own = page.own
      /\ page'.restoring => page.restoring /\ ~ForRestoring(w, page.own)
  BY <1>1, <1>3, PageAfterFacts
<1>5. PendingTyped(pending')
  BY <1>3 DEF SettingsTyped, PendingTyped
<1>6. SettingsTyped'
  BY <1>2, <1>3, <1>4, <1>5 DEF SettingsTyped
<1>7. /\ ~ForPool(w) /\ ~ForModels(w) /\ \A l : ~ForList(w, l)
      /\ \A own : ~ForCreating(w, own)
      /\ \A n : ~ForImport(w, n)
  BY <1>1, KindsApart DEF ForPool, ForModels, ForList, ForCreating, ForImport
<1>8. pending \ {w} \subseteq pending'
  BY <1>3
<1>9. AllBusy'
  BY <1>2, <1>3, <1>4, <1>7, <1>8, BusyStep
<1> QED
  BY <1>6, <1>9 DEF SettingsGoes

LEMMA ModelsStep ==
    ASSUME SettingsTyped, AllBusy, NEW w \in pending, ModelsReturn(w)
    PROVE  SettingsGoes
<1>1. /\ PendingShaped(w) /\ w.stage = "models" /\ w.kind \in ModelKinds \cup {"models"} /\ PageShaped(page)
  BY DEF SettingsTyped, PendingTyped, ModelsReturn, StageFits
<1>2. /\ ~ForPool(w) /\ \A l : ~ForList(w, l)
      /\ \A own : ~ForCreating(w, own)
      /\ \A n : ~ForImport(w, n)
  BY <1>1, KindsApart DEF ForPool, ForList, ForCreating, ForImport
<1>3. UNCHANGED <<nodeLists, wizard>>
  BY DEF ModelsReturn
<1>4. ModelsShaped(modelList') /\ modelList'.loading = FALSE
  BY DEF ModelsReturn, SettingsTyped, ModelsShaped
<1>5. CASE w.kind = "restore" /\ w.arg # {}
  <2>1. PICK v : v = NextPreset(w)
    OBVIOUS
  <2>2. /\ PendingShaped(v) /\ StageFits(v) /\ v.kind = "restore" /\ v.n = w.n
        /\ v.stage = "call" => ForGov(v)
    BY <1>1, <1>5, <2>1, NextPresetFacts
  <2>3. /\ pending' = (pending \ {w}) \cup {v} /\ gov' = [gov EXCEPT !.loading = (v.stage = "call")]
        /\ page' = page
    BY <1>5, <2>1 DEF ModelsReturn
  <2>4. GovShaped(gov') /\ gov'.pool = gov.pool /\ gov'.loading = (v.stage = "call")
    BY <2>3 DEF SettingsTyped, GovShaped
  <2>5. SettingsTyped'
    BY <1>3, <1>4, <2>2, <2>3, <2>4, Replaced DEF SettingsTyped
  <2>6. \A own : ForRestoring(w, own) => ForRestoring(v, own)
    BY <2>2 DEF ForRestoring
  <2>7. v \in pending' /\ pending \ {w} \subseteq pending'
    BY <2>3
  <2>8. AllBusy'
    BY <1>2, <1>3, <1>4, <2>2, <2>3, <2>4, <2>6, <2>7, BusyStep
  <2> QED
    BY <2>5, <2>8 DEF SettingsGoes
<1>6. CASE ~(w.kind = "restore" /\ w.arg # {})
  <2>1. /\ pending' = pending \ {w} /\ page' = PageAfter(w, TRUE)
        /\ gov' = IF w.kind \in {"model", "toggle"} THEN [gov EXCEPT !.loading = FALSE] ELSE gov
    BY <1>6 DEF ModelsReturn
  <2>2. /\ GovShaped(gov') /\ gov'.pool = gov.pool
        /\ gov'.loading => gov.loading /\ w.kind \notin {"model", "toggle"}
    BY <2>1 DEF SettingsTyped, GovShaped
  <2>3. /\ PageShaped(page') /\ page'.own = page.own
        /\ page'.restoring => page.restoring /\ ~ForRestoring(w, page.own)
    BY <1>1, <2>1, PageAfterFacts
  <2>4. PendingTyped(pending')
    BY <2>1 DEF SettingsTyped, PendingTyped
  <2>5. SettingsTyped'
    BY <1>3, <1>4, <2>2, <2>3, <2>4 DEF SettingsTyped
  <2>6. pending \ {w} \subseteq pending'
    BY <2>1
  <2>7. w.kind \notin {"model", "toggle"} => ~ForGov(w)
    BY <1>1, <1>6, KindsApart DEF ForGov, ModelKinds
  <2>8. AllBusy'
    BY <1>2, <1>3, <1>4, <2>2, <2>3, <2>6, <2>7, BusyStep
  <2> QED
    BY <2>5, <2>8 DEF SettingsGoes
<1> QED
  BY <1>5, <1>6

LEMMA PoolStep ==
    ASSUME SettingsTyped, AllBusy, NEW w \in pending, PoolReturns(w)
    PROVE  SettingsGoes
<1>1. /\ PendingShaped(w) /\ w.kind \in {"provision", "canisters"} /\ w.stage \in {"call", "storage"}
  BY DEF SettingsTyped, PendingTyped, PoolReturns
<1>2. /\ ~ForGov(w) /\ ~ForModels(w) /\ \A l : ~ForList(w, l)
      /\ \A own : ~ForCreating(w, own) /\ ~ForRestoring(w, own)
      /\ \A n : ~ForImport(w, n)
  BY <1>1, KindsApart DEF ForGov, ForModels, ForList, ForCreating, ForRestoring, ForImport
<1>3. UNCHANGED <<page, modelList, nodeLists, wizard>>
  BY DEF PoolReturns
<1>4. CASE /\ w.stage = "call"
           /\ pending' = (pending \ {w}) \cup {IF w.kind = "provision" THEN [w EXCEPT !.kind = "canisters"]
                                               ELSE [w EXCEPT !.stage = "storage"]}
           /\ gov' = [gov EXCEPT !.pool = (w.kind = "provision" \/ gov.pool)]
  <2>1. PICK v : v = IF w.kind = "provision" THEN [w EXCEPT !.kind = "canisters"] ELSE [w EXCEPT !.stage = "storage"]
    OBVIOUS
  <2>2. PendingShaped(v) /\ v.kind = "canisters" /\ v.stage \in {"call", "storage"}
    BY <1>1, <1>4, <2>1 DEF PendingShaped
  <2>3. StageFits(v) /\ ForPool(v)
    BY <2>2 DEF StageFits, ForPool
  <2>4. GovShaped(gov') /\ gov'.loading = gov.loading
    BY <1>4 DEF SettingsTyped, GovShaped
  <2>5. pending' = (pending \ {w}) \cup {v}
    BY <1>4, <2>1
  <2>6. SettingsTyped'
    BY <1>3, <2>2, <2>3, <2>4, <2>5, Replaced DEF SettingsTyped
  <2>7. v \in pending' /\ pending \ {w} \subseteq pending'
    BY <2>5
  <2>8. AllBusy'
    BY <1>2, <1>3, <2>3, <2>4, <2>7, BusyStep
  <2> QED
    BY <2>6, <2>8 DEF SettingsGoes
<1>5. CASE pending' = pending \ {w} /\ gov' = [gov EXCEPT !.pool = FALSE]
  <2>1. GovShaped(gov') /\ gov'.loading = gov.loading /\ gov'.pool = FALSE
    BY <1>5 DEF SettingsTyped, GovShaped
  <2>2. PendingTyped(pending')
    BY <1>5 DEF SettingsTyped, PendingTyped
  <2>3. SettingsTyped'
    BY <1>3, <2>1, <2>2 DEF SettingsTyped
  <2>4. pending \ {w} \subseteq pending'
    BY <1>5
  <2>5. AllBusy'
    BY <1>2, <1>3, <2>1, <2>4, BusyStep
  <2> QED
    BY <2>3, <2>5 DEF SettingsGoes
<1> QED
  BY <1>4, <1>5 DEF PoolReturns

\* The loop of an import: while rows are left it is the action that clears
\* processing, and at its end it has cleared it.
LEMMA RowEndsFacts ==
    ASSUME SettingsTyped, NEW w \in pending, w.kind = "import", NEW status, RowEnds(w, status)
    PROVE  /\ WizardShaped(wizard') /\ PendingTyped(pending') /\ pending \ {w} \subseteq pending'
           /\ wizard'.creating = wizard.creating /\ wizard'.own = wizard.own /\ wizard'.review = wizard.review
           /\ wizard'.processing =>
                wizard.processing /\ (~ForImport(w, wizard.review) \/ \E v \in pending' : ForImport(v, wizard'.review))
<1>1. PICK n, rest, marked : n = w.review /\ rest = Tail(w.todo) /\ marked = Marks(wizard, n, Head(w.todo), status)
  OBVIOUS
<1>2. /\ WizardShaped(marked) /\ marked.review = wizard.review /\ marked.processing = wizard.processing
      /\ marked.creating = wizard.creating /\ marked.own = wizard.own
  BY <1>1, MarksKeep DEF SettingsTyped
<1>3. PendingShaped(w)
  BY DEF SettingsTyped, PendingTyped
<1>4. CASE rest = <<>>
  <2>1. /\ pending' = pending \ {w}
        /\ wizard' = IF wizard.review = n THEN [marked EXCEPT !.processing = FALSE] ELSE wizard
    BY <1>1, <1>4 DEF RowEnds
  <2>2. PendingTyped(pending')
    BY <2>1 DEF SettingsTyped, PendingTyped
  <2>3. CASE wizard.review = n
    <3>1. /\ WizardShaped(wizard') /\ wizard'.creating = wizard.creating /\ wizard'.own = wizard.own
          /\ wizard'.review = wizard.review /\ wizard'.processing = FALSE
      BY <1>2, <2>1, <2>3 DEF WizardShaped
    <3> QED
      BY <2>1, <2>2, <3>1
  <2>4. CASE wizard.review # n
    BY <1>1, <2>1, <2>2, <2>4 DEF SettingsTyped, ForImport
  <2> QED
    BY <2>3, <2>4
<1>5. CASE rest # <<>>
  <2>1. PICK v : v = [w EXCEPT !.todo = rest, !.stage = "call"]
    OBVIOUS
  <2>2. /\ pending' = (pending \ {w}) \cup {v}
        /\ wizard' = Marks(marked, n, Head(rest), "processing")
    BY <1>1, <1>5, <2>1 DEF RowEnds
  <2>3. PendingShaped(v) /\ v.kind = "import" /\ v.stage = "call" /\ v.review = n
    BY <1>1, <1>3, <2>1 DEF PendingShaped
  <2>4. StageFits(v)
    BY <2>3 DEF StageFits
  <2>5. PendingTyped(pending')
    BY <2>2, <2>3, <2>4, Replaced DEF SettingsTyped
  <2>6. PICK y : y = Marks(marked, n, Head(rest), "processing")
    OBVIOUS
  <2>7. /\ WizardShaped(y) /\ y.review = marked.review /\ y.processing = marked.processing
        /\ y.creating = marked.creating /\ y.own = marked.own
    BY <1>2, <2>6, MarksKeep
  <2>8. wizard' = y
    BY <2>2, <2>6
  <2>9. ForImport(w, wizard.review) => ForImport(v, wizard'.review)
    BY <1>1, <1>2, <2>3, <2>7, <2>8 DEF ForImport
  <2> QED
    BY <1>2, <2>2, <2>5, <2>7, <2>8, <2>9
<1> QED
  BY <1>4, <1>5

LEMMA CreateFailsStep ==
    ASSUME SettingsTyped, AllBusy, NEW w \in pending, CreateNodeFails(w)
    PROVE  SettingsGoes
<1>1. /\ PendingShaped(w) /\ w.kind \in {"create", "import"} /\ w.stage = "call"
  BY DEF SettingsTyped, PendingTyped, CreateNodeFails
<1>2. /\ ~ForGov(w) /\ ~ForModels(w) /\ ~ForPool(w) /\ \A l : ~ForList(w, l)
      /\ \A own : ~ForRestoring(w, own)
  BY <1>1, KindsApart DEF ForGov, ForModels, ForList, ForPool, ForRestoring
<1>3. UNCHANGED <<gov, page, modelList, nodeLists>>
  BY DEF CreateNodeFails
<1>4. CASE w.kind = "import"
  <2>1. /\ WizardShaped(wizard') /\ PendingTyped(pending') /\ pending \ {w} \subseteq pending'
        /\ wizard'.creating = wizard.creating /\ wizard'.own = wizard.own /\ wizard'.review = wizard.review
        /\ wizard'.processing =>
             wizard.processing /\ (~ForImport(w, wizard.review) \/ \E v \in pending' : ForImport(v, wizard'.review))
    BY <1>4, RowEndsFacts DEF CreateNodeFails
  <2>2. \A own : ~ForCreating(w, own)
    BY <1>4 DEF ForCreating
  <2>3. SettingsTyped'
    BY <1>3, <2>1 DEF SettingsTyped
  <2>4. AllBusy'
    BY <1>2, <1>3, <2>1, <2>2, BusyStep
  <2> QED
    BY <2>3, <2>4 DEF SettingsGoes
<1>5. CASE w.kind = "create"
  <2>1. /\ pending' = pending \ {w}
        /\ wizard' = IF w.n \in wizard.own THEN [wizard EXCEPT !.creating = FALSE] ELSE wizard
    BY <1>5 DEF CreateNodeFails
  <2>2. /\ WizardShaped(wizard') /\ wizard'.own = wizard.own /\ wizard'.review = wizard.review
        /\ wizard'.processing = wizard.processing
        /\ wizard'.creating => wizard.creating /\ w.n \notin wizard.own
    BY <2>1 DEF SettingsTyped, WizardShaped
  <2>3. PendingTyped(pending') /\ pending \ {w} \subseteq pending'
    BY <2>1 DEF SettingsTyped, PendingTyped
  <2>4. (\A n : ~ForImport(w, n)) /\ (w.n \notin wizard.own => ~ForCreating(w, wizard.own))
    BY <1>5 DEF ForImport, ForCreating
  <2>5. SettingsTyped'
    BY <1>3, <2>2, <2>3 DEF SettingsTyped
  <2>6. AllBusy'
    BY <1>2, <1>3, <2>2, <2>3, <2>4, BusyStep
  <2> QED
    BY <2>5, <2>6 DEF SettingsGoes
<1> QED
  BY <1>1, <1>4, <1>5

LEMMA CreateReturnsStep ==
    ASSUME SettingsTyped, AllBusy, NEW w \in pending, CreateNodeReturns(w)
    PROVE  SettingsGoes
<1>1. /\ PendingShaped(w) /\ w.kind \in {"create", "import"} /\ w.stage = "call"
  BY DEF SettingsTyped, PendingTyped, CreateNodeReturns
<1>2. /\ ~ForGov(w) /\ ~ForModels(w) /\ ~ForPool(w)
      /\ \A own : ~ForRestoring(w, own)
  BY <1>1, KindsApart DEF ForGov, ForModels, ForPool, ForRestoring
<1>3. UNCHANGED <<gov, page, modelList, wizard>>
  BY DEF CreateNodeReturns
<1>4. PICK v : v = [w EXCEPT !.stage = "lists", !.lists = Lists]
  OBVIOUS
<1>5. /\ PendingShaped(v) /\ v.kind = w.kind /\ v.stage = "lists" /\ v.lists = Lists /\ v.review = w.review
      /\ v.n = w.n
  BY <1>1, <1>4 DEF PendingShaped
<1>6. StageFits(v)
  BY <1>1, <1>5 DEF StageFits
<1>7. pending' = (pending \ {w}) \cup {v}
  BY <1>4 DEF CreateNodeReturns
<1>8. ListsShaped(nodeLists')
  BY DEF CreateNodeReturns, ListsShaped
<1>9. SettingsTyped'
  BY <1>3, <1>5, <1>6, <1>7, <1>8, Replaced DEF SettingsTyped
<1>10. v \in pending' /\ pending \ {w} \subseteq pending'
  BY <1>7
<1>11. /\ \A l \in Lists : ForList(v, l)
       /\ \A own : ForCreating(w, own) => ForCreating(v, own)
       /\ \A n : ForImport(w, n) => ForImport(v, n)
  BY <1>5 DEF ForList, ForCreating, ForImport
<1>12. AllBusy'
  BY <1>2, <1>3, <1>10, <1>11, BusyStep
<1> QED
  BY <1>9, <1>12 DEF SettingsGoes

\* A list that is answered stops loading; the others stay with the action.
LEMMA ListStep ==
    ASSUME SettingsTyped, AllBusy, NEW w \in pending, NEW l \in Lists, ListReturns(w, l)
    PROVE  SettingsGoes
<1>1. /\ PendingShaped(w) /\ w.stage = "lists" /\ l \in w.lists /\ w.kind \in {"nodes", "create", "import"}
      /\ ListsShaped(nodeLists)
  BY DEF SettingsTyped, PendingTyped, ListReturns, StageFits
<1>2. /\ ~ForGov(w) /\ ~ForModels(w) /\ ~ForPool(w)
      /\ \A own : ~ForRestoring(w, own)
  BY <1>1, KindsApart DEF ForGov, ForModels, ForPool, ForRestoring
<1>3. UNCHANGED <<gov, page, modelList>>
  BY DEF ListReturns
<1>4. PICK fetched \in {TRUE, nodeLists[l].fetched} :
        LET lists == [nodeLists EXCEPT ![l] = [loading |-> FALSE, fetched |-> fetched]]
        IN  IF w.lists # {l}
            THEN /\ pending' = (pending \ {w}) \cup {[w EXCEPT !.lists = @ \ {l}]}
                 /\ nodeLists' = lists /\ UNCHANGED wizard
            ELSE IF w.kind = "create"
            THEN /\ pending' = (pending \ {w}) \cup {[w EXCEPT !.kind = "nodes", !.lists = {"mine"}]}
                 /\ nodeLists' = [lists EXCEPT !["mine"].loading = TRUE]
                 /\ wizard' = IF w.n \in wizard.own THEN [Left(wizard) EXCEPT !.creating = FALSE] ELSE wizard
            ELSE /\ nodeLists' = lists
                 /\ IF w.kind = "import" THEN RowEnds(w, "success")
                    ELSE pending' = pending \ {w} /\ UNCHANGED wizard
  BY DEF ListReturns
<1>5. PICK lists : lists = [nodeLists EXCEPT ![l] = [loading |-> FALSE, fetched |-> fetched]]
  OBVIOUS
<1>6. /\ ListsShaped(lists) /\ lists[l].loading = FALSE /\ \A k \in Lists \ {l} : lists[k] = nodeLists[k]
  BY <1>1, <1>4, <1>5 DEF ListsShaped
<1>7. w.lists = {l} => \A k \in Lists \ {l} : ~ForList(w, k)
  BY DEF ForList
<1>8. CASE w.lists # {l}
  <2>1. PICK v : v = [w EXCEPT !.lists = w.lists \ {l}]
    OBVIOUS
  <2>2. pending' = (pending \ {w}) \cup {v} /\ nodeLists' = lists /\ wizard' = wizard
    BY <1>4, <1>5, <1>8, <2>1
  <2>3. /\ PendingShaped(v) /\ v.kind = w.kind /\ v.stage = "lists" /\ v.lists = w.lists \ {l}
        /\ v.review = w.review /\ v.n = w.n
    BY <1>1, <2>1 DEF PendingShaped
  <2>4. StageFits(v)
    BY <1>1, <2>3 DEF StageFits
  <2>5. SettingsTyped'
    BY <1>3, <1>6, <2>2, <2>3, <2>4, Replaced DEF SettingsTyped
  <2>6. v \in pending' /\ pending \ {w} \subseteq pending'
    BY <2>2
  <2>7. /\ \A k \in Lists \ {l} : ForList(w, k) => ForList(v, k)
        /\ \A own : ForCreating(w, own) => ForCreating(v, own)
        /\ \A n : ForImport(w, n) => ForImport(v, n)
    BY <2>3 DEF ForList, ForCreating, ForImport
  <2>8. AllBusy'
    BY <1>2, <1>3, <1>6, <2>2, <2>6, <2>7, BusyStep
  <2> QED
    BY <2>5, <2>8 DEF SettingsGoes
<1>9. CASE w.lists = {l} /\ w.kind = "create"
  <2>1. PICK v : v = [w EXCEPT !.kind = "nodes", !.lists = {"mine"}]
    OBVIOUS
  <2>2. /\ pending' = (pending \ {w}) \cup {v} /\ nodeLists' = [lists EXCEPT !["mine"].loading = TRUE]
        /\ wizard' = IF w.n \in wizard.own THEN [Left(wizard) EXCEPT !.creating = FALSE] ELSE wizard
    BY <1>4, <1>5, <1>9, <2>1
  <2>3. /\ PendingShaped(v) /\ v.kind = "nodes" /\ v.stage = "lists" /\ v.lists = {"mine"}
    BY <1>1, <2>1 DEF PendingShaped
  <2>4. StageFits(v) /\ ForList(v, "mine")
    BY <2>3 DEF StageFits, ForList
  <2>5. ListsShaped(nodeLists') /\ \A k \in Lists \ {"mine"} : nodeLists'[k] = lists[k]
    BY <1>6, <2>2 DEF ListsShaped
  <2>6. /\ WizardShaped(wizard') /\ wizard'.own = wizard.own /\ wizard'.review = wizard.review
        /\ wizard'.processing => wizard.processing
        /\ wizard'.creating => wizard.creating /\ w.n \notin wizard.own
    BY <2>2 DEF SettingsTyped, WizardShaped, Left
  <2>7. SettingsTyped'
    BY <1>3, <2>2, <2>3, <2>4, <2>5, <2>6, Replaced DEF SettingsTyped
  <2>8. v \in pending' /\ pending \ {w} \subseteq pending'
    BY <2>2
  <2>9. (\A n : ~ForImport(w, n)) /\ (w.n \notin wizard.own => ~ForCreating(w, wizard.own))
    BY <1>9 DEF ForImport, ForCreating
  <2>10. \A k \in Lists : nodeLists'[k].loading =>
            (nodeLists[k].loading /\ ~ForList(w, k)) \/ \E u \in pending' : ForList(u, k)
    BY <1>6, <1>7, <1>9, <2>4, <2>5, <2>8
  <2>11. AllBusy'
    BY <1>2, <1>3, <2>6, <2>8, <2>9, <2>10, BusyStep
  <2> QED
    BY <2>7, <2>11 DEF SettingsGoes
<1>10. CASE w.lists = {l} /\ w.kind # "create"
  <2>1. nodeLists' = lists /\ \A own : ~ForCreating(w, own)
    BY <1>4, <1>5, <1>10 DEF ForCreating
  <2>2. /\ WizardShaped(wizard') /\ PendingTyped(pending') /\ pending \ {w} \subseteq pending'
        /\ wizard'.creating = wizard.creating /\ wizard'.own = wizard.own /\ wizard'.review = wizard.review
        /\ wizard'.processing =>
             wizard.processing /\ (~ForImport(w, wizard.review) \/ \E v \in pending' : ForImport(v, wizard'.review))
    <3>1. CASE w.kind = "import"
      BY <1>4, <1>10, <3>1, RowEndsFacts
    <3>2. CASE w.kind = "nodes"
      BY <1>4, <1>10, <3>2 DEF SettingsTyped, PendingTyped, ForImport
    <3> QED
      BY <1>1, <1>10, <3>1, <3>2
  <2>3. SettingsTyped'
    BY <1>3, <1>6, <2>1, <2>2 DEF SettingsTyped
  <2>4. AllBusy'
    BY <1>2, <1>3, <1>6, <1>7, <1>10, <2>1, <2>2, BusyStep
  <2> QED
    BY <2>3, <2>4 DEF SettingsGoes
<1> QED
  BY <1>8, <1>9, <1>10

LEMMA SettingsStart == SettingsInit => SettingsTyped /\ AllBusy
<1> SUFFICES ASSUME SettingsInit PROVE SettingsTyped /\ AllBusy
  OBVIOUS
<1>1. GovShaped(gov) /\ gov.loading = FALSE /\ gov.pool = FALSE
  BY DEF SettingsInit, GovShaped
<1>2. PageShaped(page) /\ page.restoring = FALSE
  BY DEF SettingsInit, PageShaped, FreshTab
<1>3. ModelsShaped(modelList) /\ modelList.loading = FALSE
  BY DEF SettingsInit, ModelsShaped
<1>4. ListsShaped(nodeLists) /\ \A l \in Lists : nodeLists[l].loading = FALSE
  BY DEF SettingsInit, ListsShaped
<1>5. WizardShaped(wizard) /\ wizard.creating = FALSE /\ wizard.processing = FALSE
  BY DEF SettingsInit, WizardShaped, FreshWizard
<1>6. PendingTyped(pending)
  BY DEF SettingsInit, PendingTyped
<1> QED
  BY <1>1, <1>2, <1>3, <1>4, <1>5, <1>6 DEF SettingsTyped, AllBusy, Busy

LEMMA SettingsStep == ASSUME SettingsTyped, AllBusy, SettingsNext PROVE SettingsGoes
<1>1. CASE \E tab \in {"governance", "nodes"} : OpenTab(tab)
  BY <1>1, OpenTabStep
<1>2. CASE \/ ClaimManagerRole \/ ExitForm \/ SubmitForm
           \/ (\E form \in PolicyForms \cup {"add", "model"} : EnterForm(form))
           \/ (\E kind \in {"row", "removeManager", "toggle"} : RowAction(kind))
  BY <1>2, FormSteps
<1>3. CASE RestoreDefaults
  BY <1>3, RestoreStep
<1>4. CASE FetchModels
  BY <1>4, FetchModelsStep
<1>5. CASE \E kind \in {"canisters", "provision"} : FetchCanisters(kind)
  BY <1>5, FetchCanistersStep
<1>6. CASE \/ \E l \in Lists : FetchNodes(l)
           \/ EnterWizard \/ ParseImportFile \/ ExitWizard \/ ImportDone
           \/ \E r \in ImportRows : RemoveRow(r)
  BY <1>6, WizardStep
<1>7. CASE CreateNode
  BY <1>7, CreateStep
<1>8. CASE ProcessImport
  BY <1>8, ProcessImportStep
<1>9. CASE \E w \in pending : SettingsReply(w)
  <2>1. PICK w \in pending : SettingsReply(w)
    BY <1>9
  <2>2. CASE GovernanceCallReturns(w)
    BY <2>2, CallReturnsStep
  <2>3. CASE GovernanceCallFails(w)
    BY <2>3, CallFailsGoes
  <2>4. CASE QueriesExecute(w)
    BY <2>4, QueriesStep
  <2>5. CASE InitialDataReturns(w)
    BY <2>5, InitialDataStep
  <2>6. CASE ModelsReturn(w)
    BY <2>6, ModelsStep
  <2>7. CASE PoolReturns(w)
    BY <2>7, PoolStep
  <2>8. CASE CreateNodeFails(w)
    BY <2>8, CreateFailsStep
  <2>9. CASE CreateNodeReturns(w)
    BY <2>9, CreateReturnsStep
  <2>10. CASE \E l \in Lists : ListReturns(w, l)
    BY <2>10, ListStep
  <2> QED
    BY <2>1, <2>2, <2>3, <2>4, <2>5, <2>6, <2>7, <2>8, <2>9, <2>10 DEF SettingsReply
<1> QED
  BY <1>1, <1>2, <1>3, <1>4, <1>5, <1>6, <1>7, <1>8, <1>9 DEF SettingsNext

\* A spinner of the settings means work: whenever a store of the settings says
\* that it is loading, an action that will clear the flag is under way, however
\* many actions overlap on the flag and whichever of their calls fail.
THEOREM SpinnersMeanWork == SettingsSpec => []LoadingMeansWork
<1>1. SettingsInit => SettingsTyped /\ AllBusy
  BY SettingsStart
<1>2. SettingsTyped /\ AllBusy /\ [SettingsNext]_settingsVars => (SettingsTyped /\ AllBusy)'
  <2>1. CASE SettingsNext
    BY <2>1, SettingsStep DEF SettingsGoes
  <2>2. CASE UNCHANGED settingsVars
    BY <2>2 DEF settingsVars, SettingsTyped, AllBusy
  <2> QED
    BY <2>1, <2>2
<1>3. SettingsTyped /\ AllBusy => LoadingMeansWork
  BY DEF AllBusy, Busy, LoadingMeansWork, ForGov, ForPool, ForModels, ForList, ForCreating, ForImport, ForRestoring
<1> QED
  BY <1>1, <1>2, <1>3, PTL DEF SettingsSpec

-----------------------------------------------------------------------------
(* CreatedOnce: the loop of an import owns the rows that it has found.      *)

Imports(ps) == {w \in ps : w.kind = "import"}
RowStatuses == {"idle", "processing", "success", "error"}

\* The rows left to a loop are not created, but the one whose lists it awaits.
ImportFits(w, c) ==
    /\ w.review \in 1..MaxReviews /\ w.stage \in {"call", "lists"}
    /\ w.todo \in Seq(ImportRows) /\ w.todo # <<>>
    /\ \A i, j \in DOMAIN w.todo : i < j => w.todo[i] # w.todo[j]
    /\ \A i \in DOMAIN w.todo : c[<<w.review, w.todo[i]>>] = IF i = 1 /\ w.stage = "lists" THEN 1 ELSE 0

RowsFit(z) == z.rows \in [DOMAIN z.rows -> RowStatuses] /\ DOMAIN z.rows \subseteq ImportRows

\* The rows of the review that is shown: those that a retry takes are not
\* created, and while a loop works for this review there is no retry.
ReviewFits(z, c, ps) ==
    /\ z.review \in 1..MaxReviews /\ RowsFit(z)
    /\ \A r \in NodesToProcess(z.rows) : c[<<z.review, r>>] = 0
    /\ \A w \in Imports(ps) : w.review = z.review =>
         z.processing /\ (Head(w.todo) \in DOMAIN z.rows => z.rows[Head(w.todo)] = "processing")

ImportsSound ==
    /\ wizard.review \in Nat /\ created \in [Reviewed -> {0, 1}]
    /\ \A w \in Imports(pending) : ImportFits(w, created) /\ w.review <= wizard.review
    /\ \A v, w \in Imports(pending) : v.review = w.review => v = w
    /\ \A n \in 1..MaxReviews, r \in ImportRows : n > wizard.review => created[<<n, r>>] = 0
    /\ wizard.step = 2 => ReviewFits(wizard, created, pending)

\* A step that is not of an import: the review may lose rows, or go.
LEMMA SameImports ==
    ASSUME ImportsSound, created' = created, Imports(pending') = Imports(pending),
           wizard'.review = wizard.review,
           wizard'.step = 2 =>
             /\ wizard.step = 2 /\ wizard'.processing = wizard.processing /\ RowsFit(wizard')
             /\ DOMAIN wizard'.rows \subseteq DOMAIN wizard.rows
             /\ \A r \in DOMAIN wizard'.rows : wizard'.rows[r] = wizard.rows[r]
    PROVE  ImportsSound'
<1>1. ASSUME wizard'.step = 2 PROVE ReviewFits(wizard', created', pending')
  <2>1. NodesToProcess(wizard'.rows) \subseteq NodesToProcess(wizard.rows)
    BY <1>1 DEF NodesToProcess
  <2>2. ReviewFits(wizard, created, pending)
    BY <1>1 DEF ImportsSound
  <2> QED
    BY <1>1, <2>1, <2>2 DEF ReviewFits
<1> QED
  BY <1>1 DEF ImportsSound

LEMMA ImportsStay ==
    ASSUME NEW ps, NEW w, w.kind # "import", NEW v, v.kind # "import"
    PROVE  /\ Imports(ps \cup {v}) = Imports(ps) /\ Imports(ps \ {w}) = Imports(ps)
           /\ Imports((ps \ {w}) \cup {v}) = Imports(ps)
BY DEF Imports

\* The actions of the user, but for ParseImportFile and ProcessImport.
LEMMA OtherUserStep ==
    ASSUME SettingsTyped, ImportsSound,
           \/ \E tab \in {"governance", "nodes"} : OpenTab(tab)
           \/ ClaimManagerRole \/ ExitForm \/ SubmitForm \/ RestoreDefaults
           \/ \E form \in PolicyForms \cup {"add", "model"} : EnterForm(form)
           \/ \E kind \in {"row", "removeManager", "toggle"} : RowAction(kind)
           \/ FetchModels
           \/ \E kind \in {"canisters", "provision"} : FetchCanisters(kind)
           \/ \E l \in Lists : FetchNodes(l)
           \/ EnterWizard \/ ExitWizard \/ CreateNode \/ ImportDone
           \/ \E r \in ImportRows : RemoveRow(r)
    PROVE  ImportsSound'
<1>1. created' = created
  BY DEF OpenTab, ClaimManagerRole, ExitForm, SubmitForm, RestoreDefaults, EnterForm, RowAction, FetchModels,
         FetchCanisters, FetchNodes, EnterWizard, ExitWizard, CreateNode, ImportDone, RemoveRow
<1>2. wizard.step = 2 => RowsFit(wizard)
  BY DEF ImportsSound, ReviewFits
<1>3. /\ wizard'.review = wizard.review
      /\ wizard'.step = 2 =>
             /\ wizard.step = 2 /\ wizard'.processing = wizard.processing /\ RowsFit(wizard')
             /\ DOMAIN wizard'.rows \subseteq DOMAIN wizard.rows
             /\ \A r \in DOMAIN wizard'.rows : wizard'.rows[r] = wizard.rows[r]
  <2>1. CASE UNCHANGED wizard
    BY <1>2, <2>1
  <2>2. CASE \E tab \in {"governance", "nodes"} : OpenTab(tab)
    BY <2>2 DEF OpenTab, FreshWizard
  <2>3. CASE EnterWizard \/ ExitWizard \/ CreateNode \/ ImportDone
    <3>1. WizardShaped(wizard)
      BY DEF SettingsTyped
    <3>2. \/ wizard' = [wizard EXCEPT !.step = 1] \/ wizard' = Left(wizard)
          \/ wizard.step = 1 /\ wizard' = [wizard EXCEPT !.creating = TRUE, !.own = @ \cup {started}]
      BY <2>3 DEF EnterWizard, ExitWizard, CreateNode, ImportDone
    <3>3. wizard'.review = wizard.review /\ (wizard'.step = 0 \/ wizard'.step = 1)
      BY <3>1, <3>2 DEF Left, WizardShaped
    <3> QED
      BY <3>3
  <2>4. CASE \E r \in ImportRows : RemoveRow(r)
    <3>1. PICK r \in ImportRows : RemoveRow(r)
      BY <2>4
    <3>2. PICK rows : rows = [s \in DOMAIN wizard.rows \ {r} |-> wizard.rows[s]]
      OBVIOUS
    <3>3. wizard' = [wizard EXCEPT !.rows = rows] /\ wizard.step = 2
      BY <3>1, <3>2 DEF RemoveRow
    <3>4. wizard'.review = wizard.review /\ wizard'.processing = wizard.processing /\ wizard'.rows = rows
      BY <3>3 DEF SettingsTyped, WizardShaped
    <3> QED
      BY <1>2, <3>2, <3>3, <3>4 DEF RowsFit
  <2> QED
    BY <2>1, <2>2, <2>3, <2>4 DEF ClaimManagerRole, ExitForm, SubmitForm, RestoreDefaults, EnterForm, RowAction,
       FetchModels, FetchCanisters, FetchNodes
<1>4. Imports(pending') = Imports(pending)
  <2>1. ASSUME NEW kind, kind # "import", NEW arg, Starts(Pending(kind, arg)) PROVE Imports(pending') = Imports(pending)
    <3>1. PICK new : new = Pending(kind, arg)
      OBVIOUS
    <3>2. new.kind # "import" /\ pending' = pending \cup {new}
      BY <2>1, <3>1, PendingMade DEF Starts
    <3> QED
      BY <3>2 DEF Imports
  <2>2. ASSUME NEW kind, NEW stage, kind # "import", Starts(Staged(kind, stage)),
               \/ kind = "initial" /\ stage = "refetch"
               \/ kind \in {"restore", "models"} /\ stage = "models"
        PROVE  Imports(pending') = Imports(pending)
    BY <2>2, StageMade, ImportsStay DEF Starts
  <2>3. ASSUME NEW l \in Lists, NEW force \in BOOLEAN, StartsList(l, force) PROVE Imports(pending') = Imports(pending)
    BY <2>3, ListStarts DEF Imports
  <2>4. CASE UNCHANGED pending
    BY <2>4
  <2>5. CASE \E tab \in {"governance", "nodes"} : OpenTab(tab)
    BY <2>5, <2>2 DEF OpenTab, Staged
  <2>6. CASE ClaimManagerRole
    BY <2>6, <2>1 DEF ClaimManagerRole, StartsGoverning
  <2>7. CASE SubmitForm
    <3>1. page.form # "import"
      BY DEF SettingsTyped, PageShaped, PolicyForms
    <3> QED
      BY <2>7, <2>1, <3>1 DEF SubmitForm, StartsGoverning
  <2>8. CASE RestoreDefaults
    BY <2>8, <2>1, <2>2 DEF RestoreDefaults, StartsGoverning, Staged
  <2>9. CASE \E kind \in {"row", "removeManager", "toggle"} : RowAction(kind)
    BY <2>9, <2>1 DEF RowAction, StartsGoverning
  <2>10. CASE FetchModels
    BY <2>10, <2>2 DEF FetchModels, Staged
  <2>11. CASE \E kind \in {"canisters", "provision"} : FetchCanisters(kind)
    BY <2>11, <2>1 DEF FetchCanisters
  <2>12. CASE \E l \in Lists : FetchNodes(l)
    BY <2>12, <2>3 DEF FetchNodes
  <2>13. CASE ExitWizard \/ ImportDone
    BY <2>13, <2>3 DEF ExitWizard, ImportDone, Lists
  <2>14. CASE CreateNode
    BY <2>14, <2>1 DEF CreateNode
  <2> QED
    BY <2>4, <2>5, <2>6, <2>7, <2>8, <2>9, <2>10, <2>11, <2>12, <2>13, <2>14 DEF ExitForm, EnterForm, EnterWizard, RemoveRow
<1> QED
  BY <1>1, <1>3, <1>4, SameImports

\* A file: the rows of a new review are not created.
LEMMA ParseStep == ASSUME SettingsTyped, ImportsSound, ParseImportFile PROVE ImportsSound'
<1>1. /\ wizard.review < MaxReviews /\ UNCHANGED <<pending, created>>
      /\ wizard' = [wizard EXCEPT !.step = 2, !.review = wizard.review + 1, !.processing = FALSE,
                                  !.rows = [r \in ImportRows |-> "idle"]]
  BY DEF ParseImportFile
<1>2. wizard'.review = wizard.review + 1 /\ wizard'.rows = [r \in ImportRows |-> "idle"]
  BY <1>1 DEF SettingsTyped, WizardShaped
<1>3. wizard.review \in Nat /\ wizard'.review \in Nat /\ wizard'.review \in 1..MaxReviews /\ MaxReviews \in Nat
  BY <1>1, <1>2, SettingsBounds DEF ImportsSound
<1>4. RowsFit(wizard')
  BY <1>2 DEF RowsFit, RowStatuses
<1>5. \A w \in Imports(pending) : w.review \in 1..MaxReviews /\ w.review <= wizard.review /\ w.review # wizard'.review
  BY <1>2, <1>3 DEF ImportsSound, ImportFits
<1>6. \A r \in ImportRows : created[<<wizard'.review, r>>] = 0
  BY <1>2, <1>3 DEF ImportsSound
<1>7. ReviewFits(wizard', created', pending')
  BY <1>1, <1>2, <1>3, <1>4, <1>5, <1>6 DEF ReviewFits, NodesToProcess
<1>8. \A w \in Imports(pending') : ImportFits(w, created') /\ w.review <= wizard'.review
  BY <1>1, <1>2, <1>3, <1>5 DEF ImportsSound
<1>9. \A n \in 1..MaxReviews, r \in ImportRows : n > wizard'.review => created'[<<n, r>>] = 0
  BY <1>1, <1>2, <1>3 DEF ImportsSound
<1> QED
  BY <1>1, <1>3, <1>7, <1>8, <1>9 DEF ImportsSound

\* What marking a row changes.
LEMMA MarksRows ==
    ASSUME NEW z, WizardShaped(z), z.step = 2, RowsFit(z), NEW n, NEW r, NEW status \in RowStatuses
    PROVE  LET y == Marks(z, n, r, status)
           IN  /\ RowsFit(y) /\ DOMAIN y.rows = DOMAIN z.rows
               /\ \A s \in DOMAIN z.rows : y.rows[s] = IF s = r /\ z.review = n THEN status ELSE z.rows[s]
<1>1. CASE z.review = n /\ r \in DOMAIN z.rows
  <2>1. PICK rows : rows = [z.rows EXCEPT ![r] = status]
    OBVIOUS
  <2>2. Marks(z, n, r, status) = [z EXCEPT !.rows = rows]
    BY <1>1, <2>1 DEF Marks
  <2>3. PICK y : y = Marks(z, n, r, status)
    OBVIOUS
  <2>4. y.rows = rows
    BY <2>2, <2>3 DEF WizardShaped
  <2>5. /\ rows \in [DOMAIN z.rows -> RowStatuses]
        /\ \A s \in DOMAIN z.rows : rows[s] = IF s = r THEN status ELSE z.rows[s]
    BY <1>1, <2>1 DEF RowsFit
  <2> QED
    BY <1>1, <2>3, <2>4, <2>5 DEF RowsFit
<1>2. CASE ~(z.review = n /\ r \in DOMAIN z.rows)
  BY <1>2 DEF Marks
<1> QED
  BY <1>1, <1>2

\* A click on the button of the import: no loop works for this review, and the
\* rows that it takes are not created.
LEMMA ProcessStep == ASSUME SettingsTyped, ImportsSound, ProcessImport PROVE ImportsSound'
<1> DEFINE N == NodesToProcess(wizard.rows)
<1>1. wizard.step = 2 /\ ~wizard.processing /\ N # {} /\ created' = created
  BY DEF ProcessImport
<1>2. PICK todo \in [1..Cardinality(N) -> N] :
        /\ \A i, j \in DOMAIN todo : i < j => todo[i] # todo[j]
        /\ Starts([Pending("import", {}) EXCEPT !.review = wizard.review, !.todo = todo])
        /\ wizard' = Marks([wizard EXCEPT !.processing = TRUE], wizard.review, todo[1], "processing")
  BY DEF ProcessImport
<1>3. ReviewFits(wizard, created, pending) /\ WizardShaped(wizard)
  BY <1>1 DEF ImportsSound, SettingsTyped
<1>4. N \subseteq ImportRows /\ N \subseteq DOMAIN wizard.rows
  BY <1>3 DEF ReviewFits, RowsFit, NodesToProcess
<1>5. Cardinality(N) \in Nat \ {0}
  <2>1. IsFiniteSet(N)
    BY <1>4, SettingsBounds, FS_Subset
  <2> QED
    BY <1>1, <2>1, FS_CardinalityType, FS_EmptySet
<1>6. todo \in Seq(ImportRows) /\ todo # <<>> /\ 1 \in DOMAIN todo /\ Head(todo) = todo[1] /\ todo[1] \in N
  <2> HIDE DEF N
  <2>1. PICK c \in Nat \ {0} : c = Cardinality(N)
    BY <1>5
  <2>2. todo \in [1..c -> ImportRows]
    BY <1>2, <1>4, <2>1
  <2>3. todo \in Seq(ImportRows) /\ Len(todo) = c
    BY <2>2
  <2> QED
    BY <1>2, <2>1, <2>2, <2>3
<1>7. PICK new : new = Imported(wizard.review, todo)
  OBVIOUS
<1>8. new.kind = "import" /\ new.stage = "call" /\ new.review = wizard.review /\ new.todo = todo
  BY <1>7, ImportMade
<1>9. Imports(pending') = Imports(pending) \cup {new}
  BY <1>2, <1>7, <1>8 DEF Starts, Imported, Imports
<1>10. \A i \in DOMAIN todo : created[<<wizard.review, todo[i]>>] = 0
  BY <1>2, <1>3 DEF ReviewFits
<1>11. ImportFits(new, created)
  BY <1>2, <1>3, <1>6, <1>8, <1>10 DEF ImportFits, ReviewFits
<1>12. \A w \in Imports(pending) : w.review # wizard.review
  BY <1>1, <1>3 DEF ReviewFits
<1>13. PICK z : z = [wizard EXCEPT !.processing = TRUE]
  OBVIOUS
<1>14. /\ WizardShaped(z) /\ z.review = wizard.review /\ z.step = 2 /\ z.rows = wizard.rows /\ z.processing = TRUE
  BY <1>1, <1>3, <1>13 DEF WizardShaped
<1>15. PICK y : y = Marks(z, wizard.review, todo[1], "processing")
  OBVIOUS
<1>16. RowsFit(z)
  BY <1>3, <1>14 DEF RowsFit, ReviewFits
<1>17. y.step = 2 /\ y.review = wizard.review /\ y.processing = TRUE
  BY <1>14, <1>15, MarksKeep
<1>18. /\ RowsFit(y) /\ DOMAIN y.rows = DOMAIN wizard.rows
       /\ \A s \in DOMAIN wizard.rows : y.rows[s] = IF s = todo[1] THEN "processing" ELSE wizard.rows[s]
  BY <1>14, <1>15, <1>16, MarksRows DEF RowStatuses
<1>19. wizard' = y
  BY <1>2, <1>13, <1>15
<1>20. NodesToProcess(y.rows) \subseteq N
  BY <1>18 DEF NodesToProcess
<1>21. ReviewFits(wizard', created', pending')
  <2> HIDE DEF N
  <2>1. \A r \in NodesToProcess(y.rows) : created[<<y.review, r>>] = 0
    BY <1>3, <1>17, <1>20 DEF ReviewFits, N
  <2>2. \A w \in Imports(pending') : w.review = y.review =>
          y.processing /\ (Head(w.todo) \in DOMAIN y.rows => y.rows[Head(w.todo)] = "processing")
    BY <1>6, <1>8, <1>9, <1>12, <1>17, <1>18
  <2> QED
    BY <1>1, <1>3, <1>17, <1>18, <1>19, <2>1, <2>2 DEF ReviewFits
<1>22. wizard'.review = wizard.review
  BY <1>17, <1>19
<1>23. \A v, w \in Imports(pending') : v.review = w.review => v = w
  BY <1>8, <1>9, <1>12 DEF ImportsSound
<1>24. \A w \in Imports(pending') : ImportFits(w, created') /\ w.review <= wizard'.review
  BY <1>1, <1>8, <1>9, <1>11, <1>22 DEF ImportsSound
<1> QED
  BY <1>1, <1>21, <1>22, <1>23, <1>24 DEF ImportsSound

LEMMA TodoFacts ==
    ASSUME NEW todo \in Seq(ImportRows), todo # <<>>
    PROVE  /\ 1 \in DOMAIN todo /\ Head(todo) = todo[1] /\ Head(todo) \in ImportRows
           /\ Tail(todo) \in Seq(ImportRows)
           /\ \A i \in DOMAIN Tail(todo) : i + 1 \in DOMAIN todo /\ Tail(todo)[i] = todo[i + 1] /\ i \in Nat \ {0}
OBVIOUS

\* The end of a row: what is left of the loop is not created, and a row that is
\* marked with an error has not been created either.
LEMMA RowEndsStep ==
    ASSUME SettingsTyped, ImportsSound, NEW w \in pending, w.kind = "import", NEW status \in {"error", "success"},
           status = "error" => w.stage = "call", created' = created, RowEnds(w, status)
    PROVE  ImportsSound'
<1>1. PICK n, rest, marked : n = w.review /\ rest = Tail(w.todo) /\ marked = Marks(wizard, n, Head(w.todo), status)
  OBVIOUS
<1>2. /\ w \in Imports(pending) /\ ImportFits(w, created) /\ w.review <= wizard.review
      /\ WizardShaped(wizard) /\ PendingShaped(w)
  BY DEF ImportsSound, Imports, SettingsTyped, PendingTyped
<1>3. /\ WizardShaped(marked) /\ marked.review = wizard.review /\ marked.processing = wizard.processing
      /\ marked.step = wizard.step
  BY <1>1, <1>2, MarksKeep
<1>4. ASSUME wizard.step = 2
      PROVE  /\ RowsFit(marked) /\ DOMAIN marked.rows = DOMAIN wizard.rows
             /\ \A s \in DOMAIN wizard.rows :
                  marked.rows[s] = IF s = Head(w.todo) /\ wizard.review = n THEN status ELSE wizard.rows[s]
             /\ \A r \in NodesToProcess(marked.rows) : created[<<wizard.review, r>>] = 0
  <2>1. ReviewFits(wizard, created, pending) /\ RowsFit(wizard)
    BY <1>4 DEF ImportsSound, ReviewFits
  <2>2. /\ RowsFit(marked) /\ DOMAIN marked.rows = DOMAIN wizard.rows
        /\ \A s \in DOMAIN wizard.rows :
             marked.rows[s] = IF s = Head(w.todo) /\ wizard.review = n THEN status ELSE wizard.rows[s]
    BY <1>1, <1>2, <1>4, <2>1, MarksRows DEF RowStatuses
  <2>3. status = "error" => created[<<n, Head(w.todo)>>] = 0
    BY <1>1, <1>2, TodoFacts DEF ImportFits
  <2>4. ASSUME NEW r \in NodesToProcess(marked.rows) PROVE created[<<wizard.review, r>>] = 0
    <3>1. r \in DOMAIN wizard.rows /\ marked.rows[r] \in {"idle", "error"}
      BY <2>2, <2>4 DEF NodesToProcess
    <3>2. CASE r = Head(w.todo) /\ wizard.review = n
      <4>1. marked.rows[r] = status
        BY <2>2, <3>1, <3>2
      <4> QED
        BY <2>3, <3>1, <3>2, <4>1
    <3>3. CASE ~(r = Head(w.todo) /\ wizard.review = n)
      <4>1. marked.rows[r] = wizard.rows[r]
        BY <2>2, <3>1, <3>3
      <4>2. r \in NodesToProcess(wizard.rows)
        BY <3>1, <4>1 DEF NodesToProcess
      <4> QED
        BY <2>1, <4>2 DEF ReviewFits
    <3> QED
      BY <3>2, <3>3
  <2> QED
    BY <2>2, <2>4
<1>5. \A v \in Imports(pending) : v.review = n => v = w
  BY <1>1, <1>2 DEF ImportsSound
<1>6. CASE rest = <<>>
  <2>1. /\ pending' = pending \ {w}
        /\ wizard' = IF wizard.review = n THEN [marked EXCEPT !.processing = FALSE] ELSE wizard
    BY <1>1, <1>6 DEF RowEnds
  <2>2. Imports(pending') = Imports(pending) \ {w}
    BY <2>1 DEF Imports
  <2>3. wizard'.review = wizard.review /\ wizard'.step = wizard.step
    BY <1>3, <2>1 DEF WizardShaped
  <2>4. ASSUME wizard'.step = 2 PROVE ReviewFits(wizard', created', pending')
    <3>1. wizard.step = 2 /\ ReviewFits(wizard, created, pending)
      BY <2>3, <2>4 DEF ImportsSound
    <3>2. CASE wizard.review = n
      <4>1. wizard'.rows = marked.rows
        BY <1>3, <2>1, <3>2 DEF WizardShaped
      <4>2. \A v \in Imports(pending') : v.review # wizard'.review
        BY <1>5, <2>2, <2>3, <3>2
      <4> QED
        BY <1>4, <2>3, <3>1, <4>1, <4>2 DEF ReviewFits, RowsFit
    <3>3. CASE wizard.review # n
      BY <2>1, <2>2, <3>1, <3>3 DEF ReviewFits
    <3> QED
      BY <3>2, <3>3
  <2> QED
    BY <2>2, <2>3, <2>4 DEF ImportsSound
<1>7. CASE rest # <<>>
  <2>1. PICK v : v = [w EXCEPT !.todo = rest, !.stage = "call"]
    OBVIOUS
  <2>2. /\ pending' = (pending \ {w}) \cup {v}
        /\ wizard' = Marks(marked, n, Head(rest), "processing")
    BY <1>1, <1>7, <2>1 DEF RowEnds
  <2>3. v.kind = "import" /\ v.stage = "call" /\ v.review = n /\ v.todo = rest
    BY <1>1, <1>2, <2>1 DEF PendingShaped
  <2>4. Imports(pending') = (Imports(pending) \ {w}) \cup {v}
    BY <2>2, <2>3 DEF Imports
  <2>5. ImportFits(v, created)
    <3>1. /\ rest \in Seq(ImportRows)
          /\ \A i \in DOMAIN rest : i + 1 \in DOMAIN w.todo /\ rest[i] = w.todo[i + 1] /\ i \in Nat \ {0}
      BY <1>1, <1>2, TodoFacts DEF ImportFits
    <3>2. \A i, j \in DOMAIN rest : i < j => rest[i] # rest[j]
      <4> SUFFICES ASSUME NEW i \in DOMAIN rest, NEW j \in DOMAIN rest, i < j PROVE rest[i] # rest[j]
        OBVIOUS
      <4>1. i + 1 \in DOMAIN w.todo /\ j + 1 \in DOMAIN w.todo /\ i + 1 < j + 1
        BY <3>1
      <4> QED
        BY <1>2, <3>1, <4>1 DEF ImportFits
    <3>3. \A i \in DOMAIN rest : created[<<n, rest[i]>>] = 0
      <4> SUFFICES ASSUME NEW i \in DOMAIN rest PROVE created[<<n, rest[i]>>] = 0
        OBVIOUS
      <4>1. i + 1 \in DOMAIN w.todo /\ i + 1 # 1 /\ rest[i] = w.todo[i + 1]
        BY <3>1
      <4> QED
        BY <1>1, <1>2, <4>1 DEF ImportFits
    <3> QED
      BY <1>1, <1>2, <1>7, <2>3, <3>1, <3>2, <3>3 DEF ImportFits
  <2>6. PICK y : y = Marks(marked, n, Head(rest), "processing")
    OBVIOUS
  <2>7. y.review = wizard.review /\ y.processing = wizard.processing /\ y.step = wizard.step /\ wizard' = y
    BY <1>3, <2>2, <2>6, MarksKeep
  <2>8. ASSUME wizard.step = 2 PROVE ReviewFits(y, created, pending')
    <3>1. /\ RowsFit(y) /\ DOMAIN y.rows = DOMAIN marked.rows
          /\ \A s \in DOMAIN marked.rows :
               y.rows[s] = IF s = Head(rest) /\ marked.review = n THEN "processing" ELSE marked.rows[s]
      BY <1>3, <1>4, <2>6, <2>8, MarksRows DEF RowStatuses
    <3>2. NodesToProcess(y.rows) \subseteq NodesToProcess(marked.rows)
      BY <3>1 DEF NodesToProcess
    <3>3. ReviewFits(wizard, created, pending)
      BY <2>8 DEF ImportsSound
    <3>4. ASSUME NEW u \in Imports(pending'), u.review = wizard.review
          PROVE  wizard.processing /\ (Head(u.todo) \in DOMAIN y.rows => y.rows[Head(u.todo)] = "processing")
      <4>1. CASE u = v
        <5>1. wizard.review = n /\ wizard.processing
          BY <1>1, <1>2, <2>3, <3>3, <3>4, <4>1 DEF ReviewFits
        <5> QED
          BY <1>3, <2>3, <3>1, <4>1, <5>1
      <4>2. CASE u # v
        <5>1. u \in Imports(pending) /\ u # w
          BY <2>4, <3>4, <4>2
        <5>2. wizard.review # n
          BY <1>5, <3>4, <5>1
        <5>3. DOMAIN y.rows = DOMAIN wizard.rows /\ \A s \in DOMAIN wizard.rows : y.rows[s] = wizard.rows[s]
          BY <1>3, <1>4, <2>8, <3>1, <5>2
        <5> QED
          BY <3>3, <3>4, <5>1, <5>3 DEF ReviewFits
      <4> QED
        BY <4>1, <4>2
    <3> QED
      BY <1>4, <2>7, <2>8, <3>1, <3>2, <3>3, <3>4 DEF ReviewFits
  <2>9. \A u \in Imports(pending') : ImportFits(u, created') /\ u.review <= wizard'.review
    BY <1>1, <1>2, <2>3, <2>4, <2>5, <2>7 DEF ImportsSound
  <2>10. \A u, x \in Imports(pending') : u.review = x.review => u = x
    BY <1>5, <2>3, <2>4 DEF ImportsSound
  <2> QED
    BY <2>7, <2>8, <2>9, <2>10 DEF ImportsSound
<1> QED
  BY <1>6, <1>7

\* The index creates the node of the first row, which no retry takes.
LEMMA CreatedStep ==
    ASSUME SettingsTyped, ImportsSound, NEW w \in pending, CreateNodeReturns(w)
    PROVE  ImportsSound'
<1>1. PICK v : v = [w EXCEPT !.stage = "lists", !.lists = Lists]
  OBVIOUS
<1>2. PendingShaped(w) /\ w.kind \in {"create", "import"} /\ w.stage = "call"
  BY DEF SettingsTyped, PendingTyped, CreateNodeReturns
<1>3. v.kind = w.kind /\ v.stage = "lists" /\ v.review = w.review /\ v.todo = w.todo
  BY <1>1, <1>2 DEF PendingShaped
<1>4. wizard' = wizard /\ pending' = (pending \ {w}) \cup {v}
  BY <1>1 DEF CreateNodeReturns
<1>5. CASE w.kind = "create"
  <2>1. created' = created /\ Imports(pending') = Imports(pending)
    <3>1. created' = created
      BY <1>5 DEF CreateNodeReturns, Creates
    <3>2. Imports(pending') = Imports(pending)
      BY <1>3, <1>4, <1>5 DEF Imports
    <3> QED
      BY <3>1, <3>2
  <2>2. wizard.step = 2 => RowsFit(wizard)
    BY DEF ImportsSound, ReviewFits
  <2> QED
    BY <1>4, <2>1, <2>2, SameImports
<1>6. CASE w.kind = "import"
  <2>1. w \in Imports(pending) /\ ImportFits(w, created) /\ w.review <= wizard.review
    BY <1>6 DEF ImportsSound, Imports
  <2>2. PICK n, row : n = w.review /\ row = Head(w.todo)
    OBVIOUS
  <2>3. n \in 1..MaxReviews /\ row \in ImportRows /\ 1 \in DOMAIN w.todo /\ row = w.todo[1]
    BY <2>1, <2>2, TodoFacts DEF ImportFits
  <2>4. created' = [created EXCEPT ![<<n, row>>] = created[<<n, row>>] + 1]
    BY <1>6, <2>2 DEF CreateNodeReturns, Creates
  <2>5. created[<<n, row>>] = 0
    BY <1>2, <2>1, <2>2, <2>3 DEF ImportFits
  <2>6. /\ created' \in [Reviewed -> {0, 1}] /\ created'[<<n, row>>] = 1
        /\ \A m \in 1..MaxReviews, r \in ImportRows : <<m, r>> # <<n, row>> => created'[<<m, r>>] = created[<<m, r>>]
    BY <2>3, <2>4, <2>5 DEF ImportsSound, Reviewed
  <2>7. Imports(pending') = (Imports(pending) \ {w}) \cup {v}
    BY <1>3, <1>4, <1>6 DEF Imports
  <2>8. \A u \in Imports(pending) : u.review = n => u = w
    BY <2>1, <2>2 DEF ImportsSound
  <2>9. ImportFits(v, created')
    <3>1. \A i \in DOMAIN w.todo : w.todo[i] \in ImportRows /\ i \in Nat \ {0}
      BY <2>1 DEF ImportFits
    <3>2. \A i \in DOMAIN w.todo : i # 1 => w.todo[i] # row
      BY <2>1, <2>3, <3>1 DEF ImportFits
    <3>3. \A i \in DOMAIN w.todo : created'[<<n, w.todo[i]>>] = IF i = 1 THEN 1 ELSE 0
      BY <1>2, <2>1, <2>2, <2>3, <2>6, <3>1, <3>2 DEF ImportFits
    <3>4. \A i \in DOMAIN v.todo :
            created'[<<v.review, v.todo[i]>>] = IF i = 1 /\ v.stage = "lists" THEN 1 ELSE 0
      BY <1>3, <2>2, <3>3
    <3>5. /\ v.review \in 1..MaxReviews /\ v.stage \in {"call", "lists"}
          /\ v.todo \in Seq(ImportRows) /\ v.todo # <<>>
          /\ \A i, j \in DOMAIN v.todo : i < j => v.todo[i] # v.todo[j]
      BY <1>3, <2>1 DEF ImportFits
    <3> QED
      BY <3>4, <3>5 DEF ImportFits
  <2>10. ASSUME NEW u \in Imports(pending), u # w PROVE ImportFits(u, created')
    <3>1. ImportFits(u, created) /\ u.review # n
      BY <2>8, <2>10 DEF ImportsSound
    <3>2. \A i \in DOMAIN u.todo : u.todo[i] \in ImportRows
      BY <3>1 DEF ImportFits
    <3>3. \A i \in DOMAIN u.todo : created'[<<u.review, u.todo[i]>>] = created[<<u.review, u.todo[i]>>]
      BY <2>6, <3>1, <3>2 DEF ImportFits
    <3> QED
      BY <3>1, <3>3 DEF ImportFits
  <2>11. ASSUME wizard.step = 2 PROVE ReviewFits(wizard, created', pending')
    <3>1. ReviewFits(wizard, created, pending)
      BY <2>11 DEF ImportsSound
    <3>2. wizard.review = n => row \notin NodesToProcess(wizard.rows)
      BY <2>1, <2>2, <3>1 DEF ReviewFits, NodesToProcess
    <3>3. \A r \in NodesToProcess(wizard.rows) : created'[<<wizard.review, r>>] = 0
      BY <2>6, <3>1, <3>2 DEF ReviewFits, NodesToProcess, RowsFit
    <3>4. \A u \in Imports(pending') : u.review = wizard.review =>
            /\ wizard.processing
            /\ Head(u.todo) \in DOMAIN wizard.rows => wizard.rows[Head(u.todo)] = "processing"
      BY <1>3, <2>1, <2>7, <3>1 DEF ReviewFits
    <3> QED
      BY <3>1, <3>3, <3>4 DEF ReviewFits
  <2>12. \A u \in Imports(pending') : ImportFits(u, created') /\ u.review <= wizard.review
    BY <1>3, <2>1, <2>7, <2>9, <2>10 DEF ImportsSound
  <2>13. \A u, x \in Imports(pending') : u.review = x.review => u = x
    BY <1>3, <2>2, <2>7, <2>8 DEF ImportsSound
  <2>14. \A m \in 1..MaxReviews, r \in ImportRows : m > wizard.review => created'[<<m, r>>] = 0
    <3> SUFFICES ASSUME NEW m \in 1..MaxReviews, NEW r \in ImportRows, m > wizard.review PROVE created'[<<m, r>>] = 0
      OBVIOUS
    <3>1. m # n
      BY <2>1, <2>2, <2>3 DEF ImportsSound
    <3> QED
      BY <2>6, <3>1 DEF ImportsSound
  <2> QED
    BY <1>4, <2>6, <2>11, <2>12, <2>13, <2>14 DEF ImportsSound
<1> QED
  BY <1>2, <1>5, <1>6

LEMMA ListImports ==
    ASSUME SettingsTyped, ImportsSound, NEW w \in pending, NEW l \in Lists, ListReturns(w, l)
    PROVE  ImportsSound'
<1>1. /\ PendingShaped(w) /\ w.stage = "lists" /\ w.kind \in {"nodes", "create", "import"} /\ WizardShaped(wizard)
      /\ created' = created /\ (wizard.step = 2 => RowsFit(wizard))
  BY DEF SettingsTyped, PendingTyped, ListReturns, StageFits, ImportsSound, ReviewFits
<1>2. CASE w.lists # {l}
  <2>1. PICK v : v = [w EXCEPT !.lists = w.lists \ {l}]
    OBVIOUS
  <2>2. pending' = (pending \ {w}) \cup {v} /\ wizard' = wizard
    BY <1>2, <2>1 DEF ListReturns
  <2>3. v.kind = w.kind /\ v.stage = w.stage /\ v.review = w.review /\ v.todo = w.todo
    BY <1>1, <2>1 DEF PendingShaped
  <2>4. CASE w.kind # "import"
    <3>1. Imports(pending') = Imports(pending)
      BY <2>2, <2>3, <2>4 DEF Imports
    <3> QED
      BY <1>1, <2>2, <3>1, SameImports
  <2>5. CASE w.kind = "import"
    <3>1. Imports(pending') = (Imports(pending) \ {w}) \cup {v} /\ w \in Imports(pending)
      BY <2>2, <2>3, <2>5 DEF Imports
    <3>2. ImportFits(v, created) /\ v.review <= wizard.review
      <4>1. ImportFits(w, created) /\ w.review <= wizard.review
        BY <3>1 DEF ImportsSound
      <4> QED
        BY <2>3, <4>1 DEF ImportFits
    <3>3. \A u, x \in Imports(pending') : u.review = x.review => u = x
      BY <2>3, <3>1 DEF ImportsSound
    <3>4. wizard.step = 2 => ReviewFits(wizard, created, pending')
      BY <2>3, <3>1 DEF ReviewFits, ImportsSound
    <3> QED
      BY <1>1, <2>2, <3>1, <3>2, <3>3, <3>4 DEF ImportsSound
  <2> QED
    BY <2>4, <2>5
<1>3. CASE w.lists = {l} /\ w.kind = "import"
  <2>1. RowEnds(w, "success")
    BY <1>3 DEF ListReturns
  <2> QED
    BY <1>1, <1>3, <2>1, RowEndsStep
<1>4. CASE w.lists = {l} /\ w.kind = "nodes"
  <2>1. pending' = pending \ {w} /\ wizard' = wizard
    BY <1>4 DEF ListReturns
  <2>2. Imports(pending') = Imports(pending)
    BY <1>4, <2>1 DEF Imports
  <2> QED
    BY <1>1, <2>1, <2>2, SameImports
<1>5. CASE w.lists = {l} /\ w.kind = "create"
  <2>1. PICK v : v = [w EXCEPT !.kind = "nodes", !.lists = {"mine"}]
    OBVIOUS
  <2>2. /\ pending' = (pending \ {w}) \cup {v}
        /\ wizard' = IF w.n \in wizard.own THEN [Left(wizard) EXCEPT !.creating = FALSE] ELSE wizard
    BY <1>5, <2>1 DEF ListReturns
  <2>3. v.kind = "nodes"
    BY <1>1, <2>1 DEF PendingShaped
  <2>4. Imports(pending') = Imports(pending)
    BY <1>5, <2>2, <2>3 DEF Imports
  <2>5. wizard' = wizard \/ (wizard'.step = 0 /\ wizard'.review = wizard.review)
    BY <1>1, <2>2 DEF Left, WizardShaped
  <2> QED
    BY <1>1, <2>4, <2>5, SameImports
<1> QED
  BY <1>1, <1>2, <1>3, <1>4, <1>5

LEMMA CreateFailsImports ==
    ASSUME SettingsTyped, ImportsSound, NEW w \in pending, CreateNodeFails(w)
    PROVE  ImportsSound'
<1>1. /\ w.kind \in {"create", "import"} /\ w.stage = "call" /\ WizardShaped(wizard)
      /\ created' = created /\ (wizard.step = 2 => RowsFit(wizard))
  BY DEF SettingsTyped, CreateNodeFails, ImportsSound, ReviewFits
<1>2. CASE w.kind = "import"
  <2>1. RowEnds(w, "error")
    BY <1>2 DEF CreateNodeFails
  <2> QED
    BY <1>1, <1>2, <2>1, RowEndsStep
<1>3. CASE w.kind = "create"
  <2>1. /\ pending' = pending \ {w}
        /\ wizard' = IF w.n \in wizard.own THEN [wizard EXCEPT !.creating = FALSE] ELSE wizard
    BY <1>3 DEF CreateNodeFails
  <2>2. Imports(pending') = Imports(pending)
    BY <1>3, <2>1 DEF Imports
  <2>3. /\ wizard'.review = wizard.review /\ wizard'.step = wizard.step /\ wizard'.rows = wizard.rows
        /\ wizard'.processing = wizard.processing
    BY <1>1, <2>1 DEF WizardShaped
  <2>4. wizard'.step = 2 => RowsFit(wizard')
    BY <1>1, <2>3 DEF RowsFit
  <2> QED
    BY <1>1, <2>2, <2>3, <2>4, SameImports
<1> QED
  BY <1>1, <1>2, <1>3

\* The replies to the actions of the other stores.
LEMMA OtherStoreReply ==
    ASSUME SettingsTyped, ImportsSound, NEW w \in pending,
           \/ GovernanceCallReturns(w) \/ GovernanceCallFails(w) \/ QueriesExecute(w) \/ InitialDataReturns(w)
           \/ ModelsReturn(w) \/ PoolReturns(w)
    PROVE  ImportsSound'
<1>1. UNCHANGED <<wizard, created>>
  BY DEF GovernanceCallReturns, GovernanceCallFails, QueriesExecute, InitialDataReturns, ModelsReturn, PoolReturns
<1>2. PendingShaped(w) /\ StageFits(w)
  BY DEF SettingsTyped, PendingTyped
<1>3. w.kind # "import"
  BY <1>2, KindsApart DEF GovernanceCallReturns, GovernanceCallFails, QueriesExecute, InitialDataReturns,
     ModelsReturn, PoolReturns, StageFits
<1>4. ASSUME NEW v, v.kind # "import", pending' = pending \ {w} \/ pending' = (pending \ {w}) \cup {v}
      PROVE  Imports(pending') = Imports(pending)
  BY <1>3, <1>4 DEF Imports
<1>5. ASSUME pending' = pending \ {w} PROVE Imports(pending') = Imports(pending)
  BY <1>3, <1>5 DEF Imports
<1>6. Imports(pending') = Imports(pending)
  <2>1. CASE GovernanceCallReturns(w)
    <3>1. PICK v : v = [w EXCEPT !.stage = IF w.kind \in ModelKinds THEN "models" ELSE "refetch"]
      OBVIOUS
    <3>2. v.kind = w.kind
      BY <1>2, <3>1 DEF PendingShaped
    <3> QED
      BY <1>3, <1>4, <2>1, <3>1, <3>2 DEF GovernanceCallReturns
  <2>2. CASE QueriesExecute(w)
    <3>1. PICK v : v = [w EXCEPT !.stage = "answer", !.arg = index.rules, !.seen = index.managed]
      OBVIOUS
    <3>2. v.kind = w.kind
      BY <1>2, <3>1 DEF PendingShaped
    <3> QED
      BY <1>3, <1>4, <2>2, <3>1, <3>2 DEF QueriesExecute
  <2>3. CASE InitialDataReturns(w)
    BY <1>5, <2>3 DEF InitialDataReturns
  <2>4. CASE w.kind = "restore" /\ (GovernanceCallFails(w) \/ ModelsReturn(w))
    <3>1. PICK v : v = NextPreset(w)
      OBVIOUS
    <3>2. v.kind = "restore"
      BY <1>2, <2>4, <3>1, NextPresetFacts
    <3>3. pending' = pending \ {w} \/ pending' = (pending \ {w}) \cup {v}
      BY <2>4, <3>1 DEF GovernanceCallFails, ModelsReturn
    <3> QED
      BY <1>4, <3>2, <3>3
  <2>5. CASE w.kind # "restore" /\ (GovernanceCallFails(w) \/ ModelsReturn(w))
    BY <1>5, <2>5 DEF GovernanceCallFails, ModelsReturn
  <2>6. CASE PoolReturns(w)
    <3>1. PICK v : v = IF w.kind = "provision" THEN [w EXCEPT !.kind = "canisters"] ELSE [w EXCEPT !.stage = "storage"]
      OBVIOUS
    <3>2. v.kind # "import"
      BY <1>2, <1>3, <3>1 DEF PendingShaped
    <3>3. pending' = pending \ {w} \/ pending' = (pending \ {w}) \cup {v}
      BY <2>6, <3>1 DEF PoolReturns
    <3> QED
      BY <1>4, <3>2, <3>3
  <2> QED
    BY <2>1, <2>2, <2>3, <2>4, <2>5, <2>6
<1>7. wizard.step = 2 => RowsFit(wizard)
  BY DEF ImportsSound, ReviewFits
<1> QED
  BY <1>1, <1>6, <1>7, SameImports

LEMMA ImportsStep == ASSUME SettingsTyped, ImportsSound, SettingsNext PROVE ImportsSound'
<1>1. CASE ParseImportFile
  BY <1>1, ParseStep
<1>2. CASE ProcessImport
  BY <1>2, ProcessStep
<1>3. CASE \E w \in pending : SettingsReply(w)
  <2>1. PICK w \in pending : SettingsReply(w)
    BY <1>3
  <2>2. CASE CreateNodeFails(w)
    BY <2>2, CreateFailsImports
  <2>3. CASE CreateNodeReturns(w)
    BY <2>3, CreatedStep
  <2>4. CASE \E l \in Lists : ListReturns(w, l)
    BY <2>4, ListImports
  <2> QED
    BY <2>1, <2>2, <2>3, <2>4, OtherStoreReply DEF SettingsReply
<1> QED
  BY <1>1, <1>2, <1>3, OtherUserStep DEF SettingsNext

\* No other action touches the nodes of the rows.
LEMMA CountsStay ==
    ASSUME SettingsNext, \A w \in pending : ~CreateNodeFails(w) /\ ~CreateNodeReturns(w)
    PROVE  UNCHANGED <<created, lost>>
<1>1. ASSUME NEW w \in pending,
             \/ GovernanceCallReturns(w) \/ GovernanceCallFails(w) \/ QueriesExecute(w) \/ InitialDataReturns(w)
             \/ ModelsReturn(w) \/ PoolReturns(w) \/ (\E l \in Lists : ListReturns(w, l))
      PROVE  UNCHANGED <<created, lost>>
  BY <1>1, Zenon DEF GovernanceCallReturns, GovernanceCallFails, QueriesExecute, InitialDataReturns, ModelsReturn,
     PoolReturns, ListReturns
<1>2. ASSUME NEW w \in pending, SettingsReply(w) PROVE UNCHANGED <<created, lost>>
  BY <1>1, <1>2, Zenon DEF SettingsReply
<1>3. CASE \/ \E tab \in {"governance", "nodes"} : OpenTab(tab)
           \/ ClaimManagerRole \/ ExitForm \/ SubmitForm \/ RestoreDefaults
           \/ \E form \in PolicyForms \cup {"add", "model"} : EnterForm(form)
           \/ \E kind \in {"row", "removeManager", "toggle"} : RowAction(kind)
           \/ FetchModels
           \/ \E kind \in {"canisters", "provision"} : FetchCanisters(kind)
  BY <1>3, Zenon DEF OpenTab, ClaimManagerRole, ExitForm, SubmitForm, RestoreDefaults, EnterForm, RowAction,
     FetchModels, FetchCanisters
<1>4. CASE \/ \E l \in Lists : FetchNodes(l)
           \/ EnterWizard \/ ParseImportFile \/ ExitWizard \/ CreateNode \/ ProcessImport \/ ImportDone
           \/ \E r \in ImportRows : RemoveRow(r)
  BY <1>4, Zenon DEF FetchNodes, EnterWizard, ParseImportFile, ExitWizard, CreateNode, ProcessImport, ImportDone, RemoveRow
<1> QED
  BY <1>2, <1>3, <1>4 DEF SettingsNext

\* The call of an import is for a row that no call has returned for.
LEMMA RowIsOpen ==
    ASSUME ImportsSound, NEW w \in pending, CreateNodeFails(w) \/ CreateNodeReturns(w), NEW counts,
           NEW p \in Reviewed, created[p] # 0
    PROVE  Creates(counts, w)[p] = counts[p]
<1>1. w.kind \in {"create", "import"} /\ w.stage = "call"
  BY DEF CreateNodeFails, CreateNodeReturns
<1>2. CASE w.kind = "create"
  BY <1>2 DEF Creates
<1>3. CASE w.kind = "import"
  <2>1. ImportFits(w, created)
    BY <1>3 DEF ImportsSound, Imports
  <2>2. PICK q : q = <<w.review, Head(w.todo)>>
    OBVIOUS
  <2>3. created[q] = 0
    <3>1. 1 \in DOMAIN w.todo /\ Head(w.todo) = w.todo[1]
      BY <2>1, TodoFacts DEF ImportFits
    <3> QED
      BY <1>1, <2>1, <2>2, <3>1 DEF ImportFits
  <2>4. Creates(counts, w) = [counts EXCEPT ![q] = @ + 1]
    BY <1>3, <2>2 DEF Creates
  <2> QED
    BY <2>3, <2>4
<1> QED
  BY <1>1, <1>2, <1>3

LEMMA CreatedStays ==
    ASSUME ImportsSound, SettingsNext, NEW p \in Reviewed, created[p] # 0
    PROVE  created'[p] = created[p] /\ lost'[p] = lost[p]
<1>1. ASSUME NEW w \in pending, CreateNodeFails(w) PROVE created' = created /\ lost'[p] = lost[p]
  BY <1>1, RowIsOpen DEF CreateNodeFails
<1>2. ASSUME NEW w \in pending, CreateNodeReturns(w) PROVE created'[p] = created[p] /\ lost' = lost
  BY <1>2, RowIsOpen DEF CreateNodeReturns
<1> QED
  BY <1>1, <1>2, CountsStay

\* A row of an import file for which the index has answered creates no other
\* node, however often the import is retried, left or opened again: the loop of
\* handleProcessImport owns the rows that it has found, and a retry takes only
\* rows whose calls failed.
THEOREM NodesCreatedOnce == SettingsSpec => CreatedOnce
<1> DEFINE Inv == SettingsTyped /\ AllBusy /\ ImportsSound
           Kept == \A p \in Reviewed : created[p] # 0 => created'[p] = created[p] /\ lost'[p] = lost[p]
<1>1. SettingsInit => Inv
  <2>1. SettingsInit => wizard.review = 0 /\ wizard.step = 0 /\ Imports(pending) = {}
    BY DEF SettingsInit, FreshWizard, Imports
  <2>2. SettingsInit => created = [p \in Reviewed |-> 0]
    BY DEF SettingsInit
  <2> QED
    BY <2>1, <2>2, SettingsStart DEF ImportsSound, Reviewed
<1>2. Inv /\ [SettingsNext]_settingsVars => Inv'
  <2>1. CASE SettingsNext
    BY <2>1, SettingsStep, ImportsStep DEF SettingsGoes
  <2>2. CASE UNCHANGED settingsVars
    BY <2>2 DEF settingsVars, SettingsTyped, AllBusy, ImportsSound
  <2> QED
    BY <2>1, <2>2
<1>3. Inv /\ [SettingsNext]_settingsVars => [Kept]_settingsVars
  BY CreatedStays
<1> QED
  BY <1>1, <1>2, <1>3, PTL DEF SettingsSpec, CreatedOnce

-----------------------------------------------------------------------------
(* The queue of uploads.                                                    *)

JobStatuses == {"queued", "converting", "chunking", "extracting", "uploading", "complete", "error", "gone"}
Places == {"none", "convert", "ocr", "text", "upload", "sent", "end"}
BatchPlaces == {"asking", "streaming", "backoff", "fulfilled", "empty", "rejected"}

Dialogs == [open : BOOLEAN, staged : Seq(Kinds), picking : Seq(Kinds), resets : Nat]
Jobs == [kind : Kinds, model : BOOLEAN, status : JobStatuses, blob : BOOLEAN, session : Nat]
Batches == [at : BatchPlaces, attempt : Nat]
Tasks == [at : Places, batches : Seq(Batches), owner : Nat]
Sessions == [id : Nat \ {0}, open : BOOLEAN]

UploadsTyped ==
    /\ dialog \in Dialogs
    /\ jobs \in Seq(Jobs) /\ Len(jobs) <= MaxUploads
    /\ tasks \in [JobIds -> Tasks]
    /\ session \in Sessions
    /\ stored \in [JobIds -> Seq(Nat)]

\* What the record of a job, its task and the canisters say of each other.  A
\* job that the store still has is one of the session that is open: its file
\* cannot go to another user, for uploadFiles has taken the client and canister of
\* that session.  Before the end of its task nothing is stored.
JobIsSound(job, task, files, s) ==
    /\ job.status # "gone" => s.open /\ job.session = s.id
    /\ job.status = "complete" => files = <<job.session>>
    /\ job.status = "queued" => job.blob /\ task.at = "none" /\ files = <<>>
    /\ task.at \in {"convert", "ocr", "text", "upload", "sent"} => files = <<>>
    /\ job.status # "gone" /\ task.at \in {"upload", "sent"} => task.owner = job.session

Unused(task, files) == task.at = "none" /\ files = <<>>

JobsAreSound ==
    /\ \A j \in DOMAIN jobs : JobIsSound(jobs[j], tasks[j], stored[j], session)
    /\ \A j \in JobIds \ DOMAIN jobs : Unused(tasks[j], stored[j])

UploadsSound == UploadsTyped /\ JobsAreSound

LEMMA JobsAreTyped ==
    ASSUME UploadsTyped
    PROVE  /\ DOMAIN jobs \subseteq JobIds
           /\ \A j \in DOMAIN jobs : jobs[j] \in Jobs /\ tasks[j] \in Tasks /\ stored[j] \in Seq(Nat)
BY UploadBounds DEF UploadsTyped, JobIds

LEMMA UploadsInitial == UploadsInit => UploadsSound
BY UploadBounds DEF UploadsInit, UploadsSound, UploadsTyped, JobsAreSound, Unused, Dialogs, Sessions, Tasks,
        NoTask, JobIds, Places

\* A step that leaves the jobs and what belongs to them alone.
LEMMA JobsUntouched ==
    ASSUME UploadsSound, UNCHANGED <<jobs, tasks, session, stored>>, dialog' \in Dialogs
    PROVE  UploadsSound'
BY DEF UploadsSound, UploadsTyped, JobsAreSound, JobIsSound, Unused

\* What a step does to the dialog alone.
LEMMA DialogFacts ==
    ASSUME dialog \in Dialogs
    PROVE  /\ Closed \in Dialogs
           /\ dialog.resets > 0 => [dialog EXCEPT !.resets = @ - 1, !.staged = <<>>] \in Dialogs
<1>1. dialog.resets \in Nat /\ dialog.staged \in Seq(Kinds) /\ dialog.picking \in Seq(Kinds)
  BY DEF Dialogs
<1>2. PICK more : more = dialog.resets + 1
  OBVIOUS
<1>3. more \in Nat
  BY <1>1, <1>2
<1>4. [dialog EXCEPT !.open = FALSE, !.resets = more] \in Dialogs
  BY <1>3 DEF Dialogs
<1>5. Closed = [dialog EXCEPT !.open = FALSE, !.resets = more]
  BY <1>2 DEF Closed, Dialogs
<1>6. ASSUME dialog.resets > 0
      PROVE  [dialog EXCEPT !.resets = @ - 1, !.staged = <<>>] \in Dialogs
  <2>1. PICK less : less = dialog.resets - 1
    OBVIOUS
  <2>2. PICK none : none = <<>>
    OBVIOUS
  <2>3. less \in Nat /\ none \in Seq(Kinds)
    BY <1>1, <1>6, <2>1, <2>2
  <2>4. [dialog EXCEPT !.resets = less, !.staged = none] \in Dialogs
    BY <2>3 DEF Dialogs
  <2> QED
    BY <2>1, <2>2, <2>4 DEF Dialogs
<1> QED
  BY <1>4, <1>5, <1>6

LEMMA DialogSteps ==
    ASSUME UploadsSound,
           \/ \E k \in Kinds : SelectFiles(k)
           \/ \E i \in 1..MaxPicks : RemoveFile(i)
           \/ CloseDialog \/ OpenDialog \/ FilesStaged \/ ResetTimer
    PROVE  UploadsSound'
<1>1. dialog \in Dialogs
  BY DEF UploadsSound, UploadsTyped
<1>2. ASSUME NEW k \in Kinds, SelectFiles(k) PROVE UploadsSound'
  <2>1. dialog' \in Dialogs
    BY <1>1, <1>2, AppendProperties DEF SelectFiles, Dialogs
  <2> QED
    BY <1>2, <2>1, JobsUntouched DEF SelectFiles
<1>3. ASSUME NEW i \in 1..MaxPicks, RemoveFile(i) PROVE UploadsSound'
  <2>1. dialog.staged \in Seq(Kinds) /\ i \in 1..Len(dialog.staged)
    BY <1>1, <1>3 DEF RemoveFile, Dialogs
  <2>2. /\ SubSeq(dialog.staged, 1, i - 1) \in Seq(Kinds)
        /\ SubSeq(dialog.staged, i + 1, Len(dialog.staged)) \in Seq(Kinds)
    BY <2>1, SubSeqProperties
  <2>3. dialog' \in Dialogs
    BY <1>1, <1>3, <2>2, ConcatProperties DEF RemoveFile, Dialogs
  <2> QED
    BY <1>3, <2>3, JobsUntouched DEF RemoveFile
<1>4. CASE CloseDialog
  <2>1. dialog' \in Dialogs
    BY <1>1, <1>4, DialogFacts DEF CloseDialog
  <2> QED
    BY <1>4, <2>1, JobsUntouched DEF CloseDialog
<1>5. CASE OpenDialog
  <2>1. dialog' \in Dialogs
    BY <1>1, <1>5 DEF OpenDialog, Dialogs
  <2> QED
    BY <1>5, <2>1, JobsUntouched DEF OpenDialog
<1>6. CASE FilesStaged
  <2>1. dialog' \in Dialogs
    BY <1>1, <1>6, HeadTailProperties, AppendProperties DEF FilesStaged, Dialogs
  <2> QED
    BY <1>6, <2>1, JobsUntouched DEF FilesStaged
<1>7. CASE ResetTimer
  <2>1. dialog' \in Dialogs
    BY <1>1, <1>7, DialogFacts DEF ResetTimer
  <2> QED
    BY <1>7, <2>1, JobsUntouched DEF ResetTimer
<1> QED
  BY <1>2, <1>3, <1>4, <1>5, <1>6, <1>7

\* New jobs are queued, for the session that is open.
LEMMA UploadStep ==
    ASSUME UploadsSound, NEW model \in BOOLEAN, Upload(model)
    PROVE  UploadsSound'
<1> USE UploadBounds
<1>1. UploadsTyped /\ dialog.staged \in Seq(Kinds) /\ jobs \in Seq(Jobs)
  BY DEF UploadsSound, UploadsTyped, Dialogs
<1> DEFINE new == [i \in DOMAIN dialog.staged |-> NewJob(dialog.staged[i], model)]
<1>2. \A i \in DOMAIN dialog.staged : NewJob(dialog.staged[i], model) \in Jobs
  BY <1>1 DEF NewJob, Jobs, UploadsTyped, Sessions, JobStatuses
<1>3. new \in Seq(Jobs) /\ Len(new) = Len(dialog.staged)
  BY <1>1, <1>2
<1>4. \A i \in DOMAIN new : new[i] \in Jobs /\ new[i].status = "queued" /\ new[i].blob
                            /\ new[i].session = session.id
  BY <1>2, <1>3 DEF NewJob
<1> HIDE DEF new
<1>5. jobs' = jobs \o new /\ session.open /\ UNCHANGED <<tasks, session, stored>>
  BY DEF Upload, new
<1>6. /\ jobs' \in Seq(Jobs) /\ Len(jobs') = Len(jobs) + Len(new)
      /\ \A j \in DOMAIN jobs : jobs'[j] = jobs[j]
      /\ \A j \in DOMAIN jobs' \ DOMAIN jobs : j - Len(jobs) \in DOMAIN new /\ jobs'[j] = new[j - Len(jobs)]
  <2>1. /\ jobs \o new \in Seq(Jobs) /\ Len(jobs \o new) = Len(jobs) + Len(new)
        /\ \A i \in 1..(Len(jobs) + Len(new)) :
              (jobs \o new)[i] = IF i <= Len(jobs) THEN jobs[i] ELSE new[i - Len(jobs)]
    BY ZenonT(60), <1>1, <1>3, ConcatProperties
  <2>2. /\ DOMAIN jobs = 1..Len(jobs) /\ DOMAIN new = 1..Len(new) /\ Len(jobs) \in Nat /\ Len(new) \in Nat
        /\ DOMAIN jobs' = 1..(Len(jobs) + Len(new))
    BY <1>1, <1>3, <1>5, <2>1
  <2> QED
    BY <1>5, <2>1, <2>2
<1>7. UploadsTyped'
  <2>1. dialog' \in Dialogs
    BY <1>1, DialogFacts DEF UploadsTyped, Upload
  <2>2. Len(jobs') <= MaxUploads
    BY <1>3, <1>6 DEF Upload
  <2> QED
    BY <1>1, <1>5, <1>6, <2>1, <2>2 DEF UploadsTyped
<1>8. DOMAIN jobs \subseteq DOMAIN jobs' /\ DOMAIN jobs' \subseteq JobIds
  BY <1>1, <1>3, <1>6, <1>7 DEF UploadsTyped, JobIds
<1>9. ASSUME NEW j \in DOMAIN jobs' PROVE JobIsSound(jobs'[j], tasks'[j], stored'[j], session')
  <2>1. CASE j \in DOMAIN jobs
    BY <2>1, <1>5, <1>6 DEF UploadsSound, JobsAreSound
  <2>2. CASE j \notin DOMAIN jobs
    <3>1. Unused(tasks[j], stored[j])
      BY <2>2, <1>8 DEF UploadsSound, JobsAreSound
    <3>2. jobs'[j].status = "queued" /\ jobs'[j].blob /\ jobs'[j].session = session.id
      BY <2>2, <1>4, <1>6
    <3> QED
      BY <3>1, <3>2, <1>5 DEF JobIsSound, Unused
  <2> QED
    BY <2>1, <2>2
<1> QED
  BY <1>5, <1>7, <1>8, <1>9 DEF UploadsSound, JobsAreSound


LEMMA StartsAsTyped ==
    ASSUME NEW j
    PROVE  StartsAs(j) \in [status : {"converting", "error", "chunking", "uploading"},
                            at : {"convert", "end", "text", "upload"}]
BY DEF StartsAs

LEMMA WaitingTask ==
    ASSUME NEW at, NEW n, n = IF at = "upload" THEN SignedIn ELSE 0
    PROVE  WaitsAt(at) = [at |-> at, batches |-> <<>>, owner |-> n]
<1>1. WaitsAt(at) = [NoTask EXCEPT !.at = at, !.owner = n]
  BY Zenon DEF WaitsAt
<1> QED
  BY <1>1 DEF NoTask

LEMMA NewTask ==
    ASSUME UploadsTyped, NEW at \in Places
    PROVE  /\ WaitsAt(at) \in Tasks /\ WaitsAt(at).at = at
           /\ at = "upload" => WaitsAt(at).owner = SignedIn
<1>1. PICK n : n = IF at = "upload" THEN SignedIn ELSE 0
  OBVIOUS
<1>2. n \in Nat
  BY <1>1 DEF SignedIn, UploadsTyped, Sessions
<1>3. WaitsAt(at) = [at |-> at, batches |-> <<>>, owner |-> n]
  BY <1>1, WaitingTask
<1> QED
  BY <1>1, <1>2, <1>3 DEF Tasks

LEMMA NoTaskTyped == NoTask \in Tasks /\ NoTask.at = "none"
BY DEF NoTask, Tasks, Places

\* The queue starts queued jobs only, and does nothing while the session is closed.
LEMMA QueueManaged ==
    ASSUME UploadsSound, NEW js \in Seq(Jobs), NEW ts \in [JobIds -> Tasks],
           DOMAIN js = DOMAIN jobs,
           \A j \in DOMAIN jobs : JobIsSound(js[j], ts[j], stored[j], session),
           \A j \in JobIds \ DOMAIN jobs : Unused(ts[j], stored[j]),
           \A j \in QueuedJobs : js[j].status = "queued",
           ManageJobQueue(js, ts), dialog' \in Dialogs, UNCHANGED <<session, stored>>
    PROVE  UploadsSound'
<1> USE UploadBounds
<1>1. UploadsTyped /\ DOMAIN jobs \subseteq JobIds
  BY JobsAreTyped DEF UploadsSound
<1>2. JobsToStart \subseteq QueuedJobs /\ QueuedJobs \subseteq DOMAIN jobs
  BY DEF JobsToStart, QueuedJobs
<1>3. Len(js) = Len(jobs)
  BY <1>1 DEF UploadsTyped
<1>4. CASE session.open
  <2>1. /\ jobs' = [j \in DOMAIN js |-> IF j \in JobsToStart
                                        THEN [js[j] EXCEPT !.status = StartsAs(j).status] ELSE js[j]]
        /\ tasks' = [j \in JobIds |-> IF j \in JobsToStart
                                      THEN WaitsAt(StartsAs(j).at) ELSE ts[j]]
    BY <1>4 DEF ManageJobQueue
  <2>2. ASSUME NEW j \in JobsToStart
        PROVE  /\ jobs'[j] \in Jobs /\ tasks'[j] \in Tasks
               /\ JobIsSound(jobs'[j], tasks'[j], stored'[j], session')
    <3>1. PICK job : job = js[j]
      OBVIOUS
    <3>2. PICK new : new = StartsAs(j)
      OBVIOUS
    <3>3. job \in Jobs /\ j \in DOMAIN jobs /\ j \in JobIds
      BY <3>1, <1>1, <1>2
    <3>4. /\ new.status \in {"converting", "error", "chunking", "uploading"}
          /\ new.at \in {"convert", "end", "text", "upload"}
      BY <3>2, StartsAsTyped
    <3>5. jobs'[j] = [job EXCEPT !.status = new.status] /\ tasks'[j] = WaitsAt(new.at)
      BY <2>1, <3>1, <3>2, <3>3
    <3>6. JobIsSound(job, ts[j], stored[j], session) /\ job.status = "queued"
      BY <3>1, <3>3, <1>2
    <3>7. jobs'[j] \in Jobs /\ tasks'[j] \in Tasks /\ tasks'[j].at = new.at
          /\ (new.at = "upload" => tasks'[j].owner = SignedIn)
      <4>1. new.status \in JobStatuses /\ new.at \in Places
        BY <3>4 DEF JobStatuses, Places
      <4>2. [job EXCEPT !.status = new.status] \in Jobs
        BY <4>1, <3>3 DEF Jobs
      <4>3. PICK at \in Places : at = new.at
        BY <4>1
      <4>4. WaitsAt(at) \in Tasks /\ WaitsAt(at).at = at /\ (at = "upload" => WaitsAt(at).owner = SignedIn)
        BY <1>1, NewTask
      <4> QED
        BY <4>2, <4>3, <4>4, <3>5
    <3>8. jobs'[j].status = new.status /\ jobs'[j].session = job.session
      BY <3>3, <3>5 DEF Jobs
    <3>9. SignedIn = session.id
      BY <1>4 DEF SignedIn
    <3>10. job.status # "gone" /\ job.session = session.id /\ session.open /\ stored[j] = <<>>
      BY <3>6 DEF JobIsSound
    <3>11. tasks'[j].at \in {"upload", "sent"} => tasks'[j].owner = jobs'[j].session
      BY <3>4, <3>7, <3>8, <3>9, <3>10
    <3>12. stored'[j] = <<>> /\ session' = session
      BY <3>10
    <3> QED
      BY <3>4, <3>7, <3>8, <3>10, <3>11, <3>12 DEF JobIsSound
  <2>3. ASSUME NEW j \in DOMAIN jobs, j \notin JobsToStart
        PROVE  jobs'[j] = js[j] /\ tasks'[j] = ts[j]
    BY <2>1, <2>3, <1>1
  <2>4. ASSUME NEW j \in JobIds \ DOMAIN jobs PROVE tasks'[j] = ts[j]
    BY <2>1, <1>2
  <2>5. jobs' \in Seq(Jobs) /\ Len(jobs') = Len(jobs) /\ DOMAIN jobs' = DOMAIN jobs
    <3>1. ASSUME NEW j \in DOMAIN js PROVE jobs'[j] \in Jobs
      BY <2>2, <2>3
    <3>2. DOMAIN jobs' = DOMAIN js /\ DOMAIN js = 1..Len(js) /\ Len(js) \in Nat
      BY <2>1
    <3>3. jobs' = [j \in 1..Len(js) |-> jobs'[j]]
      BY <2>1, <3>2
    <3> QED
      BY <3>1, <3>2, <3>3, <1>3
  <2>6. tasks' \in [JobIds -> Tasks]
    BY <2>1, <2>2, <1>2
  <2>7. UploadsTyped'
    BY <2>5, <2>6, <1>1 DEF UploadsTyped
  <2> QED
    BY <2>2, <2>3, <2>4, <2>5, <2>7 DEF UploadsSound, JobsAreSound
<1>5. CASE ~session.open
  <2>1. QueuedJobs = {}
    BY <1>5 DEF UploadsSound, JobsAreSound, JobIsSound, QueuedJobs
  <2>2. jobs' = [j \in DOMAIN js |-> js[j]] /\ tasks' = ts
    BY <1>5, <2>1 DEF ManageJobQueue
  <2>3. jobs' = js
    BY <2>2
  <2> QED
    BY <2>2, <2>3, <1>1, <1>3 DEF UploadsSound, JobsAreSound, UploadsTyped
<1> QED
  BY <1>4, <1>5

LEMMA QueueTimerStep == ASSUME UploadsSound, QueueTimer PROVE UploadsSound'
BY QueueManaged DEF QueueTimer, UploadsSound, UploadsTyped, JobsAreSound, QueuedJobs


\* One job changes, and with it its task and what is stored of it.
LEMMA OneJobChanges ==
    ASSUME UploadsSound, NEW j \in DOMAIN jobs,
           NEW job \in Jobs, NEW task \in Tasks, NEW files \in Seq(Nat),
           jobs' = [jobs EXCEPT ![j] = job], tasks' = [tasks EXCEPT ![j] = task],
           stored' = [stored EXCEPT ![j] = files], UNCHANGED <<dialog, session>>,
           JobIsSound(job, task, files, session)
    PROVE  UploadsSound'
<1>1. UploadsTyped /\ JobsAreSound /\ DOMAIN jobs \subseteq JobIds
  BY JobsAreTyped DEF UploadsSound
<1>2. jobs' \in Seq(Jobs) /\ DOMAIN jobs' = DOMAIN jobs /\ Len(jobs') = Len(jobs)
  BY <1>1 DEF UploadsTyped
<1>3. tasks' \in [JobIds -> Tasks] /\ stored' \in [JobIds -> Seq(Nat)]
  BY <1>1 DEF UploadsTyped
<1>4. UploadsTyped'
  BY <1>1, <1>2, <1>3 DEF UploadsTyped
<1>5. ASSUME NEW k \in DOMAIN jobs PROVE JobIsSound(jobs'[k], tasks'[k], stored'[k], session')
  <2>1. k \in JobIds /\ JobIsSound(jobs[k], tasks[k], stored[k], session)
    BY <1>1 DEF JobsAreSound
  <2>2. CASE k = j
    BY <2>1, <2>2, <1>1 DEF UploadsTyped
  <2>3. CASE k # j
    BY <2>1, <2>3, <1>1 DEF UploadsTyped
  <2> QED
    BY <2>2, <2>3
<1>6. ASSUME NEW k \in JobIds \ DOMAIN jobs PROVE Unused(tasks'[k], stored'[k])
  BY <1>1 DEF UploadsTyped, JobsAreSound
<1> QED
  BY <1>2, <1>4, <1>5, <1>6 DEF UploadsSound, JobsAreSound

\* updateJob: a job that the store no longer has stays away.
LEMMA UpdatedFacts ==
    ASSUME UploadsTyped, NEW j \in DOMAIN jobs, NEW status \in JobStatuses
    PROVE  \E job \in Jobs :
              /\ Updated(j, status) = [jobs EXCEPT ![j] = job]
              /\ job.session = jobs[j].session
              /\ job.status = IF jobs[j].status = "gone" THEN "gone" ELSE status
<1>1. jobs \in Seq(Jobs) /\ jobs[j] \in Jobs
  BY DEF UploadsTyped
<1>2. CASE jobs[j].status = "gone"
  <2>1. Updated(j, status) = [jobs EXCEPT ![j] = jobs[j]]
    BY <1>1, <1>2 DEF Updated
  <2> QED
    BY <1>1, <1>2, <2>1
<1>3. CASE jobs[j].status # "gone"
  <2>1. PICK old : old = jobs[j]
    OBVIOUS
  <2>2. PICK job : job = [old EXCEPT !.status = status]
    OBVIOUS
  <2>3. job \in Jobs /\ job.session = old.session /\ job.status = status
    BY <1>1, <2>1, <2>2 DEF Jobs
  <2>4. Updated(j, status) = [jobs EXCEPT ![j] = job]
    BY <1>1, <1>3, <2>1, <2>2 DEF Updated
  <2> QED
    BY <1>3, <2>1, <2>3, <2>4
<1> QED
  BY <1>2, <1>3

\* A task goes on or ends without storing anything: what it waited for at "none"
\* or after it was stored cannot be such a step.
LEMMA TaskGoesOn ==
    ASSUME UploadsSound, NEW j \in DOMAIN jobs, NEW status \in JobStatuses \ {"complete", "queued"},
           NEW task \in Tasks,
           tasks[j].at \in {"convert", "ocr", "text", "upload", "sent"}, task.at # "none",
           task.at = "upload" => task.owner = SignedIn, task.at # "sent",
           jobs' = Updated(j, status), tasks' = [tasks EXCEPT ![j] = task],
           UNCHANGED <<dialog, session, stored>>
    PROVE  UploadsSound'
<1>1. UploadsTyped /\ JobIsSound(jobs[j], tasks[j], stored[j], session) /\ stored[j] \in Seq(Nat)
  BY JobsAreTyped DEF UploadsSound, JobsAreSound
<1>2. PICK job \in Jobs : /\ Updated(j, status) = [jobs EXCEPT ![j] = job]
                          /\ job.session = jobs[j].session
                          /\ job.status = IF jobs[j].status = "gone" THEN "gone" ELSE status
  BY <1>1, UpdatedFacts
<1>3. JobIsSound(job, task, stored[j], session)
  BY <1>1, <1>2 DEF JobIsSound, SignedIn
<1>4. stored' = [stored EXCEPT ![j] = stored[j]]
  BY <1>1 DEF UploadsTyped
<1> QED
  BY <1>1, <1>2, <1>3, <1>4, OneJobChanges

LEMMA FinishJobStep == ASSUME UploadsSound, NEW j \in DOMAIN jobs, FinishJob(j) PROVE UploadsSound'
<1>1. UploadsTyped /\ JobsAreSound /\ j \in JobIds /\ jobs[j] \in Jobs /\ jobs \in Seq(Jobs)
  BY JobsAreTyped DEF UploadsSound, UploadsTyped
<1>2. tasks[j].at = "end" /\ JobIsSound(jobs[j], tasks[j], stored[j], session)
  BY <1>1 DEF FinishJob, JobsAreSound
<1>3. PICK old : old = jobs[j]
  OBVIOUS
<1>4. PICK b : b = (old.blob /\ old.status = "gone")
  OBVIOUS
<1>5. PICK job : job = [old EXCEPT !.blob = b]
  OBVIOUS
<1>6. b \in BOOLEAN
  BY <1>4
<1>7. job \in Jobs /\ job.status = old.status /\ job.session = old.session
  BY <1>1, <1>3, <1>5, <1>6 DEF Jobs
<1>8. NoTask \in Tasks /\ NoTask.at = "none"
  BY NoTaskTyped
<1>9. PICK js : js = [jobs EXCEPT ![j] = job]
  OBVIOUS
<1>10. PICK ts : ts = [tasks EXCEPT ![j] = NoTask]
  OBVIOUS
<1>11. ManageJobQueue(js, ts) /\ UNCHANGED <<dialog, session, stored>>
  <2>1. js = [jobs EXCEPT ![j].blob = @ /\ jobs[j].status = "gone"]
    BY <1>1, <1>3, <1>4, <1>5, <1>9
  <2> QED
    BY <2>1, <1>10 DEF FinishJob
<1>12. js \in Seq(Jobs) /\ DOMAIN js = DOMAIN jobs /\ ts \in [JobIds -> Tasks]
  BY <1>1, <1>7, <1>8, <1>9, <1>10 DEF UploadsTyped
<1>13. ASSUME NEW k \in DOMAIN jobs PROVE JobIsSound(js[k], ts[k], stored[k], session)
  <2>1. JobIsSound(jobs[k], tasks[k], stored[k], session) /\ k \in JobIds
    BY <1>1, JobsAreTyped DEF JobsAreSound
  <2>2. CASE k = j
    <3>1. js[k] = job /\ ts[k] = NoTask
      BY <2>2, <1>1, <1>9, <1>10 DEF UploadsTyped
    <3> QED
      BY <2>2, <3>1, <1>2, <1>3, <1>7, <1>8 DEF JobIsSound
  <2>3. CASE k # j
    BY <2>1, <2>3, <1>1, <1>9, <1>10 DEF UploadsTyped
  <2> QED
    BY <2>2, <2>3
<1>14. ASSUME NEW k \in JobIds \ DOMAIN jobs PROVE Unused(ts[k], stored[k])
  BY <1>1, <1>10 DEF JobsAreSound, UploadsTyped
<1>15. ASSUME NEW k \in QueuedJobs PROVE js[k].status = "queued"
  BY <1>1, <1>2, <1>3, <1>7, <1>9 DEF QueuedJobs, JobIsSound
<1>16. dialog' \in Dialogs
  BY <1>1, <1>11 DEF UploadsTyped
<1> QED
  BY <1>11, <1>12, <1>13, <1>14, <1>15, <1>16, QueueManaged


\* The steps of a task before its file is stored.
LEMMA ProcessSteps ==
    ASSUME UploadsSound, NEW j \in DOMAIN jobs,
           \/ Extracted(j) \/ TextRead(j)
           \/ \E n \in 0..MaxBatches : Converted(j, n)
    PROVE  UploadsSound'
<1>1. UploadsTyped
  BY DEF UploadsSound
<1>2. /\ WaitsAt("upload") \in Tasks /\ WaitsAt("upload").at = "upload" /\ WaitsAt("upload").owner = SignedIn
      /\ WaitsAt("end") \in Tasks /\ WaitsAt("end").at = "end"
  BY <1>1, NewTask DEF Places
<1>3. {"extracting", "uploading", "error"} \subseteq JobStatuses \ {"complete", "queued"}
  BY DEF JobStatuses
<1>4. CASE Extracted(j)
  <2>1. /\ tasks[j].at = "ocr" /\ UNCHANGED <<dialog, session, stored>>
        /\ \/ jobs' = Updated(j, "uploading") /\ Goes(j, "upload")
           \/ jobs' = Updated(j, "error") /\ Goes(j, "end")
    BY <1>4 DEF Extracted
  <2> QED
    BY <2>1, <1>2, <1>3, TaskGoesOn DEF Goes
<1>5. CASE TextRead(j)
  BY <1>5, <1>2, <1>3, TaskGoesOn DEF TextRead, Goes
<1>7. ASSUME NEW n \in 0..MaxBatches, Converted(j, n) PROVE UploadsSound'
  <2>1. PICK bs : bs = [b \in 1..n |-> NewBatch]
    OBVIOUS
  <2>2. bs \in Seq(Batches)
    BY <2>1 DEF NewBatch, Batches, BatchPlaces
  <2>3. PICK task : task = [at |-> "ocr", batches |-> bs, owner |-> 0]
    OBVIOUS
  <2>4. task \in Tasks /\ task.at = "ocr"
    BY <2>2, <2>3 DEF Tasks, Places
  <2>5. [WaitsAt("ocr") EXCEPT !.batches = bs] = task
    <3>1. PICK wait : wait = WaitsAt("ocr")
      OBVIOUS
    <3>2. wait = [at |-> "ocr", batches |-> <<>>, owner |-> 0]
      BY <3>1, WaitingTask
    <3>3. [wait EXCEPT !.batches = bs] = task
      BY <2>3, <3>2
    <3> QED
      BY <3>1, <3>3
  <2> QED
    BY <1>7, <2>1, <2>4, <2>5, <1>3, TaskGoesOn DEF Converted
<1> QED
  BY <1>4, <1>5, <1>7

\* A batch of pages goes on: its task stays where it is.
LEMMA BatchSteps ==
    ASSUME UploadsSound, NEW j \in DOMAIN jobs, NEW b \in DOMAIN tasks[j].batches,
           OcrAsked(j, b) \/ OcrAnswered(j, b) \/ OcrFails(j, b) \/ RetryOcr(j, b)
    PROVE  UploadsSound'
<1>1. UploadsTyped /\ JobsAreSound /\ j \in JobIds /\ tasks[j] \in Tasks /\ jobs[j] \in Jobs
  BY JobsAreTyped DEF UploadsSound
<1>2. PICK old : old = tasks[j]
  OBVIOUS
<1>3. PICK batch : batch = old.batches[b]
  OBVIOUS
<1>4. old \in Tasks /\ old.batches \in Seq(Batches) /\ b \in DOMAIN old.batches /\ batch \in Batches
  BY <1>1, <1>2, <1>3 DEF Tasks
<1>5. ASSUME NEW new \in Batches, tasks' = [tasks EXCEPT ![j].batches[b] = new],
             UNCHANGED <<dialog, jobs, session, stored>>
      PROVE  UploadsSound'
  <2>1. PICK bs : bs = [old.batches EXCEPT ![b] = new]
    OBVIOUS
  <2>2. bs \in Seq(Batches)
    BY <2>1, <1>4, <1>5
  <2>3. PICK task : task = [old EXCEPT !.batches = bs]
    OBVIOUS
  <2>4. task \in Tasks /\ task.at = old.at /\ task.owner = old.owner
    BY <2>2, <2>3, <1>4 DEF Tasks
  <2>5. tasks' = [tasks EXCEPT ![j] = task]
    BY <1>5, <1>2, <2>1, <2>3
  <2>6. jobs' = [jobs EXCEPT ![j] = jobs[j]] /\ stored' = [stored EXCEPT ![j] = stored[j]]
    BY <1>5, <1>1 DEF UploadsTyped
  <2>7. JobIsSound(jobs[j], task, stored[j], session) /\ stored[j] \in Seq(Nat)
    BY <2>4, <1>1, <1>2 DEF JobsAreSound, JobIsSound, UploadsTyped
  <2> QED
    BY <1>1, <1>5, <2>4, <2>5, <2>6, <2>7, OneJobChanges
<1>6. ASSUME NEW at \in BatchPlaces, BatchGoes(j, b, at) PROVE UploadsSound'
  <2>1. PICK new : new = [batch EXCEPT !.at = at]
    OBVIOUS
  <2>2. new \in Batches
    BY <2>1, <1>4 DEF Batches
  <2>3. tasks' = [tasks EXCEPT ![j].batches[b] = new]
    BY <2>1, <1>2, <1>3, <1>6 DEF BatchGoes
  <2> QED
    BY <2>2, <2>3, <1>5, <1>6 DEF BatchGoes
<1>7. CASE RetryOcr(j, b)
  <2>1. PICK new : new = [at |-> "asking", attempt |-> batch.attempt + 1]
    OBVIOUS
  <2>2. new \in Batches
    BY <2>1, <1>4 DEF Batches, BatchPlaces
  <2>3. tasks' = [tasks EXCEPT ![j].batches[b] = new]
    BY <2>1, <1>2, <1>3, <1>7 DEF RetryOcr
  <2> QED
    BY <2>2, <2>3, <1>5, <1>7 DEF RetryOcr
<1>8. {"streaming", "fulfilled", "empty", "backoff", "rejected"} \subseteq BatchPlaces
  BY DEF BatchPlaces
<1> QED
  BY <1>6, <1>7, <1>8 DEF OcrAsked, OcrAnswered, OcrFails

\* A task ends, with its file stored or not, in the canister that uploadFiles took:
\* for a job that the store still has, of the session that the job was made in.
LEMMA TaskEnds ==
    ASSUME UploadsSound, NEW j \in DOMAIN jobs, NEW status \in {"complete", "error"},
           tasks[j].at \in {"convert", "text", "upload", "sent"},
           jobs' = Updated(j, status), Goes(j, "end"), UNCHANGED <<dialog, session>>,
           \/ UNCHANGED stored /\ (status = "complete" => tasks[j].at = "upload" /\ tasks[j].owner = 0)
           \/ StoresFile(j) /\ tasks[j].at = "sent"
    PROVE  UploadsSound'
<1>1. UploadsTyped /\ j \in JobIds /\ stored[j] \in Seq(Nat) /\ tasks[j] \in Tasks
  BY JobsAreTyped DEF UploadsSound
<1>2. JobIsSound(jobs[j], tasks[j], stored[j], session)
  BY DEF UploadsSound, JobsAreSound
<1>3. PICK job \in Jobs : /\ jobs' = [jobs EXCEPT ![j] = job]
                          /\ job.session = jobs[j].session
                          /\ job.status = IF jobs[j].status = "gone" THEN "gone" ELSE status
  BY <1>1, UpdatedFacts DEF JobStatuses
<1>4. PICK task : task = WaitsAt("end")
  OBVIOUS
<1>5. task \in Tasks /\ task.at = "end" /\ tasks' = [tasks EXCEPT ![j] = task]
  BY <1>1, <1>4, NewTask DEF Places, Goes
<1>6. stored[j] = <<>>
  BY <1>2 DEF JobIsSound
<1>7. PICK owner : owner = tasks[j].owner
  OBVIOUS
<1>8. owner \in Nat
  BY <1>1, <1>7 DEF Tasks
<1>9. CASE UNCHANGED stored /\ (status = "complete" => tasks[j].at = "upload" /\ owner = 0)
  <2>1. jobs[j].status # "gone" => status # "complete"
    BY <1>1, <1>2, <1>7, <1>9 DEF JobIsSound, UploadsTyped, Sessions
  <2>2. JobIsSound(job, task, stored[j], session)
    BY <1>2, <1>3, <1>5, <2>1 DEF JobIsSound
  <2>3. stored' = [stored EXCEPT ![j] = stored[j]]
    BY <1>1, <1>9 DEF UploadsTyped
  <2> QED
    BY <1>1, <1>3, <1>5, <2>2, <2>3, OneJobChanges
<1>10. CASE StoresFile(j) /\ tasks[j].at = "sent"
  <2>1. PICK files : files = <<owner>>
    OBVIOUS
  <2>2. files \in Seq(Nat)
    BY <2>1, <1>8
  <2>3. stored' = [stored EXCEPT ![j] = files]
    <3>1. Append(stored[j], owner) = <<owner>>
      BY <1>6
    <3> QED
      BY <1>1, <1>7, <1>10, <2>1, <3>1 DEF StoresFile, UploadsTyped
  <2>4. JobIsSound(job, task, files, session)
    BY <1>2, <1>3, <1>5, <1>7, <1>10, <2>1 DEF JobIsSound
  <2> QED
    BY <1>3, <1>5, <2>2, <2>3, <2>4, OneJobChanges
<1> QED
  BY <1>7, <1>9, <1>10

\* The steps of uploadFiles, and the failure of a task.
LEMMA UploadSteps ==
    ASSUME UploadsSound, NEW j \in DOMAIN jobs, BytesRead(j) \/ Uploaded(j) \/ ProcessFails(j)
    PROVE  UploadsSound'
<1>1. CASE Uploaded(j)
  BY <1>1, TaskEnds DEF Uploaded
<1>2. CASE ProcessFails(j)
  <2>1. /\ tasks[j].at \in {"convert", "text", "upload", "sent"}
        /\ jobs' = Updated(j, "error") /\ Goes(j, "end") /\ UNCHANGED <<dialog, session>>
        /\ UNCHANGED stored \/ (StoresFile(j) /\ tasks[j].at = "sent")
    BY <1>2 DEF ProcessFails
  <2> QED
    BY <2>1, TaskEnds
<1>3. CASE BytesRead(j) /\ tasks[j].owner = 0
  BY <1>3, TaskEnds DEF BytesRead
<1>4. CASE BytesRead(j) /\ tasks[j].owner # 0
  <2>1. UploadsTyped /\ j \in JobIds /\ stored[j] \in Seq(Nat) /\ tasks[j] \in Tasks /\ jobs[j] \in Jobs
    BY JobsAreTyped DEF UploadsSound
  <2>2. PICK old : old = tasks[j]
    OBVIOUS
  <2>3. PICK task : task = [old EXCEPT !.at = "sent"]
    OBVIOUS
  <2>4. task \in Tasks /\ task.at = "sent" /\ task.owner = old.owner
    BY <2>1, <2>2, <2>3 DEF Tasks, Places
  <2>5. tasks' = [tasks EXCEPT ![j] = task] /\ old.at = "upload" /\ UNCHANGED <<dialog, session, jobs, stored>>
    BY <1>4, <2>2, <2>3 DEF BytesRead
  <2>6. JobIsSound(jobs[j], old, stored[j], session)
    BY <2>2 DEF UploadsSound, JobsAreSound
  <2>7. JobIsSound(jobs[j], task, stored[j], session)
    BY <2>4, <2>5, <2>6 DEF JobIsSound
  <2>8. jobs' = [jobs EXCEPT ![j] = jobs[j]] /\ stored' = [stored EXCEPT ![j] = stored[j]]
    BY <2>1, <2>5 DEF UploadsTyped
  <2> QED
    BY <2>1, <2>4, <2>5, <2>7, <2>8, OneJobChanges
<1> QED
  BY <1>1, <1>2, <1>3, <1>4

LEMMA DismissStep == ASSUME UploadsSound, NEW j \in DOMAIN jobs, DismissJob(j) PROVE UploadsSound'
<1>1. UploadsTyped /\ j \in JobIds /\ jobs[j] \in Jobs /\ tasks[j] \in Tasks /\ stored[j] \in Seq(Nat)
  BY JobsAreTyped DEF UploadsSound
<1>2. PICK old : old = jobs[j]
  OBVIOUS
<1>3. PICK job : job = [[old EXCEPT !.status = "gone"] EXCEPT !.blob = FALSE]
  OBVIOUS
<1>4. job \in Jobs /\ job.status = "gone"
  BY <1>1, <1>2, <1>3 DEF Jobs, JobStatuses
<1>5. jobs' = [jobs EXCEPT ![j] = job]
  BY <1>1, <1>2, <1>3 DEF DismissJob, UploadsTyped
<1>6. tasks' = [tasks EXCEPT ![j] = tasks[j]] /\ stored' = [stored EXCEPT ![j] = stored[j]]
  BY <1>1 DEF DismissJob, UploadsTyped
<1>7. JobIsSound(job, tasks[j], stored[j], session)
  BY <1>4 DEF UploadsSound, JobsAreSound, JobIsSound
<1>8. UNCHANGED <<dialog, session>>
  BY DEF DismissJob
<1> QED
  BY <1>1, <1>4, <1>5, <1>6, <1>7, <1>8, OneJobChanges

\* A session ends with every job gone, so the next one starts with none.
LEMMA SessionSteps == ASSUME UploadsSound, SignOut \/ SignIn PROVE UploadsSound'
<1>1. UploadsTyped /\ jobs \in Seq(Jobs)
  BY DEF UploadsSound, UploadsTyped
<1>2. CASE SignOut
  <2>1. jobs' = [j \in DOMAIN jobs |-> [jobs[j] EXCEPT !.status = "gone"]]
    BY <1>2 DEF SignOut
  <2>2. ASSUME NEW j \in DOMAIN jobs PROVE jobs'[j] \in Jobs /\ jobs'[j].status = "gone"
    <3>1. PICK old : old = jobs[j]
      OBVIOUS
    <3>2. old \in Jobs /\ jobs'[j] = [old EXCEPT !.status = "gone"]
      BY <2>1, <1>1, <3>1
    <3> QED
      BY <3>2 DEF Jobs, JobStatuses
  <2>3. DOMAIN jobs' = 1..Len(jobs) /\ Len(jobs) \in Nat /\ DOMAIN jobs = 1..Len(jobs)
    BY <2>1, <1>1
  <2>4. jobs' = [j \in 1..Len(jobs) |-> jobs'[j]]
    BY <2>1, <2>3
  <2>5. jobs' \in Seq(Jobs) /\ Len(jobs') = Len(jobs) /\ DOMAIN jobs' = DOMAIN jobs
    BY <2>2, <2>3, <2>4
  <2>6. dialog' \in Dialogs /\ session' \in Sessions /\ UNCHANGED <<tasks, stored>>
    BY <1>1, <1>2 DEF SignOut, UploadsTyped, Dialogs, Sessions
  <2> QED
    BY <1>1, <2>2, <2>5, <2>6 DEF UploadsSound, UploadsTyped, JobsAreSound, JobIsSound
<1>3. CASE SignIn
  <2>1. session' \in Sessions /\ UNCHANGED <<dialog, jobs, tasks, stored>> /\ ~session.open
    BY <1>1, <1>3 DEF SignIn, UploadsTyped, Sessions
  <2> QED
    BY <1>1, <2>1 DEF UploadsSound, UploadsTyped, JobsAreSound, JobIsSound
<1> QED
  BY <1>2, <1>3

LEMMA UploadsInductive == UploadsSound /\ [UploadsNext]_uploadVars => UploadsSound'
<1> SUFFICES ASSUME UploadsSound, [UploadsNext]_uploadVars PROVE UploadsSound'
  OBVIOUS
<1>1. CASE UNCHANGED uploadVars
  BY <1>1, JobsUntouched DEF uploadVars, UploadsSound, UploadsTyped
<1>2. CASE UploadsUser
  BY <1>2, DialogSteps, UploadStep, DismissStep, SessionSteps DEF UploadsUser
<1>3. CASE FilesStaged \/ ResetTimer \/ QueueTimer
  BY <1>3, DialogSteps, QueueTimerStep
<1>4. ASSUME NEW j \in DOMAIN jobs, TaskStep(j) PROVE UploadsSound'
  BY <1>4, FinishJobStep, ProcessSteps, UploadSteps, BatchSteps DEF TaskStep
<1> QED
  BY <1>1, <1>2, <1>3, <1>4 DEF UploadsNext

\* A job that the lists show as complete has been stored, once and in the
\* canister of the user who chose the file, and a queued job has its blob, no
\* task and nothing stored: whatever the limits of the queue, the number of
\* batches and retries, and however often users sign in and out while tasks and
\* timers of _executeJob go on.
THEOREM CompleteStored == UploadsSpec => []CompleteIsStored
<1>1. UploadsSound => CompleteIsStored
  BY DEF UploadsSound, JobsAreSound, JobIsSound, CompleteIsStored
<1> QED
  BY <1>1, UploadsInitial, UploadsInductive, PTL DEF UploadsSpec


-----------------------------------------------------------------------------
(* What a message is sent with.                                             *)

Choices == [model : Models \cup {NoModel}, byUser : BOOLEAN, tools : SUBSET Tools,
            output : Nat, context : Nat]
Offers == [known : BOOLEAN, paused : SUBSET Models, counts : [Models -> Nat]]

ComposerTyped ==
    /\ offer \in Offers
    /\ nodes \subseteq Nodes
    /\ choice \in Choices

\* The counts of the models store are those of the nodes store, once the
\* effects of the last change have run.
CountsAreFresh ==
    offer.known /\ "models" \notin changed /\ "nodes" \notin changed => offer.counts = Counted(nodes)

LEMMA CountedFacts ==
    ASSUME NEW ns \in SUBSET Nodes
    PROVE  /\ Counted(ns) \in [Models -> Nat]
           /\ \A m \in Models : Counted(ns)[m] > 0 <=> \E n \in ns : Serves[n] = m
<1>1. ASSUME NEW m \in Models
      PROVE  /\ Cardinality({n \in ns : Serves[n] = m}) \in Nat
             /\ Cardinality({n \in ns : Serves[n] = m}) > 0 <=> \E n \in ns : Serves[n] = m
  <2>1. PICK served : served = {n \in ns : Serves[n] = m}
    OBVIOUS
  <2>2. IsFiniteSet(served)
    BY <2>1, ComposerAssumption, FS_Subset
  <2>3. Cardinality(served) \in Nat /\ (Cardinality(served) = 0 <=> served = {})
    BY <2>2, FS_CardinalityType, FS_EmptySet
  <2>4. served # {} <=> \E n \in ns : Serves[n] = m
    BY <2>1
  <2>5. Cardinality(served) > 0 <=> served # {}
    BY <2>3
  <2> QED
    BY <2>1, <2>3, <2>4, <2>5
<1> QED
  BY <1>1 DEF Counted

LEMMA ModelChanged ==
    ASSUME NEW c \in Choices, NEW m \in Models
    PROVE  /\ HandleModelChange(c, m) \in Choices
           /\ HandleModelChange(c, m).model = m
           /\ HandleModelChange(c, m).output = Info[m].maxOutput
           /\ \/ HandleModelChange(c, m).context <= Info[m].maxContext
              \/ HandleModelChange(c, m).context = MinTokens
<1>1. Info[m].maxOutput \in Nat /\ Info[m].maxContext \in Nat
  BY ComposerAssumption
<1>2. PICK left : left = IF Info[m].maxContext > Info[m].maxOutput
                         THEN Info[m].maxContext - Info[m].maxOutput ELSE 0
  OBVIOUS
<1>3. PICK tokens : tokens = IF left > MinTokens THEN left ELSE MinTokens
  OBVIOUS
<1>4. /\ tokens \in Nat
      /\ tokens <= Info[m].maxContext \/ tokens = MinTokens
  BY <1>1, <1>2, <1>3 DEF MinTokens
<1>5. HandleModelChange(c, m) = [c EXCEPT !.model = m, !.output = Info[m].maxOutput, !.context = tokens]
  BY <1>2, <1>3 DEF HandleModelChange
<1> QED
  BY <1>1, <1>4, <1>5 DEF Choices

LEMMA DefaultsAreModels == DefaultModels \subseteq Models
BY DEF DefaultModels, Cheapest, Candidates, Compatible


\* The limits of the model that is selected bind what a request would ask for.
Fits(m, output, context) ==
    /\ output <= Info[m].maxOutput \/ output = MinTokens
    /\ context <= Info[m].maxContext \/ context = MinTokens

ChoiceFits(c) == c.model # NoModel => Fits(c.model, c.output, c.context)

LEMMA OptionSet ==
    ASSUME NEW label \in {"output", "context"}, NEW v \in Typed, choice \in Choices,
           SetOption(label, v)
    PROVE  /\ choice' \in Choices /\ choice'.model = choice.model
           /\ ChoiceFits(choice) => ChoiceFits(choice')
<1>1. PICK max : max = IF choice.model = NoModel THEN DefaultMax[label]
                       ELSE IF label = "output" THEN Info[choice.model].maxOutput
                       ELSE Info[choice.model].maxContext
  OBVIOUS
<1>2. PICK new : new = Clamped(v, max)
  OBVIOUS
<1>3. max \in Nat
  BY <1>1, ComposerAssumption DEF DefaultMax, Choices
<1>4. new \in Nat /\ (new <= max \/ new = MinTokens)
  BY <1>2, <1>3 DEF Clamped, MinTokens, Typed
<1>5. choice' = [choice EXCEPT ![label] = new]
  BY <1>1, <1>2 DEF SetOption
<1>6. PICK old : old = choice
  OBVIOUS
<1>7. CASE label = "output"
  <2>1. choice' = [old EXCEPT !.output = new]
    BY <1>5, <1>6, <1>7
  <2>2. /\ choice' \in Choices /\ choice'.model = old.model /\ choice'.output = new
        /\ choice'.context = old.context
    BY <2>1, <1>4, <1>6 DEF Choices
  <2>3. choice.model # NoModel => max = Info[choice.model].maxOutput
    BY <1>1, <1>7
  <2> QED
    BY <2>2, <2>3, <1>4, <1>6 DEF ChoiceFits, Fits
<1>8. CASE label = "context"
  <2>1. choice' = [old EXCEPT !.context = new]
    BY <1>5, <1>6, <1>8
  <2>2. /\ choice' \in Choices /\ choice'.model = old.model /\ choice'.output = old.output
        /\ choice'.context = new
    BY <2>1, <1>4, <1>6 DEF Choices
  <2>3. choice.model # NoModel => max = Info[choice.model].maxContext
    BY <1>1, <1>8
  <2> QED
    BY <2>2, <2>3, <1>4, <1>6 DEF ChoiceFits, Fits
<1> QED
  BY <1>7, <1>8

\* What a step may do to the settings of the next message.
LEMMA ChoiceStep ==
    ASSUME ComposerTyped, ComposerNext
    PROVE  /\ choice' \in Choices
           /\ ChoiceFits(choice) => ChoiceFits(choice')
<1>1. choice \in Choices
  BY DEF ComposerTyped
<1>2. ASSUME NEW m \in Models
      PROVE  HandleModelChange(choice, m) \in Choices /\ ChoiceFits(HandleModelChange(choice, m))
  <2>1. Info[m].maxOutput \in Nat
    BY ComposerAssumption
  <2> QED
    BY <2>1, <1>1, ModelChanged DEF ChoiceFits, Fits
<1>3. ASSUME RenderComposer PROVE choice' = choice \/ \E m \in Models : choice' = HandleModelChange(choice, m)
  BY <1>3, DefaultsAreModels DEF RenderComposer
<1>4. ASSUME NEW m \in Models, SetSelectedModel(m) PROVE choice' \in Choices /\ ChoiceFits(choice')
  <2>1. PICK c : c = HandleModelChange(choice, m)
    OBVIOUS
  <2>2. choice' = [c EXCEPT !.byUser = TRUE] /\ c \in Choices /\ ChoiceFits(c)
    BY <2>1, <1>2, <1>4 DEF SetSelectedModel
  <2> QED
    BY <2>2 DEF Choices, ChoiceFits
<1>5. ASSUME NEW t \in Tools, ToggleTool(t)
      PROVE  choice' \in Choices /\ (ChoiceFits(choice) => ChoiceFits(choice'))
  <2>1. PICK c : c = choice
    OBVIOUS
  <2>2. PICK tools : tools = IF t \in c.tools THEN c.tools \ {t} ELSE c.tools \cup {t}
    OBVIOUS
  <2>3. c \in Choices /\ tools \in SUBSET Tools /\ choice' = [c EXCEPT !.tools = tools]
    BY <1>1, <1>5, <2>1, <2>2 DEF ToggleTool, Choices
  <2> QED
    BY <2>1, <2>3 DEF Choices, ChoiceFits
<1>6. ASSUME UNCHANGED choice PROVE choice' \in Choices /\ (ChoiceFits(choice) => ChoiceFits(choice'))
  BY <1>1, <1>6
<1>7. CASE \E paused \in SUBSET Models : ComposerModelsReturn(paused)
  BY <1>6, <1>7 DEF ComposerModelsReturn
<1>8. CASE \E active, agreed \in SUBSET Nodes : FetchAndReconcileNodes(active, agreed)
  BY <1>6, <1>8 DEF FetchAndReconcileNodes
<1>9. CASE RenderComposer
  BY <1>1, <1>2, <1>3, <1>9
<1>10. CASE \E m \in Models : SetSelectedModel(m)
  BY <1>4, <1>10
<1>11. CASE \E t \in Tools : ToggleTool(t)
  BY <1>5, <1>11
<1>12. CASE \E label \in {"output", "context"}, v \in Typed : SetOption(label, v)
  BY <1>1, <1>12, OptionSet
<1>13. CASE SendComposed \/ Resend \/ RequestEnds \/ FlagChanges
  BY <1>6, <1>13 DEF SendComposed, Resend, RequestEnds, FlagChanges
<1>14. CASE \E n \in Nodes : BlacklistNode(n) \/ BlacklistExpires(n)
  BY <1>6, <1>14 DEF BlacklistNode, BlacklistExpires
<1> QED
  BY <1>7, <1>8, <1>9, <1>10, <1>11, <1>12, <1>13, <1>14 DEF ComposerNext


\* What a step may do to the lists, their counts and the effects that are due.
ListsAreFresh == offer \in Offers /\ nodes \subseteq Nodes /\ CountsAreFresh

LEMMA ListsStep ==
    ASSUME ListsAreFresh, ComposerNext
    PROVE  ListsAreFresh'
<1>1. Counted({}) \in [Models -> Nat] /\ Counted(nodes) \in [Models -> Nat]
  BY CountedFacts DEF ListsAreFresh
<1>2. ASSUME NEW paused \in SUBSET Models, ComposerModelsReturn(paused) PROVE ListsAreFresh'
  BY <1>1, <1>2 DEF ComposerModelsReturn, ListsAreFresh, CountsAreFresh, Offers
<1>3. ASSUME NEW active \in SUBSET Nodes, NEW agreed \in SUBSET Nodes, FetchAndReconcileNodes(active, agreed)
      PROVE  ListsAreFresh'
  BY <1>3 DEF FetchAndReconcileNodes, ListsAreFresh, CountsAreFresh
<1>4. CASE RenderComposer
  <2>1. PICK old : old = offer
    OBVIOUS
  <2>2. PICK counts : counts = Counted(nodes)
    OBVIOUS
  <2>3. nodes' = nodes /\ old \in Offers /\ counts \in [Models -> Nat]
    BY <1>1, <1>4, <2>1, <2>2 DEF RenderComposer, ListsAreFresh
  <2>4. CASE offer.known /\ changed \cap {"models", "nodes"} # {}
    <3>1. offer' = [old EXCEPT !.counts = counts]
      BY <1>4, <2>1, <2>2, <2>4 DEF RenderComposer, UpdateNodeCounts
    <3>2. offer' \in Offers /\ offer'.counts = counts
      BY <3>1, <2>3 DEF Offers
    <3> QED
      BY <3>2, <2>2, <2>3 DEF ListsAreFresh, CountsAreFresh
  <2>5. CASE ~(offer.known /\ changed \cap {"models", "nodes"} # {})
    <3>1. offer' = offer
      BY <1>4, <2>5 DEF RenderComposer, UpdateNodeCounts
    <3>2. offer.known => "models" \notin changed /\ "nodes" \notin changed
      BY <2>5
    <3> QED
      BY <3>1, <3>2, <2>3 DEF ListsAreFresh, CountsAreFresh
  <2> QED
    BY <2>4, <2>5
<1>5. ASSUME UNCHANGED <<offer, nodes>>, changed \subseteq changed' PROVE ListsAreFresh'
  BY <1>5 DEF ListsAreFresh, CountsAreFresh
<1>6. CASE \E m \in Models : SetSelectedModel(m)
  BY <1>5, <1>6 DEF SetSelectedModel
<1>7. CASE \E t \in Tools : ToggleTool(t)
  BY <1>5, <1>7 DEF ToggleTool
<1>8. CASE \E label \in {"output", "context"}, v \in Typed : SetOption(label, v)
  BY <1>5, <1>8 DEF SetOption
<1>9. CASE SendComposed \/ Resend \/ RequestEnds \/ FlagChanges
  BY <1>5, <1>9 DEF SendComposed, Resend, RequestEnds, FlagChanges
<1>10. CASE \E n \in Nodes : BlacklistNode(n) \/ BlacklistExpires(n)
  BY <1>5, <1>10 DEF BlacklistNode, BlacklistExpires
<1> QED
  BY <1>2, <1>3, <1>4, <1>6, <1>7, <1>8, <1>9, <1>10 DEF ComposerNext

ComposerSound == ListsAreFresh /\ choice \in Choices

LEMMA ComposerInitial == ComposerInit => ComposerSound /\ ChoiceFits(choice) /\ RequestsFit
<1>1. Counted({}) \in [Models -> Nat]
  BY CountedFacts
<1>2. ASSUME ComposerInit PROVE offer \in Offers /\ choice \in Choices
  BY <1>1, <1>2 DEF ComposerInit, Offers, Choices
<1>3. ASSUME ComposerInit PROVE ~offer.known /\ nodes = {} /\ choice.model = NoModel /\ request = NoRequest
  BY <1>3 DEF ComposerInit
<1> QED
  BY <1>2, <1>3 DEF ComposerSound, ListsAreFresh, CountsAreFresh, ChoiceFits, RequestsFit

LEMMA ComposerInductive == ComposerSound /\ [ComposerNext]_composerVars => ComposerSound'
<1> SUFFICES ASSUME ComposerSound, [ComposerNext]_composerVars PROVE ComposerSound'
  OBVIOUS
<1>1. CASE UNCHANGED composerVars
  BY <1>1 DEF composerVars, ComposerSound, ListsAreFresh, CountsAreFresh
<1>2. CASE ComposerNext
  BY <1>2, ListsStep, ChoiceStep DEF ComposerSound, ListsAreFresh, ComposerTyped
<1> QED
  BY <1>1, <1>2

\* Once the page is rendered, the input is ready exactly when a node of the
\* selected model is known, whatever the order in which the lists of models and
\* of nodes arrive and for any models and nodes: a list of models sets all
\* counts to zero, and the effect of InnerProviders counts again.
THEOREM ReadinessTrue == ComposerSpec => []ReadinessIsTrue
<1>1. ComposerSound => ReadinessIsTrue
  <2> SUFFICES ASSUME ComposerSound, AllRendered, offer.known PROVE ReadinessIsTrue
    BY DEF ReadinessIsTrue
  <2>1. offer.counts = Counted(nodes) /\ nodes \subseteq Nodes
    BY DEF ComposerSound, ListsAreFresh, CountsAreFresh, AllRendered
  <2>2. choice.model # NoModel => choice.model \in Models
    BY DEF ComposerSound, Choices
  <2>3. choice.model # NoModel =>
          (offer.counts[choice.model] > 0 <=> \E n \in nodes : Serves[n] = choice.model)
    BY <2>1, <2>2, CountedFacts
  <2> QED
    BY <2>3 DEF ReadinessIsTrue, Ready
<1> QED
  BY <1>1, ComposerInitial, ComposerInductive, PTL DEF ComposerSpec

\* The request that a step makes names the model that is selected, its limits
\* and one of its nodes.
LEMMA RequestStep ==
    ASSUME ComposerSound, ChoiceFits(choice), RequestsFit, ComposerNext
    PROVE  RequestsFit'
<1>1. ASSUME UNCHANGED request PROVE RequestsFit'
  BY <1>1 DEF RequestsFit
<1>2. ASSUME NEW n \in PickNodeForModel(choice.model), request' = RequestOf(n), choice.model # NoModel
      PROVE  RequestsFit'
  <2>1. Serves[n] = choice.model
    BY <1>2 DEF PickNodeForModel
  <2>2. /\ request'.node = n /\ request'.model = choice.model
        /\ request'.output = choice.output /\ request'.context = choice.context
    BY <1>2 DEF RequestOf
  <2> QED
    BY <1>2, <2>1, <2>2 DEF RequestsFit, ChoiceFits, Fits
<1>3. CASE SendComposed
  BY <1>1, <1>2, <1>3 DEF SendComposed, Ready
<1>4. CASE Resend
  BY <1>2, <1>4 DEF Resend
<1>5. CASE RequestEnds
  BY <1>5 DEF RequestEnds, RequestsFit
<1>6. CASE \/ \E paused \in SUBSET Models : ComposerModelsReturn(paused)
           \/ \E active, agreed \in SUBSET Nodes : FetchAndReconcileNodes(active, agreed)
           \/ RenderComposer \/ FlagChanges
           \/ \E m \in Models : SetSelectedModel(m)
           \/ \E t \in Tools : ToggleTool(t)
           \/ \E label \in {"output", "context"}, v \in Typed : SetOption(label, v)
           \/ \E n \in Nodes : BlacklistNode(n) \/ BlacklistExpires(n)
  BY <1>1, <1>6 DEF ComposerModelsReturn, FetchAndReconcileNodes, RenderComposer, FlagChanges,
        SetSelectedModel, ToggleTool, SetOption, BlacklistNode, BlacklistExpires
<1> QED
  BY <1>3, <1>4, <1>5, <1>6 DEF ComposerNext

\* A request goes to a node of the model that it names, with limits that this
\* model allows, or with the minimum of a slider where the model allows less (the
\* preset of an embedding model has no output), for any models and nodes, whatever
\* the user or the lists do while the request is under way.
THEOREM RequestsFitModel == ComposerSpec => []RequestsFit
<1> DEFINE Inv == ComposerSound /\ ChoiceFits(choice) /\ RequestsFit
<1>1. Inv /\ [ComposerNext]_composerVars => Inv'
  <2> SUFFICES ASSUME Inv, [ComposerNext]_composerVars PROVE Inv'
    OBVIOUS
  <2>1. CASE UNCHANGED composerVars
    BY <2>1, ComposerInductive DEF composerVars, ChoiceFits, RequestsFit
  <2>2. CASE ComposerNext
    BY <2>2, ComposerInductive, ChoiceStep, RequestStep DEF ComposerSound, ListsAreFresh, ComposerTyped
  <2> QED
    BY <2>1, <2>2
<1> QED
  BY <1>1, ComposerInitial, PTL DEF ComposerSpec
=============================================================================
