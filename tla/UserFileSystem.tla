--------------------------- MODULE UserFileSystem ---------------------------
(***************************************************************************)
(* The folders and files of one gpt_user canister.  Five stable maps and   *)
(* the configuration cell hold them: FOLDERS, FILES_METADATA and           *)
(* FILES_CONTENT by id, FOLDER_CONTENTS_INDEX with the children of each    *)
(* folder, and CONFIG.root_folder_id.  No handler awaits, so each is one   *)
(* action; the callers are the bound owner (verify_owner), who owns every  *)
(* item.                                                                   *)
(*                                                                         *)
(* A name is the text of a request: what is left of it when trimmed, and   *)
(* whether it came with surrounding blanks.  Names validate_item_name      *)
(* rejects, unsupported MIME types and oversized contents are requests     *)
(* that change nothing.                                                    *)
(***************************************************************************)
EXTENDS Naturals, Sequences, FiniteSets, StableMap

CONSTANTS
    Texts,                 \* trimmed names the owner uses
    MAX_FILES_PER_USER, MAX_FOLDERS_PER_USER,
    MAX_FS_DEPTH, MAX_ITEMS_PER_FOLDER,     \* limits of config.rs
    MAX_FOLDER_ID, MAX_FILE_ID              \* bounds on the counters

ASSUME LimitsAssumption ==
    /\ MAX_FILES_PER_USER \in Nat /\ MAX_FOLDERS_PER_USER \in Nat \ {0}
    /\ MAX_FS_DEPTH \in Nat \ {0} /\ MAX_ITEMS_PER_FOLDER \in Nat
    /\ MAX_FOLDER_ID \in Nat \ {0} /\ MAX_FILE_ID \in Nat

VARIABLES
    folders,          \* FOLDERS: folder id -> name and parent
    files,            \* FILES_METADATA: file id -> name and parent
    contents,         \* the ids FILES_CONTENT has bytes for
    index,            \* FOLDER_CONTENTS_INDEX: folder id -> ids of children
    root_folder_id, next_folder_id, next_file_id     \* in CONFIG

vars == <<folders, files, contents, index,
          root_folder_id, next_folder_id, next_file_id>>

ROOT_FOLDER_ID == 0    \* the parent of the root, never the id of a folder
None == 0

Name == [text : Texts \cup {"Home", "root"}, padded : BOOLEAN]
Requested == [text : Texts, padded : BOOLEAN]
Trimmed == {name \in Requested : ~name.padded}
Trim(name) == [name EXCEPT !.padded = FALSE]
Home == [text |-> "Home", padded |-> FALSE]

Item == [name : Name, parent : Nat]
NoChildren == [folders |-> {}, files |-> {}]

\* index.get(id).unwrap_or_default()
ChildrenOf(f) == IF f \in DOMAIN index THEN index[f] ELSE NoChildren

Init ==
    /\ folders = EmptyMap /\ files = EmptyMap /\ contents = {}
    /\ index = EmptyMap
    /\ root_folder_id = None /\ next_folder_id = 1 /\ next_file_id = 1
-----------------------------------------------------------------------------
\* validate_parent_folder_and_capacity
HasRoom(parent) ==
    /\ parent \in DOMAIN folders
    /\ Cardinality(ChildrenOf(parent).folders)
          + Cardinality(ChildrenOf(parent).files) < MAX_ITEMS_PER_FOLDER

\* validate_item_name_and_collision compares the name as it was sent.
Collides(name, parent, kind) ==
    IF kind = "Folder"
    THEN \E f \in ChildrenOf(parent).folders :
            f \in DOMAIN folders /\ folders[f].name = name
    ELSE \E f \in ChildrenOf(parent).files :
            f \in DOMAIN files /\ files[f].name = name

\* n steps up from folder f; the walk stops at ROOT_FOLDER_ID.
Ancestor(f, n) ==
    LET up[k \in 0 .. n] ==
            IF k = 0 THEN f
            ELSE IF up[k - 1] \in DOMAIN folders THEN folders[up[k - 1]].parent
            ELSE up[k - 1]
    IN  up[n]

\* get_folder_depth(f) succeeds with a value below the limit.
DepthBelow(f, limit) == \E d \in 0 .. limit - 1 : Ancestor(f, d) = ROOT_FOLDER_ID

\* The root is made when the owner is bound (finalize_registration), or by a
\* repeated finalization if CONFIG names none.
FinalizeRegistration ==
    /\ root_folder_id = None
    /\ next_folder_id <= MAX_FOLDER_ID
    /\ folders' = Insert(folders, next_folder_id,
                         [name |-> Home, parent |-> ROOT_FOLDER_ID])
    /\ index' = Insert(index, next_folder_id, NoChildren)
    /\ root_folder_id' = next_folder_id
    /\ next_folder_id' = next_folder_id + 1
    /\ UNCHANGED <<files, contents, next_file_id>>

CreateFolder(name, parent) ==
    /\ HasRoom(parent)
    /\ ~Collides(name, parent, "Folder")
    /\ Cardinality(DOMAIN folders) < MAX_FOLDERS_PER_USER
    /\ DepthBelow(parent, MAX_FS_DEPTH)
    /\ next_folder_id <= MAX_FOLDER_ID
    /\ folders' = Insert(folders, next_folder_id,
                         [name |-> Trim(name), parent |-> parent])
    /\ LET linked == Insert(index, parent, [ChildrenOf(parent) EXCEPT
                                              !.folders = @ \cup {next_folder_id}])
       IN  index' = Insert(linked, next_folder_id, NoChildren)
    /\ next_folder_id' = next_folder_id + 1
    /\ UNCHANGED <<files, contents, root_folder_id, next_file_id>>

UploadFile(name, parent) ==
    /\ HasRoom(parent)
    /\ ~Collides(name, parent, "File")
    /\ Cardinality(DOMAIN files) < MAX_FILES_PER_USER
    /\ next_file_id <= MAX_FILE_ID
    /\ files' = Insert(files, next_file_id,
                       [name |-> Trim(name), parent |-> parent])
    /\ contents' = contents \cup {next_file_id}
    /\ index' = Insert(index, parent, [ChildrenOf(parent) EXCEPT
                                          !.files = @ \cup {next_file_id}])
    /\ next_file_id' = next_file_id + 1
    /\ UNCHANGED <<folders, root_folder_id, next_folder_id>>

RenameFile(f, name) ==
    /\ f \in DOMAIN files
    /\ ~Collides(name, files[f].parent, "File")
    /\ files' = [files EXCEPT ![f].name = Trim(name)]
    /\ UNCHANGED <<folders, contents, index,
                   root_folder_id, next_folder_id, next_file_id>>

RenameFolder(f, name) ==
    /\ f \in DOMAIN folders
    /\ ~Collides(name, folders[f].parent, "Folder")
    /\ folders' = [folders EXCEPT ![f].name = Trim(name)]
    /\ UNCHANGED <<files, contents, index,
                   root_folder_id, next_folder_id, next_file_id>>

DeleteFile(f) ==
    /\ f \in DOMAIN files
    /\ files' = RemoveKeys(files, {f})
    /\ contents' = contents \ {f}
    /\ index' = LET parent == files[f].parent
                IN  IF parent \in DOMAIN index
                    THEN [index EXCEPT ![parent].files = @ \ {f}] ELSE index
    /\ UNCHANGED <<folders, root_folder_id, next_folder_id, next_file_id>>

\* Mutant of IsEmpty: only subfolders are looked for.
HasNoSubfolder(f) == ChildrenOf(f).folders = {}

IsEmpty(f) == ChildrenOf(f) = NoChildren

\* The two tests of delete_item that are meant for the root.
TakenForRoot(f) ==
    \/ f = ROOT_FOLDER_ID
    \/ folders[f].parent = ROOT_FOLDER_ID /\ folders[f].name.text = "root"

DeleteFolder(f) ==
    /\ f \in DOMAIN folders
    /\ ~TakenForRoot(f)
    /\ IsEmpty(f)
    /\ folders' = RemoveKeys(folders, {f})
    /\ LET parent   == folders[f].parent
           unlinked == IF parent \in DOMAIN index
                       THEN [index EXCEPT ![parent].folders = @ \ {f}] ELSE index
       IN  index' = RemoveKeys(unlinked, {f})
    /\ UNCHANGED <<files, contents, root_folder_id, next_folder_id, next_file_id>>

Next ==
    \/ FinalizeRegistration
    \/ \E name \in Requested, parent \in DOMAIN folders :
          CreateFolder(name, parent) \/ UploadFile(name, parent)
    \/ \E name \in Requested : \/ \E f \in DOMAIN files : RenameFile(f, name)
                               \/ \E f \in DOMAIN folders : RenameFolder(f, name)
    \/ \E f \in DOMAIN files : DeleteFile(f)
    \/ \E f \in DOMAIN folders : DeleteFolder(f)

\* The requests of the front end (FilesPageComponent, uploadFiles): the names of
\* folders and the new names of items are trimmed, a file has the name it has.
ClientNext ==
    \/ FinalizeRegistration
    \/ \E parent \in DOMAIN folders : \/ \E name \in Trimmed : CreateFolder(name, parent)
                                      \/ \E name \in Requested : UploadFile(name, parent)
    \/ \E name \in Trimmed : \/ \E f \in DOMAIN files : RenameFile(f, name)
                             \/ \E f \in DOMAIN folders : RenameFolder(f, name)
    \/ \E f \in DOMAIN files : DeleteFile(f)
    \/ \E f \in DOMAIN folders : DeleteFolder(f)

Spec == Init /\ [][Next]_vars
ClientSpec == Init /\ [][ClientNext]_vars
-----------------------------------------------------------------------------
(***************************************************************************)
(* resolve_path: down from the root, one name at a time.  Children are     *)
(* appended to the index in the order of their ids, so the first match is  *)
(* the one with the least id.  None stands for PathNotFound.               *)
(***************************************************************************)
First(S) == IF S = {} THEN None ELSE CHOOSE i \in S : \A k \in S : i <= k

FolderNamed(parent, name) ==
    First({f \in ChildrenOf(parent).folders :
              f \in DOMAIN folders /\ folders[f].name = name})

FileNamed(parent, name) ==
    First({f \in ChildrenOf(parent).files :
              f \in DOMAIN files /\ files[f].name = name})

ResolvePath(path) ==
    LET at[k \in 0 .. Len(path)] ==
            IF k = 0 THEN root_folder_id ELSE FolderNamed(at[k - 1], path[k])
        n == Len(path)
    IN  IF at[n] # None THEN [kind |-> "Folder", id |-> at[n]]
        ELSE [kind |-> "File", id |-> FileNamed(at[n - 1], path[n])]

\* The names from the root, exclusive, down to folder f.
PathTo(f) ==
    LET d == CHOOSE k \in 0 .. MAX_FS_DEPTH : Ancestor(f, k) = root_folder_id
    IN  [i \in 1 .. d |-> folders[Ancestor(f, d - i)].name]
-----------------------------------------------------------------------------
\* Every map holds well-formed records.
TypeOK ==
    /\ DOMAIN folders \subseteq 1 .. next_folder_id - 1
    /\ DOMAIN files \subseteq 1 .. next_file_id - 1
    /\ folders \in [DOMAIN folders -> Item] /\ files \in [DOMAIN files -> Item]
    /\ contents \subseteq Nat
    /\ DOMAIN index \subseteq Nat
    /\ index \in [DOMAIN index -> [folders : SUBSET Nat, files : SUBSET Nat]]
    /\ root_folder_id \in Nat
    /\ next_folder_id \in Nat \ {0} /\ next_file_id \in Nat \ {0}

\* The contents index and the parent links are the same relation: a folder
\* lists exactly the items whose parent it is, no item hangs under a folder
\* that is not stored, and every file has its bytes.  Creation, deletion and
\* the refusal to delete a non-empty folder have to agree for this.
IndexIsExact ==
    /\ DOMAIN index = DOMAIN folders
    /\ \A f \in DOMAIN folders :
          /\ index[f].folders = {g \in DOMAIN folders : folders[g].parent = f}
          /\ index[f].files = {g \in DOMAIN files : files[g].parent = f}
          /\ folders[f].parent \in DOMAIN folders \/ f = root_folder_id
    /\ \A g \in DOMAIN files : files[g].parent \in DOMAIN folders
    /\ contents = DOMAIN files

\* The limits of config.rs hold in every state, and every folder reaches the
\* root's parent within MAX_FS_DEPTH steps: the folders form a tree.
LimitsHold ==
    /\ Cardinality(DOMAIN files) <= MAX_FILES_PER_USER
    /\ Cardinality(DOMAIN folders) <= MAX_FOLDERS_PER_USER
    /\ \A f \in DOMAIN folders :
          /\ Ancestor(f, MAX_FS_DEPTH) = ROOT_FOLDER_ID
          /\ Cardinality(index[f].folders) + Cardinality(index[f].files)
                <= MAX_ITEMS_PER_FOLDER

\* Two folders of one folder never have one name.  Two files may: the name of an
\* upload is compared as it was sent, and stored trimmed.
NamesAreUnique ==
    \A f, g \in DOMAIN folders :
       folders[f].parent = folders[g].parent /\ folders[f].name = folders[g].name => f = g

\* get_item_by_path finds every folder under the path the client shows for it, and
\* under the path of a file that file, or one beside it that has the same name; a
\* file is hidden only by a folder of its name.
PathsResolve ==
    /\ \A f \in DOMAIN folders : ResolvePath(PathTo(f)) = [kind |-> "Folder", id |-> f]
    /\ \A g \in DOMAIN files :
          LET parent == files[g].parent
          IN  FolderNamed(parent, files[g].name) = None =>
                 \E h \in DOMAIN files :
                    /\ files[h] = files[g]
                    /\ ResolvePath(Append(PathTo(parent), files[g].name)) = [kind |-> "File", id |-> h]

\* The file system of a user is a tree within the limits of config.rs that its
\* indexes describe and whose paths resolve: whatever is created, renamed,
\* uploaded and deleted, and whichever call is refused.
TreeIsSound == TypeOK /\ IndexIsExact /\ LimitsHold /\ NamesAreUnique /\ PathsResolve
=============================================================================
