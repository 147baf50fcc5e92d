---------------------------- MODULE ClientSettings ----------------------------
(***************************************************************************)
(* The settings of the browser client: the governance tab and its store,   *)
(* the list of models, the list of nodes, and the wizard that creates one  *)
(* node or imports a file of them.  A store action is pending from its     *)
(* start to its end: it calls the index canister, waits, and               *)
(* refetches.  The forms of the governance tab send a whole copy of the    *)
(* policies; a copy is the set of the edits that it contains.              *)
(***************************************************************************)
EXTENDS Naturals, Sequences, FiniteSets

CONSTANTS Presets,       \* the default models
          ImportRows,    \* the nodes of an import file
          MaxPending,    \* bound: store actions started
          MaxReviews     \* bound: files imported

ASSUME SettingsBounds == MaxPending \in Nat /\ MaxReviews \in Nat /\ IsFiniteSet(ImportRows)

VARIABLES
    gov,        \* the governance store
    page,       \* the tab that is open, and the state of GovernanceTab
    modelList,  \* the models store
    nodeLists,  \* loading and hasFetched of the two lists of nodes
    index,      \* managers, policies and models of the index canister
    pending,    \* store actions under way
    wizard,     \* the state of NodeTab and of NodeImportReview
    created,    \* the nodes created by calls that returned, for each row reviewed
    lost,       \* the nodes created by calls that failed, for each row reviewed
    started     \* store actions started so far

settingsVars == <<gov, page, modelList, nodeLists, index, pending, wizard, created, lost, started>>

PolicyForms == {"policy", "versions"}
Lists == {"mine", "all"}
Reviewed == (1..MaxReviews) \X ImportRows
NoRows == [r \in {} |-> "idle"]

Pending(kind, arg) == [n |-> started, kind |-> kind, stage |-> "call", arg |-> arg,
                       seen |-> "", lists |-> {}, review |-> 0, todo |-> <<>>]

\* useState of GovernanceTab and its forms, and of NodeTab and NodeImportReview.
\* own holds the store actions that this instance of the component waits for.
FreshTab(tab) == [tab |-> tab, form |-> "none", copy |-> {}, submitting |-> {}, restoring |-> FALSE,
                  claiming |-> FALSE, own |-> {}]
FreshWizard(reviews) == [step |-> 0, review |-> reviews, rows |-> NoRows, processing |-> FALSE,
                         creating |-> FALSE, own |-> {}]

\* The start-up of the client has fetched the governance data, or failed to.
SettingsInit ==
    /\ index \in [managed : {"no", "me"}, rules : {{}}, models : {{}}]
    /\ \E fetched \in BOOLEAN :
         gov = [loading |-> FALSE, fetched |-> fetched, manager |-> fetched /\ index.managed = "me",
                unclaimed |-> fetched /\ index.managed = "no", rules |-> {}, pool |-> FALSE]
    /\ page = FreshTab("other")
    /\ modelList = [models |-> {}, loading |-> FALSE, fetched |-> FALSE]
    /\ nodeLists = [l \in Lists |-> [loading |-> FALSE, fetched |-> FALSE]]
    /\ pending = {}
    /\ wizard = FreshWizard(0)
    /\ created = [p \in Reviewed |-> 0] /\ lost = created
    /\ started = 0

Starts(new) ==
    /\ started < MaxPending
    /\ pending' = pending \cup {new}
    /\ started' = started + 1

\* isLoading of GovernanceTab, which disables the buttons of its header.
TabIsLoading ==
    gov.loading \/ gov.pool \/ modelList.loading \/ page.restoring \/ page.claiming

-----------------------------------------------------------------------------
(* The governance tab.                                                      *)

\* SettingsModal shows one tab; the effect of GovernanceTab calls
\* fetchInitialData, which a request under way or an earlier one makes return.
OpenTab(tab) ==
    /\ page.tab # tab
    /\ page' = FreshTab(tab)
    /\ wizard' = FreshWizard(wizard.review)
    /\ IF tab = "governance" /\ ~gov.fetched /\ ~gov.loading
       THEN /\ Starts([Pending("initial", {}) EXCEPT !.stage = "refetch"])
            /\ gov' = [gov EXCEPT !.loading = TRUE]
       ELSE UNCHANGED <<gov, pending, started>>
    /\ UNCHANGED <<modelList, nodeLists, index, created, lost>>

\* What a manager sees: the tabs.  Without managers there is only a role to claim.
Governs == page.tab = "governance" /\ gov.fetched /\ ~gov.unclaimed /\ gov.manager

\* An action of the governance store starts.
StartsGoverning(kind, arg) ==
    /\ Starts(Pending(kind, arg))
    /\ gov' = [gov EXCEPT !.loading = TRUE]

ClaimManagerRole ==
    /\ page.tab = "governance" /\ gov.fetched /\ gov.unclaimed /\ ~page.claiming
    /\ page' = [page EXCEPT !.claiming = TRUE, !.own = @ \cup {started}]
    /\ StartsGoverning("claim", {})
    /\ UNCHANGED <<modelList, nodeLists, index, wizard, created, lost>>

\* handleEnterForm, handleEditModel and handleEditVersion: PolicyForm and
\* VersionsForm copy the requirements that the store holds.
EnterForm(form) ==
    /\ Governs /\ page.form = "none" /\ ~TabIsLoading
    /\ page' = [page EXCEPT !.form = form, !.copy = gov.rules, !.submitting = {}]
    /\ UNCHANGED <<gov, modelList, nodeLists, index, pending, wizard, created, lost, started>>

\* handleExitForm and handleTabChange.
ExitForm ==
    /\ page.form # "none"
    /\ page' = [page EXCEPT !.form = "none", !.copy = {}, !.submitting = {}]
    /\ UNCHANGED <<gov, modelList, nodeLists, index, pending, wizard, created, lost, started>>

\* handleSubmit of the forms; what a policy form sends is its copy with one edit.
SubmitForm ==
    /\ page.form # "none"
    /\ IF page.form = "model" THEN ~TabIsLoading ELSE page.submitting = {}
    /\ page' = [page EXCEPT !.submitting = {started}, !.own = @ \cup {started}]
    /\ StartsGoverning(page.form, IF page.form \in PolicyForms THEN page.copy \cup {page.form} ELSE {})
    /\ UNCHANGED <<modelList, nodeLists, index, wizard, created, lost>>

\* The buttons of a row: handleAction of RegistryTab and handleRemove of
\* ManagersTab are never disabled, handleToggleStatus of ModelsTab is.
RowAction(kind) ==
    /\ Governs /\ page.form = "none"
    /\ kind = "toggle" => ~modelList.loading /\ ~gov.loading
    /\ StartsGoverning(kind, {})
    /\ UNCHANGED <<page, modelList, nodeLists, index, wizard, created, lost>>

\* handleRestoreDefaults: the presets that the cached list lacks, one at a time.
RestoreDefaults ==
    /\ Governs /\ page.form = "none" /\ ~TabIsLoading
    /\ page' = [page EXCEPT !.restoring = TRUE, !.own = @ \cup {started}]
    /\ LET missing == Presets \ modelList.models
       IN  IF missing # {} THEN StartsGoverning("restore", missing)
           ELSE Starts([Pending("restore", {}) EXCEPT !.stage = "models"]) /\ UNCHANGED gov
    /\ UNCHANGED <<modelList, nodeLists, index, wizard, created, lost>>

\* What the index does with a call of a manager.
IndexAfter(w) ==
    CASE w.kind = "claim" -> [index EXCEPT !.managed = "me"]
      [] w.kind \in PolicyForms -> [index EXCEPT !.rules = w.arg]
      [] w.kind = "restore" -> [index EXCEPT !.models = @ \cup {CHOOSE m \in w.arg : TRUE}]
      [] w.kind = "removeManager" -> [index EXCEPT !.managed = "other"]
      [] OTHER -> index

Refused(w) == index.managed # (IF w.kind = "claim" THEN "no" ELSE "me")

\* handleSuccess closes whatever form is open now; nothing happens to a tab
\* that was left meanwhile.
PageAfter(w, ok) ==
    IF w.n \notin page.own THEN page
    ELSE CASE w.kind = "claim" -> [page EXCEPT !.claiming = FALSE]
           [] w.kind = "restore" -> [page EXCEPT !.restoring = FALSE]
           [] w.kind \in PolicyForms \cup {"add", "model"} ->
                 IF ok THEN [page EXCEPT !.form = "none", !.copy = {}, !.submitting = {}]
                 ELSE [page EXCEPT !.submitting = @ \ {w.n}]
           [] OTHER -> page

\* The next preset of handleRestoreDefaults, or its last fetchModels: an error
\* of one preset does not stop the others.
NextPreset(w) ==
    LET left == w.arg \ {CHOOSE m \in w.arg : TRUE}
    IN  [w EXCEPT !.arg = left, !.stage = IF left = {} THEN "models" ELSE "call"]

ModelKinds == {"model", "toggle", "restore"}
GovKinds == PolicyForms \cup {"claim", "add", "row", "removeManager"} \cup ModelKinds

\* The index executes the call; the action goes on with its refetch.
GovernanceCallReturns(w) ==
    /\ w.kind \in GovKinds /\ w.stage = "call" /\ ~Refused(w)
    /\ index' = IndexAfter(w)
    /\ pending' = (pending \ {w}) \cup {[w EXCEPT !.stage = IF w.kind \in ModelKinds THEN "models" ELSE "refetch"]}
    /\ gov' = IF w.kind \in ModelKinds THEN gov ELSE [gov EXCEPT !.loading = TRUE]
    /\ UNCHANGED <<page, modelList, nodeLists, wizard, created, lost, started>>

\* Mutant of GovernanceCallFails: an error leaves the store loading.
GovernanceCallFailsLoading(w) ==
    /\ w.kind \in GovKinds /\ w.stage = "call" /\ w.kind # "restore"
    /\ pending' = pending \ {w}
    /\ page' = PageAfter(w, FALSE)
    /\ UNCHANGED <<gov, modelList, nodeLists, index, wizard, created, lost, started>>

\* The call fails, executed or not: the finally block, the error for the caller.
GovernanceCallFails(w) ==
    /\ w.kind \in GovKinds /\ w.stage = "call"
    /\ index' \in {index} \cup (IF Refused(w) THEN {} ELSE {IndexAfter(w)})
    /\ IF w.kind = "restore"
       THEN LET next == NextPreset(w)
            IN  /\ pending' = (pending \ {w}) \cup {next}
                /\ gov' = [gov EXCEPT !.loading = (next.stage = "call")]
                /\ UNCHANGED page
       ELSE /\ pending' = pending \ {w}
            /\ gov' = [gov EXCEPT !.loading = FALSE]
            /\ page' = PageAfter(w, FALSE)
    /\ UNCHANGED <<modelList, nodeLists, wizard, created, lost, started>>

\* The queries of fetchInitialData are executed, and answered later.
QueriesExecute(w) ==
    /\ w.stage = "refetch"
    /\ pending' = (pending \ {w}) \cup {[w EXCEPT !.stage = "answer", !.arg = index.rules,
                                              !.seen = index.managed]}
    /\ UNCHANGED <<gov, page, modelList, nodeLists, index, wizard, created, lost, started>>

\* Their answers; an error is only noted, and the caller cannot tell.
InitialDataReturns(w) ==
    /\ w.stage = "answer"
    /\ \/ gov' = [gov EXCEPT !.loading = FALSE, !.fetched = TRUE, !.rules = w.arg,
                             !.manager = (w.seen = "me"), !.unclaimed = (w.seen = "no")]
       \/ gov' = [gov EXCEPT !.loading = FALSE]
    /\ pending' = pending \ {w}
    /\ page' = PageAfter(w, TRUE)
    /\ UNCHANGED <<modelList, nodeLists, index, wizard, created, lost, started>>

-----------------------------------------------------------------------------
(* The models and the pool of canisters.                                    *)

\* fetchModels(false) of the tabs: only the first one shows a spinner.
FetchModels ==
    /\ ~modelList.loading
    /\ Starts([Pending("models", {}) EXCEPT !.stage = "models"])
    /\ modelList' = [modelList EXCEPT !.loading = ~modelList.fetched]
    /\ UNCHANGED <<gov, page, nodeLists, index, wizard, created, lost>>

\* fetchModelsLogic ends, and with it the store action that awaits it.
ModelsReturn(w) ==
    /\ w.stage = "models"
    /\ \/ modelList' = [models |-> index.models, loading |-> FALSE, fetched |-> TRUE]
       \/ modelList' = [modelList EXCEPT !.loading = FALSE]
    /\ IF w.kind = "restore" /\ w.arg # {}
       THEN LET next == NextPreset(w)
            IN  /\ pending' = (pending \ {w}) \cup {next}
                /\ gov' = [gov EXCEPT !.loading = (next.stage = "call")]
                /\ UNCHANGED page
       ELSE /\ pending' = pending \ {w}
            /\ gov' = IF w.kind \in {"model", "toggle"} THEN [gov EXCEPT !.loading = FALSE] ELSE gov
            /\ page' = PageAfter(w, TRUE)
    /\ UNCHANGED <<nodeLists, index, wizard, created, lost, started>>

\* fetchCanisters, and provisionCanister, which ends with it.
FetchCanisters(kind) ==
    /\ Governs
    /\ kind = "provision" => ~TabIsLoading
    /\ Starts(Pending(kind, {}))
    /\ gov' = [gov EXCEPT !.pool = TRUE]
    /\ UNCHANGED <<page, modelList, nodeLists, index, wizard, created, lost>>

\* The canister is created, or the pool is listed: its storage is asked for
\* next.  An error ends the work.
PoolReturns(w) ==
    /\ w.kind \in {"provision", "canisters"} /\ w.stage \in {"call", "storage"}
    /\ \/ /\ w.stage = "call"
          /\ pending' = (pending \ {w}) \cup {IF w.kind = "provision" THEN [w EXCEPT !.kind = "canisters"]
                                          ELSE [w EXCEPT !.stage = "storage"]}
          /\ gov' = [gov EXCEPT !.pool = (w.kind = "provision" \/ gov.pool)]
       \/ pending' = pending \ {w} /\ gov' = [gov EXCEPT !.pool = FALSE]
    /\ UNCHANGED <<page, modelList, nodeLists, index, wizard, created, lost, started>>

-----------------------------------------------------------------------------
(* The lists of nodes, the wizard and the import.                           *)

\* fetchMyNodesAuth and fetchAllActiveNodesAuth: a list that is fetched again
\* without force shows no spinner.
StartsList(l, force) ==
    /\ Starts([Pending("nodes", {}) EXCEPT !.stage = "lists", !.lists = {l}])
    /\ nodeLists' = [nodeLists EXCEPT ![l].loading = @ \/ force \/ ~nodeLists[l].fetched]

\* The effects of NodeTab.
FetchNodes(l) ==
    /\ page.tab = "nodes" /\ wizard.step = 0 /\ ~nodeLists[l].loading
    /\ StartsList(l, FALSE)
    /\ UNCHANGED <<gov, page, modelList, index, wizard, created, lost>>

\* isNewNodeDisabled, for a registered user and a protocol with a model and a
\* measurement.
NewNodeDisabled == modelList.loading \/ ~gov.fetched

\* handleEnterWizard, and parseImportFile with the rows of the file.
EnterWizard ==
    /\ page.tab = "nodes" /\ wizard.step = 0 /\ ~NewNodeDisabled
    /\ wizard' = [wizard EXCEPT !.step = 1]
    /\ UNCHANGED <<gov, page, modelList, nodeLists, index, pending, created, lost, started>>

ParseImportFile ==
    /\ page.tab = "nodes" /\ wizard.step = 0 /\ ~NewNodeDisabled /\ wizard.review < MaxReviews
    /\ wizard' = [wizard EXCEPT !.step = 2, !.review = @ + 1, !.processing = FALSE,
                                !.rows = [r \in ImportRows |-> "idle"]]
    /\ UNCHANGED <<gov, page, modelList, nodeLists, index, pending, created, lost, started>>

\* handleExitWizard: the review goes, a loop that it has started goes on; the
\* user's own nodes, the list shown, are fetched again.
Left(wz) == [wz EXCEPT !.step = 0, !.rows = NoRows, !.processing = FALSE]

ExitWizard ==
    /\ wizard.step # 0
    /\ wizard' = Left(wizard)
    /\ StartsList("mine", TRUE)
    /\ UNCHANGED <<gov, page, modelList, index, created, lost>>

RemoveRow(r) ==
    /\ wizard.step = 2 /\ r \in DOMAIN wizard.rows /\ wizard.rows[r] \in {"idle", "error"}
    /\ wizard' = [wizard EXCEPT !.rows = [s \in DOMAIN wizard.rows \ {r} |-> wizard.rows[s]]]
    /\ UNCHANGED <<gov, page, modelList, nodeLists, index, pending, created, lost, started>>

\* Mutant of NodesToProcess: every row is tried again.
AllRows(rows) == DOMAIN rows

\* The rows that handleProcessImport tries: those that are not created yet.
NodesToProcess(rows) == {r \in DOMAIN rows : rows[r] \in {"idle", "error"}}

\* handleCreateNode.
CreateNode ==
    /\ wizard.step = 1 /\ ~wizard.creating
    /\ wizard' = [wizard EXCEPT !.creating = TRUE, !.own = @ \cup {started}]
    /\ Starts(Pending("create", {}))
    /\ UNCHANGED <<gov, page, modelList, nodeLists, index, created, lost>>

\* A row of the review, if that review is still there.
Marks(wz, review, r, status) ==
    IF wz.step = 2 /\ wz.review = review /\ r \in DOMAIN wz.rows
    THEN [wz EXCEPT !.rows[r] = status] ELSE wz

\* handleProcessImport: the loop keeps the rows that it has found.
ProcessImport ==
    /\ wizard.step = 2 /\ ~wizard.processing /\ NodesToProcess(wizard.rows) # {}
    /\ \E todo \in [1..Cardinality(NodesToProcess(wizard.rows)) -> NodesToProcess(wizard.rows)] :
         /\ \A i, j \in DOMAIN todo : i < j => todo[i] # todo[j]
         /\ Starts([Pending("import", {}) EXCEPT !.review = wizard.review, !.todo = todo])
         /\ wizard' = Marks([wizard EXCEPT !.processing = TRUE], wizard.review, todo[1], "processing")
    /\ UNCHANGED <<gov, page, modelList, nodeLists, index, created, lost>>

\* The import has every row: "Done", for onImportCompleted.
ImportDone ==
    /\ wizard.step = 2 /\ ~wizard.processing
    /\ wizard.rows # NoRows /\ NodesToProcess(wizard.rows) = {}
    /\ wizard' = Left(wizard)
    /\ StartsList("mine", TRUE)
    /\ UNCHANGED <<gov, page, modelList, index, created, lost>>

\* The loop of handleProcessImport marks its row and goes on to the next one.
RowEnds(w, status) ==
    LET n == w.review
        rest == Tail(w.todo)
        marked == Marks(wizard, n, Head(w.todo), status)
    IN  IF rest = <<>>
        THEN /\ pending' = pending \ {w}
             /\ wizard' = IF wizard.review = n THEN [marked EXCEPT !.processing = FALSE] ELSE wizard
        ELSE /\ pending' = (pending \ {w}) \cup {[w EXCEPT !.todo = rest, !.stage = "call"]}
             /\ wizard' = Marks(marked, n, Head(rest), "processing")

\* create_node: every call that is accepted creates a node.  The nodes that
\* handleCreateNode creates are not counted.
Creates(counts, w) ==
    IF w.kind = "create" THEN counts ELSE [counts EXCEPT ![<<w.review, Head(w.todo)>>] = @ + 1]

\* createNode throws: a field is missing, the encryption or the call fails, and
\* a call that fails may have created the node.
CreateNodeFails(w) ==
    /\ w.kind \in {"create", "import"} /\ w.stage = "call"
    /\ lost' \in {lost, Creates(lost, w)}
    /\ IF w.kind = "import" THEN RowEnds(w, "error")
       ELSE /\ pending' = pending \ {w}
            /\ wizard' = IF w.n \in wizard.own THEN [wizard EXCEPT !.creating = FALSE] ELSE wizard
    /\ UNCHANGED <<gov, page, modelList, nodeLists, index, created, started>>

\* The index creates the node; clearNodeCache, and both lists are fetched.
CreateNodeReturns(w) ==
    /\ w.kind \in {"create", "import"} /\ w.stage = "call"
    /\ created' = Creates(created, w)
    /\ nodeLists' = [l \in Lists |-> [loading |-> TRUE, fetched |-> FALSE]]
    /\ pending' = (pending \ {w}) \cup {[w EXCEPT !.stage = "lists", !.lists = Lists]}
    /\ UNCHANGED <<gov, page, modelList, index, wizard, lost, started>>

\* A list of nodes, or an error, which leaves it unfetched.  The last list ends
\* createNode: the import goes on, handleCreateNode leaves the wizard.
ListReturns(w, l) ==
    /\ w.stage = "lists" /\ l \in w.lists
    /\ \E fetched \in {TRUE, nodeLists[l].fetched} :
         LET lists == [nodeLists EXCEPT ![l] = [loading |-> FALSE, fetched |-> fetched]]
         IN  IF w.lists # {l}
             THEN /\ pending' = (pending \ {w}) \cup {[w EXCEPT !.lists = @ \ {l}]}
                  /\ nodeLists' = lists /\ UNCHANGED wizard
             ELSE IF w.kind = "create"
             THEN /\ pending' = (pending \ {w}) \cup {[w EXCEPT !.kind = "nodes", !.lists = {"mine"}]}
                  /\ nodeLists' = [lists EXCEPT !["mine"].loading = TRUE]
                  /\ wizard' = IF w.n \in wizard.own THEN [Left(wizard) EXCEPT !.creating = FALSE] ELSE wizard
             ELSE /\ nodeLists' = lists
                  /\ IF w.kind = "import" THEN RowEnds(w, "success")
                     ELSE pending' = pending \ {w} /\ UNCHANGED wizard
    /\ UNCHANGED <<gov, page, modelList, index, created, lost, started>>

-----------------------------------------------------------------------------
SettingsReply(w) ==
    \/ GovernanceCallReturns(w) \/ GovernanceCallFails(w) \/ QueriesExecute(w) \/ InitialDataReturns(w)
    \/ ModelsReturn(w) \/ PoolReturns(w) \/ CreateNodeFails(w) \/ CreateNodeReturns(w)
    \/ \E l \in Lists : ListReturns(w, l)

SettingsNext ==
    \/ \E tab \in {"governance", "nodes"} : OpenTab(tab)
    \/ ClaimManagerRole \/ ExitForm \/ SubmitForm \/ RestoreDefaults
    \/ \E form \in PolicyForms \cup {"add", "model"} : EnterForm(form)
    \/ \E kind \in {"row", "removeManager", "toggle"} : RowAction(kind)
    \/ FetchModels
    \/ \E kind \in {"canisters", "provision"} : FetchCanisters(kind)
    \/ \E l \in Lists : FetchNodes(l)
    \/ EnterWizard \/ ParseImportFile \/ ExitWizard \/ CreateNode \/ ProcessImport \/ ImportDone
    \/ \E r \in ImportRows : RemoveRow(r)
    \/ \E w \in pending : SettingsReply(w)

SettingsSpec == SettingsInit /\ [][SettingsNext]_settingsVars /\ WF_settingsVars(\E w \in pending : SettingsReply(w))

-----------------------------------------------------------------------------
\* A spinner of the settings means work: whenever a store says that it is
\* loading, an action that will clear the flag is under way, whichever actions
\* overlap (each of them sets and clears the same flag) and whichever call fails.
LoadingMeansWork ==
    /\ gov.loading => \E w \in pending : w.kind \in GovKinds \cup {"initial"}
    /\ gov.pool => \E w \in pending : w.kind \in {"canisters", "provision"}
    /\ modelList.loading => \E w \in pending : w.stage = "models"
    /\ \A l \in Lists : nodeLists[l].loading => \E w \in pending : w.stage = "lists" /\ l \in w.lists
    /\ wizard.creating => \E w \in pending : w.kind = "create"
    /\ wizard.processing => \E w \in pending : w.kind = "import" /\ wizard.review = w.review
    /\ page.restoring => \E w \in pending : w.kind = "restore"

\* A row of an import file whose node the client knows of creates no other one,
\* however often the import is retried after some of its rows have failed and
\* others have been removed.  A row whose call failed is tried again, although
\* the call may have created a node.
CreatedOnce ==
    [][\A p \in Reviewed : created[p] # 0 => created'[p] = created[p] /\ lost'[p] = lost[p]]_settingsVars
=============================================================================
