---------------------------- MODULE ClientComposer ----------------------------
(***************************************************************************)
(* What a message of the browser client is sent with: the model, its       *)
(* limits and tools, and the node that is asked for the answer.  The lists *)
(* of models and of nodes are fetched independently of each other and of   *)
(* the user; effects of React count the nodes of each model and choose a   *)
(* first model.  Tokens are counted in units of 1024; temperature, effort  *)
(* and attachments depend on nothing else here and are left out, and so is *)
(* a change of a model's own limits while it is selected.                  *)
(***************************************************************************)
EXTENDS Naturals, FiniteSets

CONSTANTS
    Models,      \* the models of the index canister
    Info,        \* [Models -> what a model allows]
    Nodes,       \* the nodes
    Serves,      \* [Nodes -> Models]: the model of a node
    Tools,       \* the tools of the client
    NoModel      \* no model is selected

ASSUME ComposerAssumption ==
    /\ NoModel \notin Models
    /\ IsFiniteSet(Nodes) /\ Serves \in [Nodes -> Models]
    /\ Info \in [Models -> [maxContext : Nat, maxOutput : Nat, maxTools : Nat, maxImages : Nat,
                            price : Nat, featured : BOOLEAN]]

VARIABLES
    offer,       \* the models store: fetched or not, models paused, nodes counted
    nodes,       \* reconciledActiveNodes
    blacklist,   \* nodes that failed in the last ten minutes
    choice,      \* selectedModel, whether by the user, tools, maxOutput, maxContext
    busy,        \* isGenerating of the chat on display (see ClientChat)
    request,     \* what a call under way was made with
    changed      \* dependencies of effects that were set since the last rendering

composerVars == <<offer, nodes, blacklist, choice, busy, request, changed>>

MinTokens == 1                                  \* the minimum of both sliders
DefaultMax == [output |-> 8, context |-> 128]   \* their maximum without a model
Typed == {0, 200}                               \* numbers that a user may type

NoRequest == [model |-> NoModel]

Counted(ns) == [m \in Models |-> Cardinality({n \in ns : Serves[n] = m})]

\* A store hands out new objects when it is set, equal to the old ones or not.
AllRendered == changed = {}

ComposerInit ==
    /\ offer = [known |-> FALSE, paused |-> {}, counts |-> Counted({})]
    /\ nodes = {} /\ blacklist = {}
    /\ choice = [model |-> NoModel, byUser |-> FALSE, tools |-> {}, output |-> 2, context |-> 8]
    /\ busy = FALSE /\ request = NoRequest
    /\ changed = {}

-----------------------------------------------------------------------------
(* The lists.                                                               *)

\* fetchModels: the mapper of a model sets its count to zero.
ComposerModelsReturn(paused) ==
    /\ offer' = [known |-> TRUE, paused |-> paused, counts |-> Counted({})]
    /\ changed' = changed \cup {"models"}
    /\ UNCHANGED <<nodes, blacklist, choice, busy, request>>

\* fetchAndReconcileNodes: the nodes that the index lists as active and that
\* the user canister knows under the same principal.
FetchAndReconcileNodes(active, agreed) ==
    /\ nodes' = active \cap agreed
    /\ changed' = changed \cup {"nodes"}
    /\ UNCHANGED <<offer, blacklist, choice, busy, request>>

-----------------------------------------------------------------------------
(* The effects of a rendering.                                              *)

\* Mutant of HandleModelChange: the limits of the last model stay.
KeepLimits(c, m) == [c EXCEPT !.model = m]

\* handleModelChange.
HandleModelChange(c, m) ==
    LET left == IF Info[m].maxContext > Info[m].maxOutput THEN Info[m].maxContext - Info[m].maxOutput ELSE 0
    IN  [c EXCEPT !.model = m, !.output = Info[m].maxOutput,
                  !.context = IF left > MinTokens THEN left ELSE MinTokens]

\* The model that HomeClient chooses while the user has not: the cheapest one
\* that takes images and tools, or any that has a node.
Compatible == {m \in Models : offer.counts[m] > 0}
Candidates == {m \in Compatible : Info[m].maxImages >= 1 /\ Info[m].maxTools >= 1}
Cheapest(ms) == {m \in ms : \A k \in ms : Info[m].price <= Info[k].price}
DefaultModels ==
    IF choice.model # NoModel \/ choice.byUser \/ ~offer.known THEN {}
    ELSE IF Candidates # {} THEN Cheapest(Candidates) ELSE Compatible

\* Mutant of UpdateNodeCounts: the nodes are counted when they change only.
CountWhenNodesChange ==
    IF offer.known /\ "nodes" \in changed THEN [offer EXCEPT !.counts = Counted(nodes)] ELSE offer

\* The effect of InnerProviders that counts the nodes of each model.
UpdateNodeCounts ==
    IF offer.known /\ changed \cap {"models", "nodes"} # {} THEN [offer EXCEPT !.counts = Counted(nodes)] ELSE offer

\* React renders, and runs the effects whose dependencies changed: HomeClient's
\* first, which is the child.
RenderComposer ==
    /\ ~AllRendered
    /\ IF changed \cap {"models", "choice"} # {} /\ DefaultModels # {}
       THEN \E m \in DefaultModels : choice' = HandleModelChange(choice, m)
       ELSE UNCHANGED choice
    /\ offer' = UpdateNodeCounts
    /\ changed' = {d \in {"models", "choice"} : IF d = "models" THEN offer' # offer ELSE choice' # choice}
    /\ UNCHANGED <<nodes, blacklist, busy, request>>

-----------------------------------------------------------------------------
(* The user.                                                                *)

\* useChatReadiness of a registered user.
Ready == ~busy /\ choice.model # NoModel /\ offer.known /\ offer.counts[choice.model] > 0

\* What ModelDropdown lists.
Listed == {m \in Models : offer.known /\ m \notin offer.paused /\ Info[m].featured /\ offer.counts[m] > 0}

SetSelectedModel(m) ==
    /\ AllRendered /\ m \in Listed
    /\ choice' = [HandleModelChange(choice, m) EXCEPT !.byUser = TRUE]
    /\ changed' = changed \cup {"choice"}
    /\ UNCHANGED <<offer, nodes, blacklist, busy, request>>

\* toggleTool, from ToolsDropdown, whose items are disabled at the limit.
ToggleTool(t) ==
    /\ AllRendered /\ choice.model # NoModel
    /\ LET limit == Info[choice.model].maxTools
       IN  /\ limit > 0
           /\ t \in choice.tools \/ Cardinality(choice.tools) < limit
    /\ choice' = [choice EXCEPT !.tools = IF t \in @ THEN @ \ {t} ELSE @ \cup {t}]
    /\ UNCHANGED <<offer, nodes, blacklist, busy, request, changed>>

\* OptionsDropdown: a slider keeps to its range, and so does a number typed.
Clamped(v, max) == IF v < MinTokens THEN MinTokens ELSE IF v > max THEN max ELSE v
SetOption(label, typed) ==
    /\ AllRendered
    /\ LET max == IF choice.model = NoModel THEN DefaultMax[label]
                  ELSE IF label = "output" THEN Info[choice.model].maxOutput ELSE Info[choice.model].maxContext
       IN  choice' = [choice EXCEPT ![label] = Clamped(typed, max)]
    /\ UNCHANGED <<offer, nodes, blacklist, busy, request, changed>>

\* pickNodeForModel: any node of the model that has not failed lately.
PickNodeForModel(m) == {n \in nodes \ blacklist : Serves[n] = m}

\* A request takes the settings when it starts and keeps them.
RequestOf(n) == [model |-> choice.model, output |-> choice.output, context |-> choice.context, node |-> n]

\* sendMessage from the input; with no node its flags stay up (see ClientChat).
SendComposed ==
    /\ AllRendered /\ Ready /\ request = NoRequest
    /\ busy' = TRUE
    /\ IF PickNodeForModel(choice.model) = {} THEN UNCHANGED request
       ELSE \E n \in PickNodeForModel(choice.model) : request' = RequestOf(n)
    /\ UNCHANGED <<offer, nodes, blacklist, choice, changed>>

\* retryAiMessage and editUserMessage do not ask whether the input is ready.
Resend ==
    /\ AllRendered /\ choice.model # NoModel /\ request = NoRequest
    /\ \E n \in PickNodeForModel(choice.model) : request' = RequestOf(n)
    /\ busy' = TRUE
    /\ UNCHANGED <<offer, nodes, blacklist, choice, changed>>

RequestEnds ==
    /\ request # NoRequest
    /\ request' = NoRequest
    /\ UNCHANGED <<offer, nodes, blacklist, choice, busy, changed>>

\* handleWebSocketError keeps the node of a broken connection for ten minutes.
BlacklistNode(n) ==
    /\ request # NoRequest /\ request.node = n
    /\ blacklist' = blacklist \cup {n}
    /\ UNCHANGED <<offer, nodes, choice, busy, request, changed>>

BlacklistExpires(n) ==
    /\ blacklist' = blacklist \ {n}
    /\ UNCHANGED <<offer, nodes, choice, busy, request, changed>>

\* The flag of the chat on display changes, or the chat does.
FlagChanges ==
    /\ busy' = ~busy
    /\ UNCHANGED <<offer, nodes, blacklist, choice, request, changed>>

ComposerNext ==
    \/ \E paused \in SUBSET Models : ComposerModelsReturn(paused)
    \/ \E active, agreed \in SUBSET Nodes : FetchAndReconcileNodes(active, agreed)
    \/ RenderComposer
    \/ \E m \in Models : SetSelectedModel(m)
    \/ \E t \in Tools : ToggleTool(t)
    \/ \E label \in {"output", "context"}, v \in Typed : SetOption(label, v)
    \/ SendComposed \/ Resend \/ RequestEnds \/ FlagChanges
    \/ \E n \in Nodes : BlacklistNode(n) \/ BlacklistExpires(n)

ComposerSpec == ComposerInit /\ [][ComposerNext]_composerVars

-----------------------------------------------------------------------------

\* Once the page is rendered, the input is ready exactly when a node of the
\* selected model is known: whatever list came last, no model is thought to be
\* offline that has nodes, or online that has none.
ReadinessIsTrue ==
    AllRendered /\ offer.known =>
        (Ready <=> /\ ~busy /\ choice.model # NoModel
                   /\ \E n \in nodes : Serves[n] = choice.model)

\* A request goes to a node of the model that it names, with limits that this
\* model allows, or with the least that a slider has when a model allows less,
\* whatever the user or the lists do while it is under way.
RequestsFit ==
    request # NoRequest =>
        /\ Serves[request.node] = request.model
        /\ request.output <= Info[request.model].maxOutput \/ request.output = MinTokens
        /\ request.context <= Info[request.model].maxContext \/ request.context = MinTokens

=============================================================================
