---------------------------- MODULE NodeRegistry ----------------------------
(***************************************************************************)
(* The index canister's registry of compute nodes: creation by an owner,   *)
(* attested registration by a node, heartbeats, the liveness timer, the    *)
(* measurements and models the managers maintain, and the two indexes on   *)
(* the heap that post_upgrade rebuilds.                                    *)
(*                                                                         *)
(* None of these handlers awaits anything, so each is one step.  Time is   *)
(* kept as the age of each node's last heartbeat.                          *)
(***************************************************************************)
EXTENDS Naturals, FiniteSets, StableMap

CONSTANTS
    Owners,            \* registered users that own nodes
    Principals,        \* ephemeral identities of running nodes
    Chips, Measurements, Models,
    None,              \* an empty Option
    LIVENESS_TIMEOUT,
    MAX_NODES          \* bound: nodes ever created

ASSUME RegistryAssumption ==
    /\ None \notin Principals /\ None \notin Measurements
    /\ LIVENESS_TIMEOUT \in Nat /\ MAX_NODES \in Nat

VARIABLES
    nodes,        \* NODES
    nextNode,     \* CONFIG.next_node_id
    byPrincipal,  \* NODE_PRINCIPAL_INDEX (heap)
    byOwner,      \* NODE_OWNER_INDEX (heap)
    registry,     \* the measurements of CONFIG.attestation_requirements
    models        \* MODELS: id -> status

registered == <<nodes, nextNode, byPrincipal, byOwner>>
vars == <<registered, registry, models>>

Statuses == {"Active", "Draining", "Inactive"}
MeasurementStatuses == {"Active", "Deprecated", "Revoked"}
ModelStatuses == {"Active", "Paused"}

\* An age beyond the timeout stays where it is: nothing tells such ages apart.
Ages == 0 .. LIVENESS_TIMEOUT + 1

Init ==
    /\ nodes = EmptyMap /\ nextNode = 1
    /\ byPrincipal = EmptyMap /\ byOwner = EmptyMap
    /\ registry = EmptyMap /\ models = EmptyMap
-----------------------------------------------------------------------------
(***************************************************************************)
(* Owners.                                                                 *)
(***************************************************************************)
NewNode(o, chip) ==
    [owner |-> o, chip |-> chip, status |-> "Inactive",
     principal |-> None, measurement |-> None, age |-> 0]

OwnedBy(o) == IF o \in DOMAIN byOwner THEN byOwner[o] ELSE {}

\* Mutant of CreateNode: the counter is not saved.
CreateNodeReusingId(o, chip, model) ==
    /\ nextNode <= MAX_NODES
    /\ DOMAIN registry # {}
    /\ model \in DOMAIN models /\ models[model] # "Paused"
    /\ nodes' = Insert(nodes, nextNode, NewNode(o, chip))
    /\ byOwner' = Insert(byOwner, o, OwnedBy(o) \cup {nextNode})
    /\ UNCHANGED <<nextNode, byPrincipal, registry, models>>

CreateNode(o, chip, model) ==
    /\ nextNode <= MAX_NODES
    /\ DOMAIN registry # {}
    /\ model \in DOMAIN models /\ models[model] # "Paused"
    /\ nodes' = Insert(nodes, nextNode, NewNode(o, chip))
    /\ nextNode' = nextNode + 1
    /\ byOwner' = Insert(byOwner, o, OwnedBy(o) \cup {nextNode})
    /\ UNCHANGED <<byPrincipal, registry, models>>
-----------------------------------------------------------------------------
(***************************************************************************)
(* Nodes.                                                                  *)
(***************************************************************************)
Serving(node) == node.status # "Inactive"

\* Mutant of Scrubbed: the evidence of the last session stays.
ScrubbedButEvidence(node) == [node EXCEPT !.status = "Inactive", !.principal = None]

\* deactivate_node_internal: the session goes, the configuration stays.
Scrubbed(node) ==
    [node EXCEPT !.status = "Inactive", !.principal = None,
                 !.measurement = None, !.age = 0]

\* The nodes and the index after deactivate_node_internal of every node of S.
Deactivated(S) ==
    [n \in DOMAIN nodes |-> IF n \in S THEN Scrubbed(nodes[n]) ELSE nodes[n]]

IndexWithout(S) == RemoveKeys(byPrincipal, {nodes[n].principal : n \in S})

\* Mutant of OldSession: a principal may register a second node.
NoOldSession(p, n) == {}

\* The session of the caller on another node, which register_node ends first.
OldSession(p, n) ==
    IF p \in DOMAIN byPrincipal /\ byPrincipal[p] # n THEN {byPrincipal[p]} ELSE {}

\* Mutant of MayRegister: whoever attests the right chip gets the node.
MayRegisterAnyway(p, n, m, chip, evidence) ==
    /\ n \in DOMAIN nodes
    /\ m \in DOMAIN registry /\ registry[m] = "Active"
    /\ evidence
    /\ nodes[n].chip = chip

\* The checks of register_node after that.  `evidence' says whether a key is
\* given, the timestamp is recent and the report is signed by a genuine chip,
\* names the caller and meets the policies.
MayRegister(p, n, m, chip, evidence) ==
    /\ n \in DOMAIN nodes
    /\ ~Serving(nodes[n]) \/ nodes[n].principal = p
    /\ m \in DOMAIN registry /\ registry[m] = "Active"
    /\ evidence
    /\ nodes[n].chip = chip

\* Ending the old session cannot change MayRegister: it is on another node.
RegisterNode(p, n, m, chip, evidence) ==
    LET old == OldSession(p, n)
    IN  /\ \/ /\ MayRegister(p, n, m, chip, evidence)
              /\ nodes' = [Deactivated(old) EXCEPT ![n] =
                    [@ EXCEPT !.status = "Active", !.principal = p,
                              !.measurement = m, !.age = 0]]
              /\ byPrincipal' = Insert(IndexWithout(old), p, n)
           \/ /\ ~MayRegister(p, n, m, chip, evidence)
              /\ nodes' = Deactivated(old)
              /\ byPrincipal' = IndexWithout(old)
        /\ UNCHANGED <<nextNode, byOwner, registry, models>>

UnregisterNode(p) ==
    /\ p \in DOMAIN byPrincipal
    /\ nodes' = Deactivated({byPrincipal[p]})
    /\ byPrincipal' = IndexWithout({byPrincipal[p]})
    /\ UNCHANGED <<nextNode, byOwner, registry, models>>

\* What the registry says of a node that reports measurement m: a measurement
\* that was removed counts as revoked.
Verdict(m) == IF m \in DOMAIN registry THEN registry[m] ELSE "Revoked"

\* Continue, DrainAndShutdown or Abort; the session check of the code is the
\* second conjunct.
Heartbeat(p) ==
    /\ p \in DOMAIN byPrincipal
    /\ LET n == byPrincipal[p]
       IN  /\ n \in DOMAIN nodes /\ nodes[n].principal = p
           /\ \/ /\ Verdict(nodes[n].measurement) = "Revoked"
                 /\ nodes' = [nodes EXCEPT ![n] = Scrubbed(@)]
                 /\ byPrincipal' = RemoveKeys(byPrincipal, {p})
              \/ /\ Verdict(nodes[n].measurement) # "Revoked"
                 /\ nodes' = [nodes EXCEPT ![n] = [@ EXCEPT
                       !.status = IF Verdict(nodes[n].measurement) = "Active"
                                  THEN "Active" ELSE "Draining",
                       !.age = 0]]
                 /\ UNCHANGED byPrincipal
    /\ UNCHANGED <<nextNode, byOwner, registry, models>>
-----------------------------------------------------------------------------
(***************************************************************************)
(* Time and the liveness timer.                                            *)
(***************************************************************************)
TimePasses ==
    /\ nodes' = [n \in DOMAIN nodes |->
          IF Serving(nodes[n]) /\ nodes[n].age <= LIVENESS_TIMEOUT
          THEN [nodes[n] EXCEPT !.age = @ + 1] ELSE nodes[n]]
    /\ UNCHANGED <<nextNode, byPrincipal, byOwner, registry, models>>

\* Mutant of TimedOut: draining nodes are left alone.
TimedOutActive ==
    {n \in DOMAIN nodes : nodes[n].status = "Active" /\ nodes[n].age > LIVENESS_TIMEOUT}

TimedOut == {n \in DOMAIN nodes : Serving(nodes[n]) /\ nodes[n].age > LIVENESS_TIMEOUT}

CheckNodeLiveness ==
    /\ nodes' = Deactivated(TimedOut)
    /\ byPrincipal' = IndexWithout(TimedOut)
    /\ UNCHANGED <<nextNode, byOwner, registry, models>>
-----------------------------------------------------------------------------
(***************************************************************************)
(* Managers.                                                               *)
(***************************************************************************)
AddMeasurement(m) ==
    /\ m \notin DOMAIN registry
    /\ registry' = Insert(registry, m, "Active")
    /\ UNCHANGED <<registered, models>>

UpdateMeasurementStatus(m, s) ==
    /\ m \in DOMAIN registry
    /\ registry' = Insert(registry, m, s)
    /\ UNCHANGED <<registered, models>>

RemoveMeasurement(m) ==
    /\ m \in DOMAIN registry
    /\ registry' = RemoveKeys(registry, {m})
    /\ UNCHANGED <<registered, models>>

AddModel(model, s) ==
    /\ model \notin DOMAIN models
    /\ models' = Insert(models, model, s)
    /\ UNCHANGED <<registered, registry>>

UpdateModel(model, s) ==
    /\ model \in DOMAIN models
    /\ models' = Insert(models, model, s)
    /\ UNCHANGED <<registered, registry>>
-----------------------------------------------------------------------------
(***************************************************************************)
(* post_upgrade.                                                           *)
(***************************************************************************)
Sessions(p) == {n \in DOMAIN nodes : nodes[n].principal = p /\ Serving(nodes[n])}

\* The nodes are visited in the order of their ids, and a later one replaces
\* the entry of an earlier one.
LastSession(p) == CHOOSE n \in Sessions(p) : \A k \in Sessions(p) : k <= n

NodesOf(o) == {n \in DOMAIN nodes : nodes[n].owner = o}

Upgrade ==
    /\ byPrincipal' = [p \in {q \in Principals : Sessions(q) # {}} |-> LastSession(p)]
    /\ byOwner' = [o \in {q \in Owners : NodesOf(q) # {}} |-> NodesOf(o)]
    /\ UNCHANGED <<nodes, nextNode, registry, models>>
-----------------------------------------------------------------------------
NodeCall ==
    \E p \in Principals :
        \/ \E n \in 1 .. MAX_NODES, m \in Measurements, chip \in Chips, evidence \in BOOLEAN :
              RegisterNode(p, n, m, chip, evidence)
        \/ UnregisterNode(p)
        \/ Heartbeat(p)

ManagerCall ==
    \/ \E m \in Measurements :
          \/ AddMeasurement(m) \/ RemoveMeasurement(m)
          \/ \E s \in MeasurementStatuses : UpdateMeasurementStatus(m, s)
    \/ \E model \in Models, s \in ModelStatuses :
          AddModel(model, s) \/ UpdateModel(model, s)

Next ==
    \/ \E o \in Owners, chip \in Chips, model \in Models : CreateNode(o, chip, model)
    \/ NodeCall \/ ManagerCall
    \/ TimePasses \/ CheckNodeLiveness \/ Upgrade

Spec == Init /\ [][Next]_vars

\* The timers of the canister fire again and again, and time passes.
FairSpec == Spec /\ WF_vars(TimePasses) /\ WF_vars(CheckNodeLiveness)
-----------------------------------------------------------------------------
(***************************************************************************)
(* Properties.                                                             *)
(***************************************************************************)
Node ==
    [owner : Owners, chip : Chips, status : Statuses,
     principal : Principals \cup {None},
     measurement : Measurements \cup {None}, age : Ages]

\* The maps and the counter have their types, and ids are given in order.
TypeOK ==
    /\ nextNode \in Nat \ {0}
    /\ nodes \in [1 .. nextNode - 1 -> Node]
    /\ DOMAIN byPrincipal \subseteq Principals
    /\ \A p \in DOMAIN byPrincipal : byPrincipal[p] \in DOMAIN nodes
    /\ DOMAIN byOwner \subseteq Owners
    /\ \A o \in DOMAIN byOwner : byOwner[o] \subseteq DOMAIN nodes
    /\ DOMAIN registry \subseteq Measurements
    /\ \A m \in DOMAIN registry : registry[m] \in MeasurementStatuses
    /\ DOMAIN models \subseteq Models
    /\ \A model \in DOMAIN models : models[model] \in ModelStatuses

\* A node serves with all of a session or is inactive with none of it: an
\* inactive node keeps no identity that a caller could still use, and a
\* serving one always has the measurement heartbeat judges it by.
SessionsAreWhole ==
    \A n \in DOMAIN nodes :
        /\ Serving(nodes[n]) <=> nodes[n].principal # None
        /\ Serving(nodes[n]) <=> nodes[n].measurement # None

\* The principal index has exactly the serving nodes under the principal each
\* is registered with, although registration, heartbeat, unregistration, the
\* timer and upgrade each maintain it on their own.  So a principal never
\* serves two nodes, and every call that resolves it finds the right one.
PrincipalIndexIsExact ==
    /\ \A p \in DOMAIN byPrincipal :
          /\ nodes[byPrincipal[p]].principal = p
          /\ Serving(nodes[byPrincipal[p]])
    /\ \A n \in DOMAIN nodes : Serving(nodes[n]) =>
          /\ nodes[n].principal \in DOMAIN byPrincipal
          /\ byPrincipal[nodes[n].principal] = n

\* list_my_nodes shows an owner exactly the nodes of that owner.
OwnerIndexIsExact ==
    /\ \A o \in DOMAIN byOwner : byOwner[o] = NodesOf(o)
    /\ \A n \in DOMAIN nodes : nodes[n].owner \in DOMAIN byOwner

\* Each node's record agrees with itself and with its owner's list: whatever
\* registration, failure, timer or removal comes in between, no session is
\* half taken down and no owner is shown a node that is gone or another's.
RegistryIsWhole == SessionsAreWhole /\ OwnerIndexIsExact

\* While its owner keeps the node id, a serving node's session is only ever
\* replaced by itself: no step hands a node from one principal to another
\* without the node having been inactive in between.
NoTakeover ==
    [][\A n \in DOMAIN nodes :
          Serving(nodes[n]) /\ Serving(nodes'[n])
          => nodes'[n].principal = nodes[n].principal]_vars

\* A serving node whose measurement is revoked or removed.
Condemned(n) ==
    /\ n \in DOMAIN nodes /\ Serving(nodes[n])
    /\ Verdict(nodes[n].measurement) = "Revoked"

\* A condemned node stops serving, by its own heartbeat or, if it is silent,
\* by the liveness timer, unless a manager changes the verdict.
RevokedNodesStop == \A n \in 1 .. MAX_NODES : Condemned(n) ~> ~Condemned(n)
=============================================================================
