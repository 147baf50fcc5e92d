------------------------- MODULE NodeRegistryProofs -------------------------
(***************************************************************************)
(* Proofs about NodeRegistry, for any sets of owners, principals, chips,   *)
(* measurements and models and any bounds.                                 *)
(*                                                                         *)
(* Inv is inductive as it stands, but its parts are not on their own: that *)
(* IndexWithout removes the right entry needs both directions of the       *)
(* principal index, and that no entry is left behind needs that an         *)
(* inactive node has no principal.                                         *)
(***************************************************************************)
EXTENDS NodeRegistry, TLAPS

Inv == TypeOK /\ SessionsAreWhole /\ PrincipalIndexIsExact /\ OwnerIndexIsExact

\* Every step is one of the actions.
LEMMA NextCases ==
    ASSUME [Next]_vars, NEW Goal,
           (\E o \in Owners, chip \in Chips, model \in Models :
               CreateNode(o, chip, model)) => Goal,
           (\E p \in Principals, n \in 1 .. MAX_NODES, m \in Measurements,
               chip \in Chips, evidence \in BOOLEAN :
               RegisterNode(p, n, m, chip, evidence)) => Goal,
           (\E p \in Principals : UnregisterNode(p)) => Goal,
           (\E p \in Principals : Heartbeat(p)) => Goal,
           TimePasses => Goal,
           CheckNodeLiveness => Goal,
           Upgrade => Goal,
           ManagerCall => Goal,
           UNCHANGED vars => Goal
    PROVE  Goal
BY DEF Next, NodeCall

\* The initial state has no nodes and no entries.
LEMMA InitInv == Init => Inv
BY RegistryAssumption DEF Init, Inv, TypeOK, SessionsAreWhole, PrincipalIndexIsExact,
   OwnerIndexIsExact, EmptyMap

-----------------------------------------------------------------------------
\* create_node adds an inactive node under a fresh id and lists it.
LEMMA CreateNodeInv ==
    ASSUME Inv, NEW o \in Owners, NEW chip \in Chips, NEW model \in Models,
           CreateNode(o, chip, model)
    PROVE  Inv'
<1> DEFINE new == NewNode(o, chip)
<1> USE DEF Inv
<1>1. new \in Node /\ ~Serving(new) /\ new.principal = None
      /\ new.measurement = None /\ new.owner = o
  BY RegistryAssumption DEF NewNode, Node, Statuses, Ages, Serving
<1> HIDE DEF new
<1>2. /\ nodes' = [n \in DOMAIN nodes \cup {nextNode} |->
                      IF n = nextNode THEN new ELSE nodes[n]]
      /\ nextNode' = nextNode + 1
      /\ UNCHANGED <<byPrincipal, registry, models>>
  BY DEF CreateNode, Insert, new
<1>3. nextNode \in Nat \ {0} /\ DOMAIN nodes = 1 .. nextNode - 1
      /\ \A n \in DOMAIN nodes : nodes[n] \in Node
  BY DEF TypeOK
<1>4. /\ DOMAIN nodes' = DOMAIN nodes \cup {nextNode}
      /\ nextNode \notin DOMAIN nodes
      /\ DOMAIN nodes' = 1 .. nextNode' - 1
      /\ nodes'[nextNode] = new
      /\ \A n \in DOMAIN nodes : nodes'[n] = nodes[n]
  BY <1>2, <1>3
<1>5. nodes' \in [1 .. nextNode' - 1 -> Node]
  BY <1>1, <1>2, <1>3, <1>4
<1>6. /\ byOwner' = [q \in DOMAIN byOwner \cup {o} |->
                IF q = o THEN OwnedBy(o) \cup {nextNode} ELSE byOwner[q]]
      /\ OwnedBy(o) = NodesOf(o)
  <2>1. byOwner' = Insert(byOwner, o, OwnedBy(o) \cup {nextNode})
    BY DEF CreateNode
  <2>2. OwnedBy(o) = NodesOf(o)
    BY DEF OwnedBy, NodesOf, OwnerIndexIsExact
  <2> QED  BY <2>1, <2>2 DEF Insert
<1>7. \A q \in Owners : NodesOf(q)' = IF q = o THEN NodesOf(q) \cup {nextNode} ELSE NodesOf(q)
  BY <1>1, <1>4 DEF NodesOf
<1>8. TypeOK'
  <2>1. \A q \in DOMAIN byOwner' : byOwner'[q] \subseteq DOMAIN nodes'
    BY <1>4, <1>6 DEF TypeOK, NodesOf
  <2>2. nextNode' \in Nat \ {0} /\ UNCHANGED <<byPrincipal, registry, models>>
    BY <1>2, <1>3
  <2>3. DOMAIN byOwner' \subseteq Owners
    BY <1>6 DEF TypeOK
  <2>4. \A p \in DOMAIN byPrincipal' : byPrincipal'[p] \in DOMAIN nodes'
    BY <1>4, <2>2 DEF TypeOK
  <2> QED  BY <1>5, <2>1, <2>2, <2>3, <2>4 DEF TypeOK
<1>9. SessionsAreWhole'
  BY <1>1, <1>4 DEF SessionsAreWhole
<1>10. PrincipalIndexIsExact'
  BY <1>1, <1>2, <1>4 DEF PrincipalIndexIsExact, TypeOK
<1>11. OwnerIndexIsExact'
  BY <1>1, <1>4, <1>6, <1>7 DEF OwnerIndexIsExact, TypeOK
<1> QED  BY <1>8, <1>9, <1>10, <1>11

-----------------------------------------------------------------------------
\* A step that leaves ids, owners and the managers' maps alone preserves Inv if
\* it keeps nodes well typed, sessions whole and the principal index exact.
LEMMA SessionStep ==
    ASSUME Inv, UNCHANGED <<nextNode, byOwner, registry, models>>,
           DOMAIN nodes' = DOMAIN nodes,
           nodes' = [n \in DOMAIN nodes |-> nodes'[n]],
           \A n \in DOMAIN nodes : nodes'[n] \in Node /\ nodes'[n].owner = nodes[n].owner,
           DOMAIN byPrincipal' \subseteq Principals,
           \A p \in DOMAIN byPrincipal' : byPrincipal'[p] \in DOMAIN nodes,
           SessionsAreWhole', PrincipalIndexIsExact'
    PROVE  Inv'
<1> USE DEF Inv
<1>1. TypeOK'
  BY DEF TypeOK
<1>2. \A o : NodesOf(o)' = NodesOf(o)
  BY DEF NodesOf
<1>3. OwnerIndexIsExact'
  BY <1>2 DEF OwnerIndexIsExact
<1> QED  BY <1>1, <1>3

\* A scrubbed node is an inactive one with the same configuration.
LEMMA ScrubbedFacts ==
    ASSUME NEW x \in Node
    PROVE  /\ Scrubbed(x) \in Node
           /\ Scrubbed(x).owner = x.owner /\ Scrubbed(x).chip = x.chip
           /\ ~Serving(Scrubbed(x))
           /\ Scrubbed(x).principal = None /\ Scrubbed(x).measurement = None
<1>1. 0 \in Ages
  BY RegistryAssumption DEF Ages
<1> QED  BY <1>1 DEF Scrubbed, Node, Serving, Statuses

\* What deactivating the nodes of S does to nodes and index.
LEMMA DeactivatedFacts ==
    ASSUME Inv, NEW S, S \subseteq DOMAIN nodes
    PROVE  /\ DOMAIN Deactivated(S) = DOMAIN nodes
           /\ \A n \in DOMAIN nodes :
                 /\ Deactivated(S)[n] \in Node
                 /\ Deactivated(S)[n].owner = nodes[n].owner
                 /\ Deactivated(S)[n].chip = nodes[n].chip
           /\ \A n \in S :
                 /\ ~Serving(Deactivated(S)[n])
                 /\ Deactivated(S)[n].principal = None
                 /\ Deactivated(S)[n].measurement = None
           /\ \A n \in DOMAIN nodes \ S : Deactivated(S)[n] = nodes[n]
           /\ DOMAIN IndexWithout(S) \subseteq DOMAIN byPrincipal
           /\ \A p \in DOMAIN byPrincipal :
                 /\ p \in DOMAIN IndexWithout(S) <=> byPrincipal[p] \notin S
                 /\ p \in DOMAIN IndexWithout(S) => IndexWithout(S)[p] = byPrincipal[p]
<1> USE DEF Inv
<1>1. \A n \in DOMAIN nodes : nodes[n] \in Node
  BY DEF TypeOK
<1>2. \A n \in DOMAIN nodes :
        /\ Scrubbed(nodes[n]) \in Node
        /\ Scrubbed(nodes[n]).owner = nodes[n].owner
        /\ Scrubbed(nodes[n]).chip = nodes[n].chip
        /\ ~Serving(Scrubbed(nodes[n]))
        /\ Scrubbed(nodes[n]).principal = None
        /\ Scrubbed(nodes[n]).measurement = None
  BY <1>1, ScrubbedFacts
<1>3. \A p \in DOMAIN byPrincipal : byPrincipal[p] \in DOMAIN nodes
  BY DEF TypeOK
<1>4. \A p \in DOMAIN byPrincipal :
         (\E n \in S : nodes[n].principal = p) <=> byPrincipal[p] \in S
  <2> SUFFICES ASSUME NEW p \in DOMAIN byPrincipal
               PROVE  (\E n \in S : nodes[n].principal = p) <=> byPrincipal[p] \in S
    OBVIOUS
  <2>1. byPrincipal[p] \in S => \E n \in S : nodes[n].principal = p
    BY DEF PrincipalIndexIsExact
  <2>2. ASSUME NEW n \in S, nodes[n].principal = p  PROVE byPrincipal[p] \in S
    <3>1. p # None
      BY RegistryAssumption DEF TypeOK
    <3>2. Serving(nodes[n])
      BY <2>2, <3>1 DEF SessionsAreWhole
    <3> QED  BY <2>2, <3>2 DEF PrincipalIndexIsExact
  <2> QED  BY <2>1, <2>2
<1>5. /\ DOMAIN IndexWithout(S) = DOMAIN byPrincipal \ {nodes[n].principal : n \in S}
      /\ \A p \in DOMAIN IndexWithout(S) : IndexWithout(S)[p] = byPrincipal[p]
  BY DEF IndexWithout, RemoveKeys
<1>6. /\ DOMAIN Deactivated(S) = DOMAIN nodes
      /\ \A n \in S : Deactivated(S)[n] = Scrubbed(nodes[n])
      /\ \A n \in DOMAIN nodes \ S : Deactivated(S)[n] = nodes[n]
  BY DEF Deactivated
<1>7. \A n \in DOMAIN nodes :
         /\ Deactivated(S)[n] \in Node
         /\ Deactivated(S)[n].owner = nodes[n].owner
         /\ Deactivated(S)[n].chip = nodes[n].chip
  BY <1>1, <1>2, <1>6
<1>8. \A p \in DOMAIN byPrincipal :
         p \in DOMAIN IndexWithout(S) <=> byPrincipal[p] \notin S
  BY <1>4, <1>5
<1> QED  BY <1>2, <1>5, <1>6, <1>7, <1>8

\* So a step that only deactivates nodes preserves Inv.
LEMMA DeactivateInv ==
    ASSUME Inv, NEW S, S \subseteq DOMAIN nodes,
           nodes' = Deactivated(S), byPrincipal' = IndexWithout(S),
           UNCHANGED <<nextNode, byOwner, registry, models>>
    PROVE  Inv'
<1>1. SessionsAreWhole'
  BY DeactivatedFacts DEF Inv, SessionsAreWhole
<1>2. PrincipalIndexIsExact'
  <2>1. \A p \in DOMAIN byPrincipal' :
           /\ nodes'[byPrincipal'[p]].principal = p
           /\ Serving(nodes'[byPrincipal'[p]])
    BY DeactivatedFacts DEF Inv, PrincipalIndexIsExact, TypeOK
  <2>2. \A n \in DOMAIN nodes' : Serving(nodes'[n]) =>
           /\ nodes'[n].principal \in DOMAIN byPrincipal'
           /\ byPrincipal'[nodes'[n].principal] = n
    BY DeactivatedFacts DEF Inv, PrincipalIndexIsExact
  <2> QED  BY <2>1, <2>2 DEF PrincipalIndexIsExact
<1>3. nodes' = [n \in DOMAIN nodes |-> nodes'[n]]
  BY DEF Deactivated
<1>4. /\ DOMAIN byPrincipal' \subseteq Principals
      /\ \A p \in DOMAIN byPrincipal' : byPrincipal'[p] \in DOMAIN nodes
  BY DeactivatedFacts DEF Inv, TypeOK
<1> QED  BY <1>1, <1>2, <1>3, <1>4, DeactivatedFacts, SessionStep

-----------------------------------------------------------------------------
\* unregister_node deactivates the caller's node.
LEMMA UnregisterNodeInv ==
    ASSUME Inv, NEW p \in Principals, UnregisterNode(p)
    PROVE  Inv'
<1>1. {byPrincipal[p]} \subseteq DOMAIN nodes
  BY DEF UnregisterNode, Inv, TypeOK
<1> QED  BY <1>1, DeactivateInv DEF UnregisterNode

\* The liveness timer deactivates the silent nodes.
LEMMA CheckNodeLivenessInv ==
    ASSUME Inv, CheckNodeLiveness
    PROVE  Inv'
<1>1. TimedOut \subseteq DOMAIN nodes
  BY DEF TimedOut
<1> QED  BY <1>1, DeactivateInv DEF CheckNodeLiveness

\* A heartbeat ends the caller's session or changes status and age in it.
LEMMA HeartbeatInv ==
    ASSUME Inv, NEW p \in Principals, Heartbeat(p)
    PROVE  Inv'
<1> DEFINE n == byPrincipal[p]
<1>1. /\ p \in DOMAIN byPrincipal /\ n \in DOMAIN nodes
      /\ nodes[n] \in Node /\ nodes[n].principal = p /\ Serving(nodes[n])
      /\ UNCHANGED <<nextNode, byOwner, registry, models>>
  BY DEF Heartbeat, Inv, TypeOK, PrincipalIndexIsExact
<1>2. CASE /\ nodes' = [nodes EXCEPT ![n] = Scrubbed(@)]
           /\ byPrincipal' = RemoveKeys(byPrincipal, {p})
  <2>1. {n} \subseteq DOMAIN nodes
    BY <1>1
  <2>2. nodes' = Deactivated({n})
    BY <1>1, <1>2 DEF Deactivated, Inv, TypeOK
  <2>3. byPrincipal' = IndexWithout({n})
    <3>1. {nodes[k].principal : k \in {n}} = {p}
      BY <1>1
    <3> QED  BY <1>2, <3>1 DEF IndexWithout
  <2> HIDE DEF n
  <2> QED  BY <1>1, <2>1, <2>2, <2>3, DeactivateInv
<1>3. ASSUME NEW st \in {"Active", "Draining"},
             nodes' = [nodes EXCEPT ![n] = [@ EXCEPT !.status = st, !.age = 0]],
             UNCHANGED byPrincipal
      PROVE  Inv'
  <2>1. /\ DOMAIN nodes' = DOMAIN nodes
        /\ nodes' = [k \in DOMAIN nodes |-> nodes'[k]]
        /\ \A k \in DOMAIN nodes \ {n} : nodes'[k] = nodes[k]
    BY <1>3 DEF Inv, TypeOK
  <2>2. /\ nodes'[n] \in Node /\ Serving(nodes'[n])
        /\ nodes'[n].owner = nodes[n].owner
        /\ nodes'[n].principal = p
        /\ nodes'[n].measurement = nodes[n].measurement
    <3>1. nodes'[n] = [nodes[n] EXCEPT !.status = st, !.age = 0]
      BY <1>1, <1>3 DEF Inv, TypeOK
    <3>2. 0 \in Ages
      BY RegistryAssumption DEF Ages
    <3> HIDE DEF n
    <3> QED  BY <1>1, <3>1, <3>2 DEF Node, Statuses, Serving
  <2>3. \A k \in DOMAIN nodes : nodes'[k] \in Node /\ nodes'[k].owner = nodes[k].owner
    BY <2>1, <2>2 DEF Inv, TypeOK
  <2>4. p # None
    BY RegistryAssumption
  <2>5. SessionsAreWhole'
    BY <1>1, <2>1, <2>2, <2>4 DEF Inv, SessionsAreWhole
  <2>6. PrincipalIndexIsExact'
    BY <1>1, <1>3, <2>1, <2>2 DEF Inv, PrincipalIndexIsExact, TypeOK
  <2>7. /\ DOMAIN byPrincipal' \subseteq Principals
        /\ \A q \in DOMAIN byPrincipal' : byPrincipal'[q] \in DOMAIN nodes
    BY <1>3 DEF Inv, TypeOK
  <2> QED  BY <1>1, <2>1, <2>3, <2>5, <2>6, <2>7, SessionStep
<1> QED  BY <1>1, <1>2, <1>3 DEF Heartbeat

\* Ageing changes nothing but ages.
LEMMA TimePassesInv ==
    ASSUME Inv, TimePasses
    PROVE  Inv'
<1>1. /\ DOMAIN nodes' = DOMAIN nodes
      /\ nodes' = [k \in DOMAIN nodes |-> nodes'[k]]
      /\ UNCHANGED <<nextNode, byPrincipal, byOwner, registry, models>>
  BY DEF TimePasses
<1>2. ASSUME NEW k \in DOMAIN nodes
      PROVE  /\ nodes'[k] \in Node
             /\ nodes'[k].owner = nodes[k].owner
             /\ nodes'[k].principal = nodes[k].principal
             /\ nodes'[k].measurement = nodes[k].measurement
             /\ Serving(nodes'[k]) = Serving(nodes[k])
  <2>1. nodes[k] \in Node
    BY DEF Inv, TypeOK
  <2>2. CASE nodes'[k] = nodes[k]
    BY <2>1, <2>2
  <2>3. CASE nodes[k].age <= LIVENESS_TIMEOUT /\ nodes'[k] = [nodes[k] EXCEPT !.age = @ + 1]
    <3>1. nodes[k].age + 1 \in Ages
      BY <2>1, <2>3, RegistryAssumption DEF Node, Ages
    <3> QED  BY <2>1, <2>3, <3>1 DEF Node, Serving
  <2> QED  BY <2>2, <2>3 DEF TimePasses
<1>3. SessionsAreWhole'
  BY <1>1, <1>2 DEF Inv, SessionsAreWhole
<1>4. PrincipalIndexIsExact'
  BY <1>1, <1>2 DEF Inv, PrincipalIndexIsExact, TypeOK
<1>5. /\ DOMAIN byPrincipal' \subseteq Principals
      /\ \A q \in DOMAIN byPrincipal' : byPrincipal'[q] \in DOMAIN nodes
  BY <1>1 DEF Inv, TypeOK
<1> QED  BY <1>1, <1>2, <1>3, <1>4, <1>5, SessionStep

-----------------------------------------------------------------------------
\* register_node ends the caller's session elsewhere and, if the checks pass,
\* opens one on a node that had none or had the caller's.
LEMMA RegisterNodeInv ==
    ASSUME Inv, NEW p \in Principals, NEW n, NEW m \in Measurements,
           NEW chip \in Chips, NEW evidence \in BOOLEAN,
           RegisterNode(p, n, m, chip, evidence)
    PROVE  Inv'
<1> DEFINE old == OldSession(p, n)
           D == Deactivated(old)
           X == IndexWithout(old)
<1>1. old \subseteq DOMAIN nodes /\ n \notin old
  BY DEF OldSession, Inv, TypeOK
<1>2. \A q \in DOMAIN X : X[q] \in DOMAIN nodes /\ q \in Principals
  BY <1>1, DeactivatedFacts DEF Inv, TypeOK
<1>3. UNCHANGED <<nextNode, byOwner, registry, models>>
  BY DEF RegisterNode
<1>4. CASE ~MayRegister(p, n, m, chip, evidence)
  <2>1. nodes' = D /\ byPrincipal' = X
    BY <1>4 DEF RegisterNode
  <2> HIDE DEF old
  <2> QED  BY <1>1, <1>3, <2>1, DeactivateInv
<1>5. CASE MayRegister(p, n, m, chip, evidence)
  <2>1. /\ n \in DOMAIN nodes
        /\ ~Serving(nodes[n]) \/ nodes[n].principal = p
    BY <1>5 DEF MayRegister
  <2>2. /\ nodes' = [D EXCEPT ![n] = [@ EXCEPT !.status = "Active", !.principal = p,
                                               !.measurement = m, !.age = 0]]
        /\ byPrincipal' = Insert(X, p, n)
    BY <1>5 DEF RegisterNode
  \* What is left under the caller's principal, if anything, is this node.
  <2>3. \A k \in DOMAIN nodes : Serving(D[k]) /\ D[k].principal = p => k = n
    <3> SUFFICES ASSUME NEW k \in DOMAIN nodes, Serving(D[k]), D[k].principal = p, k # n
                 PROVE  FALSE
      OBVIOUS
    <3>1. k \notin old /\ D[k] = nodes[k]
      <4> HIDE DEF old
      <4> QED  BY <1>1, DeactivatedFacts
    <3>2. p \in DOMAIN byPrincipal /\ byPrincipal[p] = k
      BY <3>1 DEF Inv, PrincipalIndexIsExact
    <3> QED  BY <3>1, <3>2 DEF OldSession
  <2>4. \A q \in DOMAIN X : q # p => X[q] # n
    <3> SUFFICES ASSUME NEW q \in DOMAIN X, q # p, X[q] = n  PROVE FALSE
      OBVIOUS
    <3>1. q \in DOMAIN byPrincipal /\ byPrincipal[q] = n
      <4> HIDE DEF old
      <4> QED  BY <1>1, DeactivatedFacts
    <3> QED  BY <2>1, <3>1 DEF Inv, PrincipalIndexIsExact
  \* The index after the old session has ended is exact for D.
  <2>5. /\ \A q \in DOMAIN X : D[X[q]].principal = q /\ Serving(D[X[q]])
        /\ \A k \in DOMAIN nodes : Serving(D[k]) =>
              D[k].principal \in DOMAIN X /\ X[D[k].principal] = k
    <3>1. /\ \A k \in old : ~Serving(D[k])
          /\ \A k \in DOMAIN nodes \ old : D[k] = nodes[k]
          /\ DOMAIN X \subseteq DOMAIN byPrincipal
          /\ \A q \in DOMAIN byPrincipal :
                /\ q \in DOMAIN X <=> byPrincipal[q] \notin old
                /\ q \in DOMAIN X => X[q] = byPrincipal[q]
      <4> HIDE DEF old
      <4> QED  BY <1>1, DeactivatedFacts
    <3>2. \A q \in DOMAIN byPrincipal : byPrincipal[q] \in DOMAIN nodes
      BY DEF Inv, TypeOK
    <3> HIDE DEF old, D, X
    <3> QED  BY <1>1, <3>1, <3>2 DEF Inv, PrincipalIndexIsExact
  <2>6. /\ DOMAIN D = DOMAIN nodes
        /\ \A k \in DOMAIN nodes : D[k] \in Node /\ D[k].owner = nodes[k].owner
    <3> HIDE DEF old
    <3> QED  BY <1>1, DeactivatedFacts
  <2>7. \A k \in DOMAIN nodes :
           /\ Serving(D[k]) <=> D[k].principal # None
           /\ Serving(D[k]) <=> D[k].measurement # None
    <3> HIDE DEF old
    <3> QED  BY <1>1, DeactivatedFacts DEF Inv, SessionsAreWhole
  <2> HIDE DEF old, D, X
  <2>8. /\ DOMAIN nodes' = DOMAIN nodes
        /\ \A k \in DOMAIN nodes \ {n} : nodes'[k] = D[k]
        /\ nodes'[n] = [D[n] EXCEPT !.status = "Active", !.principal = p,
                                    !.measurement = m, !.age = 0]
    BY <2>1, <2>2, <2>6
  <2>9. nodes' = [k \in DOMAIN nodes |-> nodes'[k]]
    BY <2>2, <2>6
  <2>10. /\ nodes'[n] \in Node /\ Serving(nodes'[n])
         /\ nodes'[n].owner = nodes[n].owner
         /\ nodes'[n].principal = p /\ nodes'[n].measurement = m
    <3>1. 0 \in Ages
      BY RegistryAssumption DEF Ages
    <3>2. D[n] \in Node /\ D[n].owner = nodes[n].owner
      BY <2>1, <2>6
    <3> QED  BY <2>8, <3>1, <3>2 DEF Node, Statuses, Serving
  <2>11. p # None /\ m # None
    BY RegistryAssumption
  <2>12. SessionsAreWhole'
    BY <2>7, <2>8, <2>10, <2>11 DEF SessionsAreWhole
  <2>13. /\ DOMAIN byPrincipal' = DOMAIN X \cup {p} /\ byPrincipal'[p] = n
         /\ \A q \in DOMAIN X \ {p} : byPrincipal'[q] = X[q]
    BY <2>2 DEF Insert
  <2>14. PrincipalIndexIsExact'
    <3>1. \A q \in DOMAIN byPrincipal' :
             nodes'[byPrincipal'[q]].principal = q /\ Serving(nodes'[byPrincipal'[q]])
      <4> SUFFICES ASSUME NEW q \in DOMAIN byPrincipal'
                   PROVE  /\ nodes'[byPrincipal'[q]].principal = q
                          /\ Serving(nodes'[byPrincipal'[q]])
        OBVIOUS
      <4>1. CASE q = p
        BY <2>10, <2>13, <4>1
      <4>2. CASE q # p
        <5>1. q \in DOMAIN X /\ byPrincipal'[q] = X[q] /\ X[q] \in DOMAIN nodes \ {n}
          BY <1>2, <2>4, <2>13, <4>2
        <5> QED  BY <2>5, <2>8, <5>1
      <4> QED  BY <4>1, <4>2
    <3>2. \A k \in DOMAIN nodes' : Serving(nodes'[k]) =>
             nodes'[k].principal \in DOMAIN byPrincipal' /\ byPrincipal'[nodes'[k].principal] = k
      <4> SUFFICES ASSUME NEW k \in DOMAIN nodes', Serving(nodes'[k])
                   PROVE  /\ nodes'[k].principal \in DOMAIN byPrincipal'
                          /\ byPrincipal'[nodes'[k].principal] = k
        OBVIOUS
      <4>1. CASE k = n
        BY <2>10, <2>13, <4>1
      <4>2. CASE k # n
        <5>1. k \in DOMAIN nodes /\ nodes'[k] = D[k] /\ Serving(D[k])
          BY <2>8, <4>2
        <5>2. D[k].principal # p /\ D[k].principal \in DOMAIN X /\ X[D[k].principal] = k
          BY <2>3, <2>5, <4>2, <5>1
        <5> QED  BY <2>13, <5>1, <5>2
      <4> QED  BY <4>1, <4>2
    <3> QED  BY <3>1, <3>2 DEF PrincipalIndexIsExact
  <2>15. /\ DOMAIN byPrincipal' \subseteq Principals
         /\ \A q \in DOMAIN byPrincipal' : byPrincipal'[q] \in DOMAIN nodes
    BY <1>2, <2>1, <2>13
  <2>16. \A k \in DOMAIN nodes : nodes'[k] \in Node /\ nodes'[k].owner = nodes[k].owner
    BY <2>6, <2>8, <2>10
  <2> QED  BY <1>3, <2>8, <2>9, <2>12, <2>14, <2>15, <2>16, SessionStep
<1> QED  BY <1>4, <1>5

\* post_upgrade rebuilds what the indexes already hold: a principal has at most
\* one session, so it does not matter which one is visited last.
LEMMA UpgradeInv ==
    ASSUME Inv, Upgrade
    PROVE  Inv'
<1> USE DEF Inv
<1>1. UNCHANGED <<nodes, nextNode, registry, models>>
  BY DEF Upgrade
<1>2. \A p \in DOMAIN byPrincipal : Sessions(p) = {byPrincipal[p]}
  BY DEF Sessions, PrincipalIndexIsExact, TypeOK
<1>3. \A p \in Principals : Sessions(p) # {} => p \in DOMAIN byPrincipal
  BY DEF Sessions, PrincipalIndexIsExact
<1>4. \A p \in DOMAIN byPrincipal : LastSession(p) = byPrincipal[p]
  <2> SUFFICES ASSUME NEW p \in DOMAIN byPrincipal
               PROVE  LastSession(p) = byPrincipal[p]
    OBVIOUS
  <2>1. Sessions(p) = {byPrincipal[p]} /\ byPrincipal[p] \in Nat
    BY <1>2 DEF TypeOK
  <2>2. \A k \in Sessions(p) : k <= byPrincipal[p]
    BY <2>1
  <2> QED  BY <2>1, <2>2 DEF LastSession
<1>5. DOMAIN byPrincipal = {q \in Principals : Sessions(q) # {}}
  BY <1>2, <1>3 DEF TypeOK
<1>6. DOMAIN byPrincipal' = DOMAIN byPrincipal
      /\ \A p \in DOMAIN byPrincipal : byPrincipal'[p] = byPrincipal[p]
  BY <1>4, <1>5 DEF Upgrade
<1>7. PrincipalIndexIsExact'
  BY <1>1, <1>6 DEF PrincipalIndexIsExact, TypeOK
<1>8. /\ \A o \in DOMAIN byOwner' : byOwner'[o] = NodesOf(o) /\ o \in Owners
      /\ \A n \in DOMAIN nodes : nodes[n].owner \in DOMAIN byOwner'
  <2>1. \A n \in DOMAIN nodes : nodes[n].owner \in Owners /\ NodesOf(nodes[n].owner) # {}
    BY DEF NodesOf, TypeOK, Node
  <2> QED  BY <2>1 DEF Upgrade
<1>9. OwnerIndexIsExact'
  BY <1>1, <1>8 DEF OwnerIndexIsExact, NodesOf
<1>10. SessionsAreWhole'
  BY <1>1 DEF SessionsAreWhole
<1>11. TypeOK'
  <2>1. \A o \in DOMAIN byOwner' : byOwner'[o] \subseteq DOMAIN nodes
    BY <1>8 DEF NodesOf
  <2> QED  BY <1>1, <1>6, <1>8, <2>1 DEF TypeOK
<1> QED  BY <1>7, <1>9, <1>10, <1>11

\* The managers' calls do not touch nodes or indexes.
LEMMA ManagerCallInv ==
    ASSUME Inv, ManagerCall
    PROVE  Inv'
<1> USE DEF Inv
<1>1. /\ UNCHANGED registered
      /\ DOMAIN registry' \subseteq Measurements
      /\ \A m \in DOMAIN registry' : registry'[m] \in MeasurementStatuses
      /\ DOMAIN models' \subseteq Models
      /\ \A model \in DOMAIN models' : models'[model] \in ModelStatuses
  <2>1. CASE \E m \in Measurements :
               \/ AddMeasurement(m) \/ RemoveMeasurement(m)
               \/ \E s \in MeasurementStatuses : UpdateMeasurementStatus(m, s)
    BY <2>1 DEF AddMeasurement, RemoveMeasurement, UpdateMeasurementStatus, Insert,
       RemoveKeys, MeasurementStatuses, TypeOK
  <2>2. CASE \E model \in Models, s \in ModelStatuses :
               AddModel(model, s) \/ UpdateModel(model, s)
    BY <2>2 DEF AddModel, UpdateModel, Insert, TypeOK
  <2> QED  BY <2>1, <2>2 DEF ManagerCall
<1>2. TypeOK'
  BY <1>1 DEF TypeOK, registered
<1>3. SessionsAreWhole' /\ PrincipalIndexIsExact'
  BY <1>1 DEF SessionsAreWhole, PrincipalIndexIsExact, registered
<1>4. OwnerIndexIsExact'
  BY <1>1 DEF OwnerIndexIsExact, NodesOf, registered
<1> QED  BY <1>2, <1>3, <1>4

\* Nothing happens.
LEMMA StutterInv ==
    ASSUME Inv, UNCHANGED vars
    PROVE  Inv'
BY DEF Inv, TypeOK, SessionsAreWhole, PrincipalIndexIsExact, OwnerIndexIsExact,
   NodesOf, vars, registered

\* Inv is inductive.
LEMMA NextInv == Inv /\ [Next]_vars => Inv'
<1> SUFFICES ASSUME Inv, [Next]_vars  PROVE Inv'
  OBVIOUS
<1> QED
  BY NextCases, CreateNodeInv, RegisterNodeInv, UnregisterNodeInv, HeartbeatInv,
     TimePassesInv, CheckNodeLivenessInv, UpgradeInv, ManagerCallInv, StutterInv

\* Inv holds throughout.
LEMMA Invariance == Spec => []Inv
BY InitInv, NextInv, PTL DEF Spec

-----------------------------------------------------------------------------
\* The maps of the index canister's node registry keep their types.
THEOREM TypeCorrect == Spec => []TypeOK
BY Invariance, PTL DEF Inv

\* The principal index holds exactly the serving nodes, through every call, timer
\* and upgrade: no principal serves two nodes and each call finds the right one.
THEOREM IndexesAreExact == Spec => []PrincipalIndexIsExact
BY Invariance, PTL DEF Inv

\* A node has all of a session or none, and an owner's list is exactly that
\* owner's nodes.
THEOREM RegistryWhole == Spec => []RegistryIsWhole
<1>1. Inv => RegistryIsWhole
  BY DEF Inv, RegistryIsWhole
<1> QED BY <1>1, Invariance, PTL

\* No step hands a serving node from one principal to another.
LEMMA NextNoTakeover ==
    ASSUME Inv, [Next]_vars
    PROVE  \A n \in DOMAIN nodes : Serving(nodes[n]) /\ Serving(nodes'[n])
                                   => nodes'[n].principal = nodes[n].principal
<1> SUFFICES ASSUME NEW n \in DOMAIN nodes, Serving(nodes[n]), Serving(nodes'[n])
             PROVE  nodes'[n].principal = nodes[n].principal
  OBVIOUS
<1>0. nodes[n] \in Node
  BY DEF Inv, TypeOK
<1>1. ASSUME NEW S, S \subseteq DOMAIN nodes
      PROVE  Serving(Deactivated(S)[n]) => Deactivated(S)[n] = nodes[n]
  BY <1>1, DeactivatedFacts
<1>2. ASSUME NEW o \in Owners, NEW chip \in Chips, NEW model \in Models,
             CreateNode(o, chip, model)
      PROVE  nodes'[n].principal = nodes[n].principal
  <2>1. n # nextNode
    BY DEF Inv, TypeOK
  <2> QED  BY <1>2, <2>1 DEF CreateNode, Insert
<1>3. ASSUME NEW p \in Principals, NEW k, NEW m \in Measurements,
             NEW chip \in Chips, NEW evidence \in BOOLEAN,
             RegisterNode(p, k, m, chip, evidence)
      PROVE  nodes'[n].principal = nodes[n].principal
  <2> DEFINE old == OldSession(p, k)
  <2>1. old \subseteq DOMAIN nodes
    BY DEF OldSession, Inv, TypeOK
  <2> HIDE DEF old
  <2>2. DOMAIN Deactivated(old) = DOMAIN nodes /\ Deactivated(old)[n] \in Node
    BY <2>1, DeactivatedFacts
  <2>3. CASE nodes'[n] = Deactivated(old)[n]
    BY <1>1, <2>1, <2>3
  <2>4. CASE /\ k = n /\ MayRegister(p, k, m, chip, evidence)
             /\ nodes'[n] = [Deactivated(old)[n] EXCEPT !.status = "Active",
                                !.principal = p, !.measurement = m, !.age = 0]
    BY <2>2, <2>4 DEF MayRegister, Node
  <2> QED  BY <1>3, <2>2, <2>3, <2>4 DEF RegisterNode, old
<1>4. ASSUME NEW p \in Principals, UnregisterNode(p)
      PROVE  nodes'[n].principal = nodes[n].principal
  <2>1. {byPrincipal[p]} \subseteq DOMAIN nodes
    BY <1>4 DEF UnregisterNode, Inv, TypeOK
  <2> QED  BY <1>1, <1>4, <2>1 DEF UnregisterNode
<1>5. ASSUME NEW p \in Principals, Heartbeat(p)
      PROVE  nodes'[n].principal = nodes[n].principal
  <2>1. CASE nodes'[n] = nodes[n]
    BY <2>1
  <2>2. CASE nodes'[n] = Scrubbed(nodes[n])
    BY <1>0, <2>2, ScrubbedFacts
  <2>3. ASSUME NEW st, nodes'[n] = [nodes[n] EXCEPT !.status = st, !.age = 0]
        PROVE  nodes'[n].principal = nodes[n].principal
    BY <1>0, <2>3 DEF Node
  <2>4. ASSUME NEW v, nodes' = [nodes EXCEPT ![byPrincipal[p]] = v]
        PROVE  nodes'[n] = nodes[n] \/ (n = byPrincipal[p] /\ nodes'[n] = v)
    BY <2>4 DEF Inv, TypeOK
  <2>5. CASE nodes' = [nodes EXCEPT ![byPrincipal[p]] = Scrubbed(@)]
    BY <2>1, <2>2, <2>4, <2>5
  <2>6. ASSUME NEW st, nodes' = [nodes EXCEPT ![byPrincipal[p]] =
                                    [@ EXCEPT !.status = st, !.age = 0]]
        PROVE  nodes'[n].principal = nodes[n].principal
    BY <2>1, <2>3, <2>4, <2>6
  <2> QED  BY <1>5, <2>5, <2>6 DEF Heartbeat
<1>6. ASSUME TimePasses  PROVE nodes'[n].principal = nodes[n].principal
  BY <1>0, <1>6 DEF TimePasses, Node
<1>7. ASSUME CheckNodeLiveness  PROVE nodes'[n].principal = nodes[n].principal
  <2>1. TimedOut \subseteq DOMAIN nodes
    BY DEF TimedOut
  <2> QED  BY <1>1, <1>7, <2>1 DEF CheckNodeLiveness
<1>8. ASSUME Upgrade \/ ManagerCall \/ UNCHANGED vars
      PROVE  nodes'[n].principal = nodes[n].principal
  BY <1>8 DEF Upgrade, ManagerCall, AddMeasurement, RemoveMeasurement,
     UpdateMeasurementStatus, AddModel, UpdateModel, vars, registered
<1> QED
  BY NextCases, <1>2, <1>3, <1>4, <1>5, <1>6, <1>7, <1>8

\* The session of a serving node is never replaced by another principal's.
THEOREM NoTakeoverHolds == Spec => NoTakeover
<1>1. Inv /\ [Next]_vars =>
        [\A n \in DOMAIN nodes : Serving(nodes[n]) /\ Serving(nodes'[n])
                                 => nodes'[n].principal = nodes[n].principal]_vars
  BY NextNoTakeover
<1> QED  BY <1>1, Invariance, PTL DEF Spec, NoTakeover
=============================================================================
