------------------------ MODULE UserFileSystemProofs ------------------------
(***************************************************************************)
(* Proofs about UserFileSystem, for any names, limits and bounds.          *)
(*                                                                         *)
(* Tree is inductive: the index matches the parent links because an item   *)
(* is only linked under a stored folder and a folder is only deleted when  *)
(* it lists nothing, and the folders have one root because it is made once *)
(* and before everything else.  The limits and the uniqueness of names are *)
(* inductive on top of it; that paths resolve follows from the three.      *)
(***************************************************************************)
EXTENDS UserFileSystem, FiniteSetTheorems, WellFoundedInduction, TLAPS

(***************************************************************************)
(* Walks.  Ancestor and ResolvePath are recursive functions on 0 .. n.     *)
(* Such a function exists and is unique because a counterexample would     *)
(* have a least number.                                                    *)
(***************************************************************************)
\* Every set of naturals that is not empty has a least element.
LEMMA LeastNat ==
    ASSUME NEW S \in SUBSET Nat, S # {}
    PROVE  \E n \in S : \A m \in S : n <= m
<1> DEFINE R == OpToRel(<, Nat)
<1>1. IsWellFoundedOn(R, Nat)
  BY NatLessThanWellFounded
<1>2. \A x, y \in Nat : <<x, y>> \in R <=> x < y
  BY DEF OpToRel
<1> HIDE DEF R
<1>3. PICK n \in S : \A m \in S : ~(<<m, n>> \in R)
  BY <1>1, WFMin
<1>4. ASSUME NEW m \in S
      PROVE  n <= m
  <2>1. ~(<<m, n>> \in R) /\ m \in Nat /\ n \in Nat
    BY <1>3
  <2>2. <<m, n>> \in R <=> m < n
    BY <1>2, <2>1
  <2>3. ~(m < n)
    BY <2>1, <2>2
  <2> QED BY <2>1, <2>3
<1> QED BY <1>4

\* f starts at a and goes on as the step functions of G say, n times.
Walks(f, n, a, G) == f[0] = a /\ \A k \in 1 .. n : f[k] = G[k][f[k - 1]]

\* A walk exists for every number of steps.
LEMMA WalkExists ==
    ASSUME NEW S, NEW a \in S, NEW N \in Nat, NEW G \in [Nat -> [S -> S]]
    PROVE  \E f \in [0 .. N -> S] : Walks(f, N, a, G)
<1> DEFINE Has(n) == \E f \in [0 .. n -> S] : Walks(f, n, a, G)
           Bad == {n \in 0 .. N : ~Has(n)}
<1>1. SUFFICES ASSUME N \in Bad PROVE FALSE
  BY <1>1
<1>2. PICK n \in Bad : \A m \in Bad : n <= m
  <2>1. Bad \in SUBSET Nat /\ Bad # {}
    BY <1>1
  <2> HIDE DEF Bad
  <2> QED BY <2>1, LeastNat
<1>3. n \in 0 .. N /\ ~Has(n)
  BY <1>2
<1>4. CASE n = 0
  <2> DEFINE f == [k \in 0 .. 0 |-> a]
  <2>1. f \in [0 .. 0 -> S] /\ Walks(f, 0, a, G)
    BY DEF Walks
  <2> QED BY <1>3, <1>4, <2>1
<1>5. CASE n # 0
  <2>1. n - 1 \in 0 .. N /\ n \in 1 .. N /\ ~(n <= n - 1)
    BY <1>3, <1>5
  <2>2. Has(n - 1)
    BY <1>2, <2>1
  <2>3. PICK g \in [0 .. n - 1 -> S] : Walks(g, n - 1, a, G)
    BY <2>2
  <2> DEFINE f == [k \in 0 .. n |-> IF k = n THEN G[n][g[n - 1]] ELSE g[k]]
  <2>4. g[n - 1] \in S /\ G[n] \in [S -> S]
    BY <2>1
  <2>5. f \in [0 .. n -> S]
    BY <2>1, <2>4
  <2>6. Walks(f, n, a, G)
    <3>1. f[0] = a
      BY <2>1, <2>3 DEF Walks
    <3>2. ASSUME NEW k \in 1 .. n
          PROVE  f[k] = G[k][f[k - 1]]
      <4>1. CASE k = n
        <5>1. f[n] = G[n][g[n - 1]] /\ f[n - 1] = g[n - 1]
          BY <2>1
        <5> QED BY <4>1, <5>1
      <4>2. CASE k # n
        <5>1. f[k] = g[k] /\ f[k - 1] = g[k - 1] /\ k \in 1 .. n - 1
          BY <2>1, <4>2
        <5> QED BY <2>3, <5>1 DEF Walks
      <4> QED BY <4>1, <4>2
    <3> QED BY <3>1, <3>2 DEF Walks
  <2> QED BY <1>3, <2>5, <2>6
<1> QED BY <1>4, <1>5

\* Two walks with the same steps agree as far as both go.
LEMMA WalksAgree ==
    ASSUME NEW f, NEW g, NEW a, NEW G, NEW n \in Nat,
           Walks(f, n, a, G), Walks(g, n, a, G)
    PROVE  \A k \in 0 .. n : f[k] = g[k]
<1> DEFINE Bad == {k \in 0 .. n : f[k] # g[k]}
<1>1. SUFFICES ASSUME Bad # {} PROVE FALSE
  BY <1>1
<1>2. PICK k \in Bad : \A m \in Bad : k <= m
  <2>1. Bad \in SUBSET Nat
    OBVIOUS
  <2> HIDE DEF Bad
  <2> QED BY <1>1, <2>1, LeastNat
<1>3. k # 0
  BY <1>2 DEF Walks
<1>4. k \in 1 .. n /\ k - 1 \in 0 .. n /\ ~(k <= k - 1)
  BY <1>2, <1>3
<1>5. f[k - 1] = g[k - 1]
  BY <1>2, <1>4
<1> QED BY <1>2, <1>4, <1>5 DEF Walks

-----------------------------------------------------------------------------
(***************************************************************************)
(* Ancestors in a map of folders fo.                                       *)
(***************************************************************************)
\* One step up, as get_folder_depth takes it.
Up(fo, x) == IF x \in DOMAIN fo THEN fo[x].parent ELSE x

AncestorIn(fo, f, n) ==
    LET up[k \in 0 .. n] ==
            IF k = 0 THEN f
            ELSE IF up[k - 1] \in DOMAIN fo THEN fo[up[k - 1]].parent
            ELSE up[k - 1]
    IN  up[n]

Linked(fo) == DOMAIN fo \subseteq Nat /\ \A f \in DOMAIN fo : fo[f].parent \in Nat

UpSteps(fo) == [k \in Nat |-> [x \in Nat |-> Up(fo, x)]]

\* AncestorIn is the end of a walk.
LEMMA AncestorWalk ==
    ASSUME NEW fo, Linked(fo), NEW f \in Nat, NEW n \in Nat
    PROVE  \E w \in [0 .. n -> Nat] :
              Walks(w, n, f, UpSteps(fo)) /\ AncestorIn(fo, f, n) = w[n]
<1> DEFINE IsUp(up) == up = [k \in 0 .. n |->
                               IF k = 0 THEN f
                               ELSE IF up[k - 1] \in DOMAIN fo
                                    THEN fo[up[k - 1]].parent ELSE up[k - 1]]
           W == CHOOSE up : IsUp(up)
<1>1. AncestorIn(fo, f, n) = W[n]
  BY DEF AncestorIn
<1>2. UpSteps(fo) \in [Nat -> [Nat -> Nat]]
  BY DEF UpSteps, Up, Linked
<1>3. PICK w \in [0 .. n -> Nat] : Walks(w, n, f, UpSteps(fo))
  BY <1>2, WalkExists
<1>4. ASSUME NEW k \in 0 .. n
      PROVE  w[k] = IF k = 0 THEN f
                    ELSE IF w[k - 1] \in DOMAIN fo THEN fo[w[k - 1]].parent
                    ELSE w[k - 1]
  <2>1. CASE k = 0
    BY <1>3, <2>1 DEF Walks
  <2>2. CASE k # 0
    <3>1. k \in 1 .. n /\ k - 1 \in 0 .. n
      BY <2>2
    <3>2. w[k - 1] \in Nat
      BY <3>1
    <3>3. w[k] = UpSteps(fo)[k][w[k - 1]]
      BY <1>3, <3>1 DEF Walks
    <3>4. w[k] = Up(fo, w[k - 1])
      BY <3>1, <3>2, <3>3 DEF UpSteps
    <3> QED BY <2>2, <3>4 DEF Up
  <2> QED BY <2>1, <2>2
<1>5. w = [k \in 0 .. n |-> w[k]]
  OBVIOUS
<1>6. IsUp(w)
  BY <1>4, <1>5
<1> HIDE DEF IsUp
<1>7. IsUp(W)
  BY <1>6, Zenon
<1> HIDE DEF W
<1>8. W = [k \in 0 .. n |-> IF k = 0 THEN f
                            ELSE IF W[k - 1] \in DOMAIN fo
                                 THEN fo[W[k - 1]].parent ELSE W[k - 1]]
  BY <1>7 DEF IsUp
<1> DEFINE Bad == {k \in 0 .. n : W[k] # w[k]}
<1>9. Bad = {}
  <2>1. SUFFICES ASSUME Bad # {} PROVE FALSE
    BY <2>1
  <2>2. PICK k \in Bad : \A m \in Bad : k <= m
    <3>1. Bad \in SUBSET Nat
      OBVIOUS
    <3> HIDE DEF Bad
    <3> QED BY <2>1, <3>1, LeastNat
  <2>3. k # 0
    BY <1>4, <1>8, <2>2
  <2>4. k - 1 \in 0 .. n /\ ~(k <= k - 1)
    BY <2>2, <2>3
  <2>5. W[k - 1] = w[k - 1]
    BY <2>2, <2>4
  <2> QED BY <1>4, <1>8, <2>2, <2>3, <2>5
<1>10. W[n] = w[n]
  BY <1>9
<1> QED BY <1>1, <1>3, <1>10

\* An ancestor is a number, the nearest one is the folder itself, and each
\* further one is the parent of the one before.
LEMMA AncestorStep ==
    ASSUME NEW fo, Linked(fo), NEW f \in Nat, NEW n \in Nat
    PROVE  /\ AncestorIn(fo, f, n) \in Nat
           /\ AncestorIn(fo, f, 0) = f
           /\ AncestorIn(fo, f, n + 1) = Up(fo, AncestorIn(fo, f, n))
<1>1. PICK v \in [0 .. n -> Nat] :
         Walks(v, n, f, UpSteps(fo)) /\ AncestorIn(fo, f, n) = v[n]
  BY AncestorWalk
<1>2. n + 1 \in Nat /\ 0 \in Nat
  OBVIOUS
<1>3. PICK w \in [0 .. n + 1 -> Nat] :
         /\ Walks(w, n + 1, f, UpSteps(fo))
         /\ AncestorIn(fo, f, n + 1) = w[n + 1]
  BY <1>2, AncestorWalk
<1>4. PICK u \in [0 .. 0 -> Nat] :
         Walks(u, 0, f, UpSteps(fo)) /\ AncestorIn(fo, f, 0) = u[0]
  BY <1>2, AncestorWalk
<1>5. Walks(w, n, f, UpSteps(fo))
  BY <1>3 DEF Walks
<1>6. Walks(v, n, f, UpSteps(fo))
  BY <1>1
<1>7. v[n] = w[n] /\ w[n] \in Nat
  <2>1. \A k \in 0 .. n : v[k] = w[k]
    <3>1. PICK G : G = UpSteps(fo)
      OBVIOUS
    <3>2. Walks(v, n, f, G) /\ Walks(w, n, f, G)
      BY <1>5, <1>6, <3>1
    <3> QED BY SMTT(30), <3>2, WalksAgree
  <2>2. n \in 0 .. n /\ n \in 0 .. n + 1
    OBVIOUS
  <2>3. v[n] = w[n]
    BY <2>1, <2>2
  <2> QED BY <1>3, <2>2, <2>3
<1>8. w[n + 1] = Up(fo, w[n])
  <2>1. n + 1 \in 1 .. n + 1 /\ (n + 1) - 1 = n
    OBVIOUS
  <2>2. w[n + 1] = UpSteps(fo)[n + 1][w[n]]
    BY <1>3, <2>1 DEF Walks
  <2> QED BY <1>7, <2>1, <2>2 DEF UpSteps
<1>9. AncestorIn(fo, f, 0) = f
  BY <1>4 DEF Walks
<1> QED BY <1>1, <1>3, <1>7, <1>8, <1>9

\* Going up from the parent is going up one step further from the folder.
LEMMA AncestorTail ==
    ASSUME NEW fo, Linked(fo), NEW f \in Nat, NEW n \in Nat
    PROVE  AncestorIn(fo, f, n + 1) = AncestorIn(fo, Up(fo, f), n)
<1> DEFINE p == Up(fo, f)
           Bad == {k \in Nat : AncestorIn(fo, f, k + 1) # AncestorIn(fo, p, k)}
<1>1. p \in Nat
  BY DEF Up, Linked
<1> HIDE DEF p
<1>2. SUFFICES ASSUME Bad # {} PROVE FALSE
  BY <1>2 DEF p
<1>3. PICK k \in Bad : \A m \in Bad : k <= m
  <2>1. Bad \in SUBSET Nat
    OBVIOUS
  <2> HIDE DEF Bad
  <2> QED BY <1>2, <2>1, LeastNat
<1>4. CASE k = 0
  <2>1. 0 \in Nat /\ 0 + 1 = 1 /\ 1 \in Nat
    OBVIOUS
  <2>2. AncestorIn(fo, f, 0 + 1) = Up(fo, f)
    BY <2>1, AncestorStep
  <2>3. AncestorIn(fo, p, 0) = p
    BY <1>1, <2>1, AncestorStep
  <2> QED BY <1>3, <1>4, <2>2, <2>3 DEF p
<1>5. CASE k # 0
  <2>1. PICK j \in Nat : k = j + 1
    <3>1. k - 1 \in Nat /\ k = (k - 1) + 1
      BY <1>3, <1>5
    <3> QED BY <3>1
  <2>2. AncestorIn(fo, f, j + 1) = AncestorIn(fo, p, j)
    BY <1>3, <2>1
  <2>3. j + 1 \in Nat
    OBVIOUS
  <2>4. AncestorIn(fo, f, (j + 1) + 1) = Up(fo, AncestorIn(fo, f, j + 1))
    BY <2>3, AncestorStep
  <2>5. AncestorIn(fo, p, j + 1) = Up(fo, AncestorIn(fo, p, j))
    BY <1>1, AncestorStep
  <2> QED BY <1>3, <2>1, <2>2, <2>4, <2>5
<1> QED BY <1>4, <1>5

\* A walk that has left the folders stays where it is.
LEMMA AncestorStays ==
    ASSUME NEW fo, Linked(fo), NEW f \in Nat, NEW d \in Nat,
           AncestorIn(fo, f, d) \notin DOMAIN fo, NEW n \in Nat, d <= n
    PROVE  AncestorIn(fo, f, n) = AncestorIn(fo, f, d)
<1> DEFINE Bad == {k \in Nat : d <= k /\ AncestorIn(fo, f, k) # AncestorIn(fo, f, d)}
<1>1. SUFFICES ASSUME Bad # {} PROVE FALSE
  BY <1>1
<1>2. PICK k \in Bad : \A m \in Bad : k <= m
  <2>1. Bad \in SUBSET Nat
    OBVIOUS
  <2> HIDE DEF Bad
  <2> QED BY <1>1, <2>1, LeastNat
<1>3. k # d
  BY <1>2
<1>4. PICK j \in Nat : k = j + 1 /\ d <= j
  <2>1. k - 1 \in Nat /\ k = (k - 1) + 1 /\ d <= k - 1
    BY <1>2, <1>3
  <2> QED BY <2>1
<1>5. AncestorIn(fo, f, j) = AncestorIn(fo, f, d)
  BY <1>2, <1>4
<1>6. AncestorIn(fo, f, j + 1) = Up(fo, AncestorIn(fo, f, j))
  BY AncestorStep
<1> QED BY <1>2, <1>4, <1>5, <1>6 DEF Up

\* Two maps that take the same steps on a set closed under them give its
\* members the same ancestors.
LEMMA SameAncestors ==
    ASSUME NEW fo, Linked(fo), NEW fo2, Linked(fo2), NEW S \in SUBSET Nat,
           \A x \in S : Up(fo2, x) = Up(fo, x) /\ Up(fo, x) \in S,
           NEW f \in S, NEW n \in Nat
    PROVE  AncestorIn(fo2, f, n) = AncestorIn(fo, f, n) /\ AncestorIn(fo, f, n) \in S
<1> DEFINE Same(k) == /\ AncestorIn(fo2, f, k) = AncestorIn(fo, f, k)
                      /\ AncestorIn(fo, f, k) \in S
           Bad == {k \in Nat : ~Same(k)}
<1>1. SUFFICES ASSUME Bad # {} PROVE FALSE
  BY <1>1
<1>2. PICK k \in Bad : \A m \in Bad : k <= m
  <2>1. Bad \in SUBSET Nat
    OBVIOUS
  <2> HIDE DEF Bad
  <2> QED BY <1>1, <2>1, LeastNat
<1>3. k # 0
  <2>1. f \in Nat /\ 0 \in Nat
    OBVIOUS
  <2>2. AncestorIn(fo2, f, 0) = f /\ AncestorIn(fo, f, 0) = f
    BY <2>1, AncestorStep
  <2> QED BY <1>2, <2>2
<1>4. PICK j \in Nat : k = j + 1
  <2>1. k - 1 \in Nat /\ k = (k - 1) + 1
    BY <1>2, <1>3
  <2> QED BY <2>1
<1>5. Same(j)
  BY <1>2, <1>4
<1>6. /\ AncestorIn(fo, f, j + 1) = Up(fo, AncestorIn(fo, f, j))
      /\ AncestorIn(fo2, f, j + 1) = Up(fo2, AncestorIn(fo2, f, j))
  <2>1. f \in Nat /\ j \in Nat
    OBVIOUS
  <2>2. AncestorIn(fo, f, j + 1) = Up(fo, AncestorIn(fo, f, j))
    BY <2>1, AncestorStep
  <2>3. AncestorIn(fo2, f, j + 1) = Up(fo2, AncestorIn(fo2, f, j))
    BY <2>1, AncestorStep
  <2> QED BY <2>2, <2>3
<1> QED BY <1>2, <1>4, <1>5, <1>6

-----------------------------------------------------------------------------
(***************************************************************************)
(* The inductive invariant.  That the root is the only folder without a    *)
(* parent, that there is none before the owner is bound and that it is     *)
(* never created again keep the parent links a tree.                       *)
(***************************************************************************)
RootIsFirst ==
    /\ root_folder_id < next_folder_id
    /\ root_folder_id = None => DOMAIN folders = {}
    /\ root_folder_id \in DOMAIN folders
          => folders[root_folder_id].parent = ROOT_FOLDER_ID

Tree == TypeOK /\ IndexIsExact /\ RootIsFirst

\* What Tree says of single folders and files.
Shape ==
    /\ Linked(folders) /\ 0 \notin DOMAIN folders
    /\ next_folder_id \in Nat \ {0} /\ next_file_id \in Nat \ {0}
    /\ next_folder_id \notin DOMAIN folders /\ next_file_id \notin DOMAIN files
    /\ IsFiniteSet(DOMAIN folders) /\ IsFiniteSet(DOMAIN files)
    /\ \A f \in DOMAIN folders : folders[f].parent \in DOMAIN folders \cup {0}

\* A tree has that shape.
LEMMA TreeMeaning == Tree => Shape
<1> SUFFICES ASSUME Tree PROVE Shape
  OBVIOUS
<1>1. /\ next_folder_id \in Nat \ {0} /\ next_file_id \in Nat \ {0}
      /\ DOMAIN folders \subseteq 1 .. next_folder_id - 1
      /\ DOMAIN files \subseteq 1 .. next_file_id - 1
  BY DEF Tree, TypeOK
<1>2. next_folder_id - 1 \in Int /\ next_file_id - 1 \in Int /\ 1 \in Int
  BY <1>1
<1>3. IsFiniteSet(1 .. next_folder_id - 1) /\ IsFiniteSet(1 .. next_file_id - 1)
  BY <1>2, FS_Interval
<1>4. IsFiniteSet(DOMAIN folders) /\ IsFiniteSet(DOMAIN files)
  BY <1>1, <1>3, FS_Subset
<1>5. 0 \notin DOMAIN folders /\ next_folder_id \notin DOMAIN folders
      /\ next_file_id \notin DOMAIN files
  BY <1>1
<1>6. Linked(folders)
  BY <1>1 DEF Linked, Tree, TypeOK, Item
<1>7. \A f \in DOMAIN folders : folders[f].parent \in DOMAIN folders \cup {0}
  BY DEF Tree, IndexIsExact, RootIsFirst, ROOT_FOLDER_ID
<1> QED BY <1>1, <1>4, <1>5, <1>6, <1>7 DEF Shape

\* There is nothing in the file system of a canister without owner.
LEMMA TreeInit == Init => Tree
BY DEF Init, Tree, TypeOK, IndexIsExact, RootIsFirst, EmptyMap, None

\* A name that is trimmed is a name.
LEMMA TrimType == ASSUME NEW name \in Requested PROVE Trim(name) \in Name
BY DEF Requested, Trim, Name

\* finalize_registration makes the first folder.
LEMMA TreeFinalize == Tree /\ FinalizeRegistration => Tree'
<1> SUFFICES ASSUME Tree, FinalizeRegistration PROVE Tree'
  OBVIOUS
<1> DEFINE n == next_folder_id
<1>1. DOMAIN folders = {} /\ DOMAIN index = {} /\ DOMAIN files = {} /\ contents = {}
  BY DEF Tree, IndexIsExact, RootIsFirst, FinalizeRegistration
<1>2. /\ DOMAIN folders' = {n} /\ DOMAIN index' = {n}
      /\ folders'[n] = [name |-> Home, parent |-> 0] /\ index'[n] = NoChildren
      /\ files' = files /\ contents' = contents /\ next_file_id' = next_file_id
      /\ root_folder_id' = n /\ next_folder_id' = n + 1
  BY <1>1 DEF FinalizeRegistration, Insert, ROOT_FOLDER_ID
<1>3. /\ n \in Nat \ {0} /\ n + 1 \in Nat \ {0} /\ n \in 1 .. (n + 1) - 1
  BY DEF Tree, TypeOK
<1>4. [name |-> Home, parent |-> 0] \in Item
  BY DEF Item, Home, Name
<1>5. TypeOK'
  <2>1. folders' \in [DOMAIN folders' -> Item]
    BY <1>2, <1>4 DEF FinalizeRegistration, Insert
  <2>2. index' \in [DOMAIN index' -> [folders : SUBSET Nat, files : SUBSET Nat]]
    BY <1>2 DEF FinalizeRegistration, Insert, NoChildren
  <2> QED BY <1>2, <1>3, <2>1, <2>2 DEF Tree, TypeOK
<1>6. IndexIsExact'
  BY <1>1, <1>2, <1>3 DEF IndexIsExact, NoChildren
<1>7. RootIsFirst'
  BY <1>2, <1>3 DEF RootIsFirst, None, ROOT_FOLDER_ID
<1> QED BY <1>5, <1>6, <1>7 DEF Tree

\* create_folder links a new empty folder under an existing one.
LEMMA TreeCreateFolder ==
    ASSUME Tree, NEW name \in Requested, NEW parent \in DOMAIN folders,
           CreateFolder(name, parent)
    PROVE  Tree'
<1> DEFINE n == next_folder_id
           item == [name |-> Trim(name), parent |-> parent]
<1>1. DOMAIN index = DOMAIN folders /\ ChildrenOf(parent) = index[parent]
  BY DEF Tree, IndexIsExact, ChildrenOf
<1>2. /\ n \in Nat \ {0} /\ n + 1 \in Nat \ {0} /\ n \notin DOMAIN folders /\ n # parent
      /\ parent \in Nat \ {0} /\ DOMAIN folders \cup {n} \subseteq 1 .. (n + 1) - 1
  BY DEF Tree, TypeOK
<1>3. index[parent] \in [folders : SUBSET Nat, files : SUBSET Nat]
  BY <1>1 DEF Tree, TypeOK
<1> DEFINE more == [index[parent] EXCEPT !.folders = @ \cup {n}]
<1>4. /\ more \in [folders : SUBSET Nat, files : SUBSET Nat]
      /\ more.folders = index[parent].folders \cup {n}
      /\ more.files = index[parent].files
  BY <1>2, <1>3
<1>5. item \in Item /\ item.parent = parent
  BY <1>2, TrimType DEF Item
<1> HIDE DEF item, more
<1>6. /\ DOMAIN folders' = DOMAIN folders \cup {n}
      /\ folders'[n] = item
      /\ \A f \in DOMAIN folders : folders'[f] = folders[f]
      /\ folders' = [f \in DOMAIN folders' |-> folders'[f]]
  BY <1>2 DEF CreateFolder, Insert, item
<1>7. /\ DOMAIN index' = DOMAIN folders \cup {n}
      /\ index'[n] = NoChildren
      /\ index'[parent] = more
      /\ \A f \in DOMAIN folders : f # parent => index'[f] = index[f]
      /\ index' = [f \in DOMAIN index' |-> index'[f]]
  BY <1>1, <1>2 DEF CreateFolder, Insert, more
<1>8. /\ next_folder_id' = n + 1
      /\ UNCHANGED <<files, contents, root_folder_id, next_file_id>>
  BY DEF CreateFolder
<1>9. TypeOK'
  <2>1. \A f \in DOMAIN folders' : folders'[f] \in Item
    BY <1>5, <1>6 DEF Tree, TypeOK
  <2>2. \A f \in DOMAIN index' : index'[f] \in [folders : SUBSET Nat, files : SUBSET Nat]
    BY <1>1, <1>4, <1>7 DEF Tree, TypeOK, NoChildren
  <2>3. folders' \in [DOMAIN folders' -> Item]
    BY <1>6, <2>1
  <2>4. index' \in [DOMAIN index' -> [folders : SUBSET Nat, files : SUBSET Nat]]
    BY <1>7, <2>2
  <2> QED BY <1>2, <1>6, <1>7, <1>8, <2>3, <2>4 DEF Tree, TypeOK
<1>10. IndexIsExact'
  <2>1. ASSUME NEW f \in DOMAIN folders'
        PROVE  /\ index'[f].folders = {g \in DOMAIN folders' : folders'[g].parent = f}
               /\ index'[f].files = {g \in DOMAIN files' : files'[g].parent = f}
               /\ folders'[f].parent \in DOMAIN folders' \/ f = root_folder_id'
    <3>1. CASE f = n
      <4>1. \A g \in DOMAIN folders : folders[g].parent # n
        BY <1>2, TreeMeaning DEF Shape
      <4>2. \A g \in DOMAIN files : files[g].parent # n
        BY <1>2 DEF Tree, IndexIsExact
      <4> QED BY <1>2, <1>5, <1>6, <1>7, <1>8, <3>1, <4>1, <4>2 DEF NoChildren
    <3>2. CASE f = parent
      <4>1. index[parent].folders = {g \in DOMAIN folders : folders[g].parent = parent}
        BY DEF Tree, IndexIsExact
      <4>2. more.folders = {g \in DOMAIN folders' : folders'[g].parent = parent}
        BY <1>2, <1>4, <1>5, <1>6, <4>1
      <4> QED BY <1>4, <1>6, <1>7, <1>8, <3>2, <4>2 DEF Tree, IndexIsExact
    <3>3. CASE f # n /\ f # parent
      <4>1. f \in DOMAIN folders /\ index'[f] = index[f]
        BY <1>6, <1>7, <3>3
      <4>2. {g \in DOMAIN folders' : folders'[g].parent = f}
               = {g \in DOMAIN folders : folders[g].parent = f}
        BY <1>5, <1>6, <3>3
      <4> QED BY <1>6, <1>8, <4>1, <4>2 DEF Tree, IndexIsExact
    <3> QED BY <3>1, <3>2, <3>3
  <2> QED BY <1>6, <1>7, <1>8, <2>1 DEF Tree, IndexIsExact
<1>11. RootIsFirst'
  BY <1>2, <1>6, <1>8 DEF Tree, TypeOK, RootIsFirst
<1> QED BY <1>9, <1>10, <1>11 DEF Tree

\* upload_file links a new file and stores its bytes.
LEMMA TreeUploadFile ==
    ASSUME Tree, NEW name \in Requested, NEW parent \in DOMAIN folders,
           UploadFile(name, parent)
    PROVE  Tree'
<1> DEFINE n == next_file_id
           item == [name |-> Trim(name), parent |-> parent]
<1>1. DOMAIN index = DOMAIN folders /\ ChildrenOf(parent) = index[parent]
  BY DEF Tree, IndexIsExact, ChildrenOf
<1>2. /\ n \in Nat \ {0} /\ n + 1 \in Nat \ {0} /\ n \notin DOMAIN files
      /\ parent \in Nat \ {0} /\ DOMAIN files \cup {n} \subseteq 1 .. (n + 1) - 1
  BY DEF Tree, TypeOK
<1>3. index[parent] \in [folders : SUBSET Nat, files : SUBSET Nat]
  BY <1>1 DEF Tree, TypeOK
<1> DEFINE more == [index[parent] EXCEPT !.files = @ \cup {n}]
<1>4. /\ more \in [folders : SUBSET Nat, files : SUBSET Nat]
      /\ more.files = index[parent].files \cup {n}
      /\ more.folders = index[parent].folders
  BY <1>2, <1>3
<1>5. item \in Item /\ item.parent = parent
  BY <1>2, TrimType DEF Item
<1> HIDE DEF item, more
<1>6. /\ DOMAIN files' = DOMAIN files \cup {n}
      /\ files'[n] = item
      /\ \A f \in DOMAIN files : files'[f] = files[f]
      /\ files' = [f \in DOMAIN files' |-> files'[f]]
  BY <1>2 DEF UploadFile, Insert, item
<1>7. /\ DOMAIN index' = DOMAIN folders
      /\ index'[parent] = more
      /\ \A f \in DOMAIN folders : f # parent => index'[f] = index[f]
      /\ index' = [f \in DOMAIN index' |-> index'[f]]
  BY <1>1 DEF UploadFile, Insert, more
<1>8. /\ next_file_id' = n + 1 /\ contents' = contents \cup {n}
      /\ UNCHANGED <<folders, root_folder_id, next_folder_id>>
  BY DEF UploadFile
<1>9. TypeOK'
  <2>1. \A f \in DOMAIN files' : files'[f] \in Item
    BY <1>5, <1>6 DEF Tree, TypeOK
  <2>2. \A f \in DOMAIN index' : index'[f] \in [folders : SUBSET Nat, files : SUBSET Nat]
    BY <1>1, <1>4, <1>7 DEF Tree, TypeOK
  <2>3. files' \in [DOMAIN files' -> Item]
    BY <1>6, <2>1
  <2>4. index' \in [DOMAIN index' -> [folders : SUBSET Nat, files : SUBSET Nat]]
    BY <1>7, <2>2
  <2> QED BY <1>1, <1>2, <1>6, <1>7, <1>8, <2>3, <2>4 DEF Tree, TypeOK
<1>10. IndexIsExact'
  <2>1. ASSUME NEW f \in DOMAIN folders
        PROVE  /\ index'[f].folders = {g \in DOMAIN folders : folders[g].parent = f}
               /\ index'[f].files = {g \in DOMAIN files' : files'[g].parent = f}
               /\ folders[f].parent \in DOMAIN folders \/ f = root_folder_id
    <3>1. CASE f = parent
      <4>1. index[parent].files = {g \in DOMAIN files : files[g].parent = parent}
        BY DEF Tree, IndexIsExact
      <4>2. more.files = {g \in DOMAIN files' : files'[g].parent = parent}
        BY <1>2, <1>4, <1>5, <1>6, <4>1
      <4> QED BY <1>4, <1>7, <3>1, <4>2 DEF Tree, IndexIsExact
    <3>2. CASE f # parent
      <4>1. {g \in DOMAIN files' : files'[g].parent = f}
               = {g \in DOMAIN files : files[g].parent = f}
        BY <1>5, <1>6, <3>2
      <4> QED BY <1>7, <3>2, <4>1 DEF Tree, IndexIsExact
    <3> QED BY <3>1, <3>2
  <2>2. \A g \in DOMAIN files' : files'[g].parent \in DOMAIN folders
    BY <1>5, <1>6 DEF Tree, IndexIsExact
  <2> QED BY <1>6, <1>7, <1>8, <2>1, <2>2 DEF Tree, IndexIsExact
<1>11. RootIsFirst'
  BY <1>8 DEF Tree, RootIsFirst
<1> QED BY <1>9, <1>10, <1>11 DEF Tree

\* rename_file changes no link.
LEMMA TreeRenameFile ==
    ASSUME Tree, NEW name \in Requested, NEW f \in DOMAIN files, RenameFile(f, name)
    PROVE  Tree'
<1> DEFINE item == [files[f] EXCEPT !.name = Trim(name)]
<1>1. files[f] \in Item
  BY DEF Tree, TypeOK
<1>2. item \in Item /\ item.parent = files[f].parent
  BY <1>1, TrimType DEF Item
<1>3. /\ files' = [files EXCEPT ![f] = item]
      /\ UNCHANGED <<folders, contents, index, root_folder_id,
                     next_folder_id, next_file_id>>
  BY DEF RenameFile
<1> HIDE DEF item
<1>4. DOMAIN files' = DOMAIN files /\ \A g \in DOMAIN files :
         files'[g].parent = files[g].parent
  BY <1>2, <1>3
<1>5. TypeOK'
  <2>1. files' \in [DOMAIN files' -> Item]
    BY <1>2, <1>3, <1>4 DEF Tree, TypeOK
  <2> QED BY <1>3, <1>4, <2>1 DEF Tree, TypeOK
<1>6. IndexIsExact'
  <2>1. \A x : {g \in DOMAIN files' : files'[g].parent = x}
                  = {g \in DOMAIN files : files[g].parent = x}
    BY <1>4
  <2> QED BY <1>3, <1>4, <2>1 DEF Tree, IndexIsExact
<1> QED BY <1>3, <1>5, <1>6 DEF Tree, RootIsFirst

\* rename_folder changes no link.
LEMMA TreeRenameFolder ==
    ASSUME Tree, NEW name \in Requested, NEW f \in DOMAIN folders, RenameFolder(f, name)
    PROVE  /\ Tree'
           /\ DOMAIN folders' = DOMAIN folders
           /\ \A g \in DOMAIN folders : folders'[g].parent = folders[g].parent
<1> DEFINE item == [folders[f] EXCEPT !.name = Trim(name)]
<1>1. folders[f] \in Item
  BY DEF Tree, TypeOK
<1>2. item \in Item /\ item.parent = folders[f].parent
  BY <1>1, TrimType DEF Item
<1>3. /\ folders' = [folders EXCEPT ![f] = item]
      /\ UNCHANGED <<files, contents, index, root_folder_id,
                     next_folder_id, next_file_id>>
  BY DEF RenameFolder
<1> HIDE DEF item
<1>4. DOMAIN folders' = DOMAIN folders /\ \A g \in DOMAIN folders :
         folders'[g].parent = folders[g].parent
  BY <1>2, <1>3
<1>5. TypeOK'
  <2>1. folders' \in [DOMAIN folders' -> Item]
    BY <1>2, <1>3, <1>4 DEF Tree, TypeOK
  <2> QED BY <1>3, <1>4, <2>1 DEF Tree, TypeOK
<1>6. IndexIsExact'
  <2>1. \A x : {g \in DOMAIN folders' : folders'[g].parent = x}
                  = {g \in DOMAIN folders : folders[g].parent = x}
    BY <1>4
  <2> QED BY <1>3, <1>4, <2>1 DEF Tree, IndexIsExact
<1> QED BY <1>3, <1>4, <1>5, <1>6 DEF Tree, RootIsFirst

\* delete_item of a file takes its record, its bytes and its link.
LEMMA TreeDeleteFile ==
    ASSUME Tree, NEW f \in DOMAIN files, DeleteFile(f)
    PROVE  /\ Tree'
           /\ DOMAIN index' = DOMAIN index
           /\ \A d \in DOMAIN index : /\ index'[d].folders = index[d].folders
                                      /\ index'[d].files \subseteq index[d].files
<1> DEFINE parent == files[f].parent
<1>1. DOMAIN index = DOMAIN folders /\ parent \in DOMAIN folders
  BY DEF Tree, IndexIsExact
<1>2. \A d \in DOMAIN folders : index[d] \in [folders : SUBSET Nat, files : SUBSET Nat]
  BY <1>1 DEF Tree, TypeOK
<1> DEFINE less == [index[parent] EXCEPT !.files = @ \ {f}]
<1>3. /\ less \in [folders : SUBSET Nat, files : SUBSET Nat]
      /\ less.files = index[parent].files \ {f} /\ less.folders = index[parent].folders
  BY <1>1, <1>2
<1>4. /\ index' = [index EXCEPT ![parent] = less]
      /\ contents' = contents \ {f}
      /\ UNCHANGED <<folders, root_folder_id, next_folder_id, next_file_id>>
  BY <1>1 DEF DeleteFile
<1>5. /\ DOMAIN files' = DOMAIN files \ {f}
      /\ \A g \in DOMAIN files' : files'[g] = files[g]
      /\ files' = [g \in DOMAIN files' |-> files'[g]]
  BY DEF DeleteFile, RemoveKeys
<1> HIDE DEF less
<1>6. /\ DOMAIN index' = DOMAIN index /\ index'[parent] = less
      /\ \A d \in DOMAIN folders : d # parent => index'[d] = index[d]
  BY <1>1, <1>4
<1>7. TypeOK'
  <2>1. files' \in [DOMAIN files' -> Item]
    BY <1>5 DEF Tree, TypeOK
  <2>2. index' \in [DOMAIN index' -> [folders : SUBSET Nat, files : SUBSET Nat]]
    BY <1>3, <1>4, <1>6 DEF Tree, TypeOK
  <2> QED BY <1>4, <1>5, <1>6, <2>1, <2>2 DEF Tree, TypeOK
<1>8. IndexIsExact'
  <2>1. ASSUME NEW d \in DOMAIN folders
        PROVE  /\ index'[d].folders = {g \in DOMAIN folders : folders[g].parent = d}
               /\ index'[d].files = {g \in DOMAIN files' : files'[g].parent = d}
               /\ folders[d].parent \in DOMAIN folders \/ d = root_folder_id
    <3>1. CASE d = parent
      <4>1. index[parent].files = {g \in DOMAIN files : files[g].parent = parent}
        BY <1>1 DEF Tree, IndexIsExact
      <4>2. less.files = {g \in DOMAIN files' : files'[g].parent = parent}
        BY <1>3, <1>5, <4>1
      <4> QED BY <1>3, <1>6, <3>1, <4>2 DEF Tree, IndexIsExact
    <3>2. CASE d # parent
      <4>1. {g \in DOMAIN files' : files'[g].parent = d}
               = {g \in DOMAIN files : files[g].parent = d}
        BY <1>5, <3>2
      <4> QED BY <1>6, <3>2, <4>1 DEF Tree, IndexIsExact
    <3> QED BY <3>1, <3>2
  <2> QED BY <1>1, <1>4, <1>5, <1>6, <2>1 DEF Tree, IndexIsExact
<1>9. RootIsFirst'
  BY <1>4 DEF Tree, RootIsFirst
<1>10. \A d \in DOMAIN index : /\ index'[d].folders = index[d].folders
                               /\ index'[d].files \subseteq index[d].files
  BY <1>1, <1>3, <1>6
<1> QED BY <1>6, <1>7, <1>8, <1>9, <1>10 DEF Tree

\* delete_item of a folder takes one that nothing hangs under.
LEMMA TreeDeleteFolder ==
    ASSUME Tree, NEW f \in DOMAIN folders, DeleteFolder(f)
    PROVE  /\ Tree'
           /\ DOMAIN folders' = DOMAIN folders \ {f}
           /\ \A d \in DOMAIN folders' : /\ folders'[d] = folders[d]
                                         /\ folders[d].parent # f
                                         /\ index'[d].folders \subseteq index[d].folders
                                         /\ index'[d].files = index[d].files
<1> DEFINE parent == folders[f].parent
           unlinked == IF parent \in DOMAIN index
                       THEN [index EXCEPT ![parent].folders = @ \ {f}] ELSE index
<1>1. DOMAIN index = DOMAIN folders
  BY DEF Tree, IndexIsExact
<1>2. \A d \in DOMAIN folders : index[d] \in [folders : SUBSET Nat, files : SUBSET Nat]
  BY <1>1 DEF Tree, TypeOK
<1>3. /\ \A g \in DOMAIN folders : folders[g].parent # f
      /\ \A g \in DOMAIN files : files[g].parent # f
  BY <1>1 DEF DeleteFolder, IsEmpty, ChildrenOf, NoChildren, Tree, IndexIsExact
<1>4. /\ DOMAIN folders' = DOMAIN folders \ {f}
      /\ \A g \in DOMAIN folders' : folders'[g] = folders[g]
      /\ folders' = [g \in DOMAIN folders' |-> folders'[g]]
  BY DEF DeleteFolder, RemoveKeys
<1>5. /\ DOMAIN unlinked = DOMAIN folders
      /\ \A d \in DOMAIN folders : d # parent => unlinked[d] = index[d]
      /\ parent \in DOMAIN folders =>
            /\ unlinked[parent] \in [folders : SUBSET Nat, files : SUBSET Nat]
            /\ unlinked[parent].folders = index[parent].folders \ {f}
            /\ unlinked[parent].files = index[parent].files
  BY <1>1, <1>2
<1>6. /\ index' = RemoveKeys(unlinked, {f})
      /\ UNCHANGED <<files, contents, root_folder_id, next_folder_id, next_file_id>>
  BY DEF DeleteFolder
<1> HIDE DEF unlinked
<1>7. /\ DOMAIN index' = DOMAIN folders'
      /\ \A d \in DOMAIN folders' : index'[d] = unlinked[d]
      /\ index' = [d \in DOMAIN index' |-> index'[d]]
  BY <1>4, <1>5, <1>6 DEF RemoveKeys
<1>8. \A d \in DOMAIN folders' :
         /\ index'[d] \in [folders : SUBSET Nat, files : SUBSET Nat]
         /\ index'[d].folders = index[d].folders \ {f}
         /\ index'[d].files = index[d].files
  <2> SUFFICES ASSUME NEW d \in DOMAIN folders'
               PROVE  /\ index'[d] \in [folders : SUBSET Nat, files : SUBSET Nat]
                      /\ index'[d].folders = index[d].folders \ {f}
                      /\ index'[d].files = index[d].files
    OBVIOUS
  <2>1. d \in DOMAIN folders /\ d # f
    BY <1>4
  <2>2. CASE d = parent
    BY <1>5, <1>7, <2>1, <2>2
  <2>3. CASE d # parent
    <3>1. index'[d] = index[d]
      BY <1>5, <1>7, <2>1, <2>3
    <3>2. f \notin index[d].folders
      BY <2>1, <2>3 DEF Tree, IndexIsExact
    <3> QED BY <1>2, <2>1, <3>1, <3>2
  <2> QED BY <2>2, <2>3
<1>9. TypeOK'
  <2>1. folders' \in [DOMAIN folders' -> Item]
    BY <1>4 DEF Tree, TypeOK
  <2>2. index' \in [DOMAIN index' -> [folders : SUBSET Nat, files : SUBSET Nat]]
    BY <1>7, <1>8
  <2> QED BY <1>1, <1>4, <1>6, <1>7, <2>1, <2>2 DEF Tree, TypeOK
<1>10. IndexIsExact'
  <2>1. ASSUME NEW d \in DOMAIN folders'
        PROVE  /\ index'[d].folders = {g \in DOMAIN folders' : folders'[g].parent = d}
               /\ index'[d].files = {g \in DOMAIN files : files[g].parent = d}
               /\ folders'[d].parent \in DOMAIN folders' \/ d = root_folder_id
    <3>1. d \in DOMAIN folders /\ d # f
      BY <1>4
    <3>2. index[d].folders = {g \in DOMAIN folders : folders[g].parent = d}
      BY <3>1 DEF Tree, IndexIsExact
    <3>3. index'[d].folders = {g \in DOMAIN folders' : folders'[g].parent = d}
      BY <1>4, <1>8, <3>2
    <3>4. folders[d].parent \in DOMAIN folders \/ d = root_folder_id
      BY <3>1 DEF Tree, IndexIsExact
    <3> QED BY <1>3, <1>4, <1>8, <3>1, <3>3, <3>4 DEF Tree, IndexIsExact
  <2>2. \A g \in DOMAIN files : files[g].parent \in DOMAIN folders'
    BY <1>3, <1>4 DEF Tree, IndexIsExact
  <2> QED BY <1>6, <1>7, <2>1, <2>2 DEF Tree, IndexIsExact
<1>11. RootIsFirst'
  BY <1>4, <1>6 DEF Tree, RootIsFirst
<1> QED BY <1>3, <1>4, <1>8, <1>9, <1>10, <1>11 DEF Tree

\* Every step keeps the tree.
LEMMA TreeStep == Tree /\ [Next]_vars => Tree'
<1> SUFFICES ASSUME Tree, [Next]_vars PROVE Tree'
  OBVIOUS
<1>1. CASE FinalizeRegistration
  BY <1>1, TreeFinalize
<1>2. CASE \E name \in Requested, parent \in DOMAIN folders :
              CreateFolder(name, parent) \/ UploadFile(name, parent)
  BY <1>2, TreeCreateFolder, TreeUploadFile
<1>3. CASE \E name \in Requested : \/ \E f \in DOMAIN files : RenameFile(f, name)
                                   \/ \E f \in DOMAIN folders : RenameFolder(f, name)
  BY <1>3, TreeRenameFile, TreeRenameFolder
<1>4. CASE \E f \in DOMAIN files : DeleteFile(f)
  BY <1>4, TreeDeleteFile
<1>5. CASE \E f \in DOMAIN folders : DeleteFolder(f)
  BY <1>5, TreeDeleteFolder
<1>6. CASE UNCHANGED vars
  BY <1>6 DEF vars, Tree, TypeOK, IndexIsExact, RootIsFirst
<1> QED BY <1>1, <1>2, <1>3, <1>4, <1>5, <1>6 DEF Next

-----------------------------------------------------------------------------
(***************************************************************************)
(* The limits of config.rs.                                                *)
(***************************************************************************)
FewItems ==
    /\ Cardinality(DOMAIN files) <= MAX_FILES_PER_USER
    /\ Cardinality(DOMAIN folders) <= MAX_FOLDERS_PER_USER
    /\ \A f \in DOMAIN folders :
          Cardinality(index[f].folders) + Cardinality(index[f].files)
             <= MAX_ITEMS_PER_FOLDER

Shallow(fo) == \A f \in DOMAIN fo : AncestorIn(fo, f, MAX_FS_DEPTH) = 0

\* LimitsHold is the counts and the depth.
LEMMA LimitsMeaning == LimitsHold <=> FewItems /\ Shallow(folders)
BY DEF LimitsHold, FewItems, Shallow, Ancestor, AncestorIn, ROOT_FOLDER_ID

\* The children of a folder are finitely many, so that len() counts them.
LEMMA ChildrenFinite ==
    Tree => \A f \in DOMAIN folders :
               IsFiniteSet(index[f].folders) /\ IsFiniteSet(index[f].files)
<1> SUFFICES ASSUME Tree, NEW f \in DOMAIN folders
             PROVE  IsFiniteSet(index[f].folders) /\ IsFiniteSet(index[f].files)
  OBVIOUS
<1>1. IsFiniteSet(DOMAIN folders) /\ IsFiniteSet(DOMAIN files)
  BY TreeMeaning DEF Shape
<1>2. index[f].folders \in SUBSET DOMAIN folders /\ index[f].files \in SUBSET DOMAIN files
  BY DEF Tree, IndexIsExact
<1> QED BY <1>1, <1>2, FS_Subset

\* A new folder is as deep as its parent allows, and moves no other one.
LEMMA ShallowCreate ==
    ASSUME Tree, Tree', Shallow(folders), NEW name, NEW parent \in DOMAIN folders,
           CreateFolder(name, parent)
    PROVE  Shallow(folders')
<1> DEFINE n == next_folder_id
           S == DOMAIN folders \cup {0}
<1>1. Shape /\ Shape'
  <2>1. Tree' => Shape'
    BY TreeMeaning, PTL
  <2> QED BY <2>1, TreeMeaning
<1>2. /\ DOMAIN folders' = DOMAIN folders \cup {n}
      /\ folders'[n].parent = parent
      /\ \A f \in DOMAIN folders : folders'[f] = folders[f]
  BY <1>1 DEF CreateFolder, Insert, Shape
<1>3. \A x \in S : Up(folders', x) = Up(folders, x) /\ Up(folders, x) \in S
  BY <1>1, <1>2 DEF Up, Shape
<1>4. /\ S \in SUBSET Nat /\ Linked(folders) /\ Linked(folders')
      /\ n \in Nat /\ MAX_FS_DEPTH \in Nat /\ parent \in Nat
  BY <1>1, LimitsAssumption DEF Shape, Linked
<1>5. \A f \in S, k \in Nat : AncestorIn(folders', f, k) = AncestorIn(folders, f, k)
  <2> HIDE DEF S
  <2> QED BY <1>3, <1>4, SameAncestors
<1>6. PICK d \in 0 .. MAX_FS_DEPTH - 1 : AncestorIn(folders, parent, d) = 0
  BY DEF CreateFolder, DepthBelow, Ancestor, AncestorIn, ROOT_FOLDER_ID
<1>7. AncestorIn(folders', n, MAX_FS_DEPTH) = 0
  <2>1. d \in Nat /\ d + 1 \in Nat /\ d + 1 <= MAX_FS_DEPTH
    BY <1>4
  <2>2. Up(folders', n) = parent
    BY <1>2 DEF Up
  <2>3. AncestorIn(folders', n, d + 1) = AncestorIn(folders', parent, d)
    BY <1>4, <2>1, <2>2, AncestorTail
  <2>4. AncestorIn(folders', parent, d) = 0
    BY <1>5, <1>6, <2>1
  <2>5. 0 \notin DOMAIN folders'
    BY <1>1 DEF Shape
  <2> QED BY <1>4, <2>1, <2>3, <2>4, <2>5, AncestorStays
<1>8. \A f \in DOMAIN folders : AncestorIn(folders', f, MAX_FS_DEPTH) = 0
  BY <1>4, <1>5 DEF Shallow
<1> QED BY <1>2, <1>7, <1>8 DEF Shallow

\* The root is one step from the parent it does not have.
LEMMA ShallowFinalize ==
    ASSUME Tree, Tree', FinalizeRegistration
    PROVE  Shallow(folders')
<1> DEFINE n == next_folder_id
<1>1. Shape'
  <2>1. Tree' => Shape'
    BY TreeMeaning, PTL
  <2> QED BY <2>1
<1>2. DOMAIN folders' = {n} /\ folders'[n].parent = 0 /\ n \in Nat
  BY DEF Tree, TypeOK, RootIsFirst, FinalizeRegistration, Insert, ROOT_FOLDER_ID
<1>3. Linked(folders') /\ 0 \notin DOMAIN folders'
  BY <1>1 DEF Shape
<1>4. 0 \in Nat /\ 1 \in Nat /\ 0 + 1 = 1 /\ MAX_FS_DEPTH \in Nat /\ 1 <= MAX_FS_DEPTH
  BY LimitsAssumption
<1>5. AncestorIn(folders', n, 1) = 0
  <2>1. AncestorIn(folders', n, 0 + 1) = Up(folders', AncestorIn(folders', n, 0))
        /\ AncestorIn(folders', n, 0) = n
    BY <1>2, <1>3, <1>4, AncestorStep
  <2> QED BY <1>2, <1>4, <2>1 DEF Up
<1>6. AncestorIn(folders', n, MAX_FS_DEPTH) = 0
  BY <1>2, <1>3, <1>4, <1>5, AncestorStays
<1> QED BY <1>2, <1>6 DEF Shallow

\* A map with fewer folders, none of which was the parent of another, and the
\* same links is as shallow.
LEMMA ShallowKeeps ==
    ASSUME Tree, Tree', Shallow(folders), DOMAIN folders' \subseteq DOMAIN folders,
           \A f \in DOMAIN folders' : /\ folders'[f].parent = folders[f].parent
                                      /\ folders[f].parent \in DOMAIN folders' \cup {0}
    PROVE  Shallow(folders')
<1> DEFINE S == DOMAIN folders' \cup {0}
<1>1. Shape /\ Shape'
  <2>1. Tree' => Shape'
    BY TreeMeaning, PTL
  <2> QED BY <2>1, TreeMeaning
<1>2. \A x \in S : Up(folders', x) = Up(folders, x) /\ Up(folders, x) \in S
  BY <1>1 DEF Up, Shape
<1>3. S \in SUBSET Nat /\ Linked(folders) /\ Linked(folders') /\ MAX_FS_DEPTH \in Nat
  BY <1>1, LimitsAssumption DEF Shape, Linked
<1>4. \A f \in S : AncestorIn(folders', f, MAX_FS_DEPTH) = AncestorIn(folders, f, MAX_FS_DEPTH)
  <2> HIDE DEF S
  <2> QED BY <1>2, <1>3, SameAncestors
<1> QED BY <1>4 DEF Shallow

\* Each step that adds an item has looked at the counts it raises.
LEMMA LimitsStep == Tree /\ Tree' /\ LimitsHold /\ [Next]_vars => LimitsHold'
<1> SUFFICES ASSUME Tree, Tree', LimitsHold, [Next]_vars
             PROVE  FewItems' /\ Shallow(folders')
  <2>1. LimitsHold' <=> FewItems' /\ Shallow(folders')
    BY DEF LimitsHold, FewItems, Shallow, Ancestor, AncestorIn, ROOT_FOLDER_ID
  <2> QED BY <2>1
<1>0. FewItems /\ Shallow(folders) /\ Shape
  BY LimitsMeaning, TreeMeaning
<1>a. /\ IsFiniteSet(DOMAIN folders) /\ IsFiniteSet(DOMAIN files)
      /\ \A f \in DOMAIN folders :
            IsFiniteSet(index[f].folders) /\ IsFiniteSet(index[f].files)
  BY <1>0, ChildrenFinite DEF Shape
<1>b. /\ \A S, x : IsFiniteSet(S) => Cardinality(S) \in Nat
      /\ \A S, x : IsFiniteSet(S) =>
            Cardinality(S \cup {x}) = IF x \in S THEN Cardinality(S) ELSE Cardinality(S) + 1
      /\ \A S : \A T \in SUBSET S : IsFiniteSet(S) =>
            IsFiniteSet(T) /\ Cardinality(T) <= Cardinality(S)
      /\ Cardinality({}) = 0
  BY FS_CardinalityType, FS_AddElement, FS_Subset, FS_EmptySet
<1>c. DOMAIN index = DOMAIN folders
  BY DEF Tree, IndexIsExact
<1>1. CASE FinalizeRegistration
  <2>1. /\ DOMAIN folders' = {next_folder_id} /\ files' = files
        /\ index'[next_folder_id] = NoChildren
    BY <1>1 DEF Tree, RootIsFirst, FinalizeRegistration, Insert
  <2>2. Cardinality(DOMAIN folders') = 1
    BY <2>1, FS_Singleton
  <2>3. Cardinality({}) + Cardinality({}) <= MAX_ITEMS_PER_FOLDER
    BY <1>b, LimitsAssumption
  <2>4. FewItems'
    <3>1. Cardinality(DOMAIN files') <= MAX_FILES_PER_USER
      BY <1>0, <2>1 DEF FewItems
    <3>2. Cardinality(DOMAIN folders') <= MAX_FOLDERS_PER_USER
      BY <2>2, LimitsAssumption
    <3>3. \A f \in DOMAIN folders' : index'[f].folders = {} /\ index'[f].files = {}
      BY <2>1 DEF NoChildren
    <3> QED BY <2>3, <3>1, <3>2, <3>3 DEF FewItems
  <2> QED BY <1>1, <2>4, ShallowFinalize
<1>2. ASSUME NEW name \in Requested, NEW parent \in DOMAIN folders,
             CreateFolder(name, parent)
      PROVE  FewItems' /\ Shallow(folders')
  <2> DEFINE n == next_folder_id
  <2>1. /\ DOMAIN folders' = DOMAIN folders \cup {n} /\ n \notin DOMAIN folders
        /\ files' = files
        /\ index'[n] = NoChildren
        /\ index'[parent].folders = index[parent].folders \cup {n}
        /\ index'[parent].files = index[parent].files
        /\ \A f \in DOMAIN folders : f # parent => index'[f] = index[f]
    <3>1. index[parent] \in [folders : SUBSET Nat, files : SUBSET Nat]
      BY <1>c DEF Tree, TypeOK
    <3>2. n \notin DOMAIN folders
      BY <1>0 DEF Shape
    <3> QED BY <1>2, <1>c, <3>1, <3>2 DEF CreateFolder, Insert, ChildrenOf
  <2>2. Cardinality(DOMAIN folders') <= MAX_FOLDERS_PER_USER
    <3>1. Cardinality(DOMAIN folders) < MAX_FOLDERS_PER_USER
      BY <1>2 DEF CreateFolder
    <3>2. Cardinality(DOMAIN folders) \in Nat
      BY <1>a, <1>b
    <3>3. Cardinality(DOMAIN folders') = Cardinality(DOMAIN folders) + 1
      BY <1>a, <1>b, <2>1
    <3> QED BY <3>1, <3>2, <3>3, LimitsAssumption
  <2>3. Cardinality(index'[parent].folders) + Cardinality(index'[parent].files)
           <= MAX_ITEMS_PER_FOLDER
    <3>1. Cardinality(index[parent].folders) + Cardinality(index[parent].files)
             < MAX_ITEMS_PER_FOLDER
      BY <1>2, <1>c DEF CreateFolder, HasRoom, ChildrenOf
    <3>2. /\ Cardinality(index[parent].folders) \in Nat
          /\ Cardinality(index[parent].files) \in Nat
      BY <1>a, <1>b
    <3>3. \/ Cardinality(index'[parent].folders) = Cardinality(index[parent].folders)
          \/ Cardinality(index'[parent].folders) = Cardinality(index[parent].folders) + 1
      BY ZenonT(60), <1>a, <1>b, <2>1
    <3> QED BY <2>1, <3>1, <3>2, <3>3, LimitsAssumption
  <2>4. Cardinality({}) + Cardinality({}) <= MAX_ITEMS_PER_FOLDER
    BY <1>b, LimitsAssumption
  <2>5. ASSUME NEW f \in DOMAIN folders'
        PROVE  Cardinality(index'[f].folders) + Cardinality(index'[f].files)
                  <= MAX_ITEMS_PER_FOLDER
    <3>1. CASE f = n
      BY <2>1, <2>4, <3>1 DEF NoChildren
    <3>2. CASE f = parent
      BY <2>3, <3>2
    <3>3. CASE f # n /\ f # parent
      BY <1>0, <2>1, <3>3 DEF FewItems
    <3> QED BY <3>1, <3>2, <3>3
  <2>6. FewItems'
    BY <1>0, <2>1, <2>2, <2>5 DEF FewItems
  <2> QED BY <1>0, <1>2, <2>6, ShallowCreate
<1>3. ASSUME NEW name \in Requested, NEW parent \in DOMAIN folders,
             UploadFile(name, parent)
      PROVE  FewItems' /\ Shallow(folders')
  <2> DEFINE n == next_file_id
  <2>1. /\ DOMAIN files' = DOMAIN files \cup {n} /\ n \notin DOMAIN files
        /\ folders' = folders
        /\ index'[parent].files = index[parent].files \cup {n}
        /\ index'[parent].folders = index[parent].folders
        /\ \A f \in DOMAIN folders : f # parent => index'[f] = index[f]
    <3>1. index[parent] \in [folders : SUBSET Nat, files : SUBSET Nat]
      BY <1>c DEF Tree, TypeOK
    <3>2. n \notin DOMAIN files
      BY <1>0 DEF Shape
    <3> QED BY <1>3, <1>c, <3>1, <3>2 DEF UploadFile, Insert, ChildrenOf
  <2>2. Cardinality(DOMAIN files') <= MAX_FILES_PER_USER
    <3>1. Cardinality(DOMAIN files) < MAX_FILES_PER_USER
      BY <1>3 DEF UploadFile
    <3>2. Cardinality(DOMAIN files) \in Nat
      BY <1>a, <1>b
    <3>3. Cardinality(DOMAIN files') = Cardinality(DOMAIN files) + 1
      BY <1>a, <1>b, <2>1
    <3> QED BY <3>1, <3>2, <3>3, LimitsAssumption
  <2>3. Cardinality(index'[parent].folders) + Cardinality(index'[parent].files)
           <= MAX_ITEMS_PER_FOLDER
    <3>1. Cardinality(index[parent].folders) + Cardinality(index[parent].files)
             < MAX_ITEMS_PER_FOLDER
      BY <1>3, <1>c DEF UploadFile, HasRoom, ChildrenOf
    <3>2. /\ Cardinality(index[parent].folders) \in Nat
          /\ Cardinality(index[parent].files) \in Nat
      BY <1>a, <1>b
    <3>3. \/ Cardinality(index'[parent].files) = Cardinality(index[parent].files)
          \/ Cardinality(index'[parent].files) = Cardinality(index[parent].files) + 1
      BY ZenonT(60), <1>a, <1>b, <2>1
    <3> QED BY <2>1, <3>1, <3>2, <3>3, LimitsAssumption
  <2>4. FewItems'
    BY <1>0, <2>1, <2>2, <2>3 DEF FewItems
  <2> QED BY <1>0, <2>1, <2>4
<1>4. ASSUME NEW name \in Requested, NEW f \in DOMAIN files, RenameFile(f, name)
      PROVE  FewItems' /\ Shallow(folders')
  <2>1. DOMAIN files' = DOMAIN files /\ folders' = folders /\ index' = index
    BY <1>4 DEF RenameFile
  <2> QED BY <1>0, <2>1 DEF FewItems
<1>5. ASSUME NEW name \in Requested, NEW f \in DOMAIN folders, RenameFolder(f, name)
      PROVE  FewItems' /\ Shallow(folders')
  <2>1. files' = files /\ index' = index
    BY <1>5 DEF RenameFolder
  <2>2. /\ DOMAIN folders' = DOMAIN folders
        /\ \A g \in DOMAIN folders : folders'[g].parent = folders[g].parent
    BY <1>5, TreeRenameFolder
  <2>3. FewItems'
    BY <1>0, <2>1, <2>2 DEF FewItems
  <2>4. \A g \in DOMAIN folders' : folders[g].parent \in DOMAIN folders' \cup {0}
    BY <1>0, <2>2 DEF Shape
  <2> QED BY <1>0, <2>2, <2>3, <2>4, ShallowKeeps
<1>6. ASSUME NEW f \in DOMAIN files, DeleteFile(f)
      PROVE  FewItems' /\ Shallow(folders')
  <2>1. folders' = folders /\ DOMAIN files' \in SUBSET DOMAIN files
    BY <1>6 DEF DeleteFile, RemoveKeys
  <2>2. \A d \in DOMAIN folders : /\ index'[d].folders = index[d].folders
                                  /\ index'[d].files \in SUBSET index[d].files
    BY <1>6, <1>c, TreeDeleteFile
  <2>3. Cardinality(DOMAIN files') <= MAX_FILES_PER_USER
    <3>1. /\ Cardinality(DOMAIN files') <= Cardinality(DOMAIN files)
          /\ Cardinality(DOMAIN files') \in Nat /\ Cardinality(DOMAIN files) \in Nat
      BY <1>a, <1>b, <2>1
    <3> QED BY <1>0, <3>1, LimitsAssumption DEF FewItems
  <2>4. ASSUME NEW d \in DOMAIN folders
        PROVE  Cardinality(index'[d].folders) + Cardinality(index'[d].files)
                  <= MAX_ITEMS_PER_FOLDER
    <3>1. /\ Cardinality(index'[d].files) <= Cardinality(index[d].files)
          /\ Cardinality(index'[d].files) \in Nat /\ Cardinality(index[d].files) \in Nat
          /\ Cardinality(index[d].folders) \in Nat
      BY <1>a, <1>b, <2>2
    <3>2. Cardinality(index[d].folders) + Cardinality(index[d].files)
             <= MAX_ITEMS_PER_FOLDER
      BY <1>0 DEF FewItems
    <3>3. Cardinality(index'[d].folders) = Cardinality(index[d].folders)
      BY <2>2
    <3> QED BY <3>1, <3>2, <3>3, LimitsAssumption
  <2> QED BY <1>0, <2>1, <2>3, <2>4 DEF FewItems
<1>7. ASSUME NEW f \in DOMAIN folders, DeleteFolder(f)
      PROVE  FewItems' /\ Shallow(folders')
  <2>1. /\ DOMAIN folders' = DOMAIN folders \ {f}
        /\ \A d \in DOMAIN folders' : /\ folders'[d] = folders[d]
                                      /\ folders[d].parent # f
                                      /\ index'[d].folders \in SUBSET index[d].folders
                                      /\ index'[d].files = index[d].files
    BY <1>7, TreeDeleteFolder
  <2>2. files' = files
    BY <1>7 DEF DeleteFolder
  <2>3. Cardinality(DOMAIN folders') <= MAX_FOLDERS_PER_USER
    <3>1. DOMAIN folders' \in SUBSET DOMAIN folders
      BY <2>1
    <3>2. /\ Cardinality(DOMAIN folders') <= Cardinality(DOMAIN folders)
          /\ Cardinality(DOMAIN folders') \in Nat /\ Cardinality(DOMAIN folders) \in Nat
      BY <1>a, <1>b, <3>1
    <3> QED BY <1>0, <3>2, LimitsAssumption DEF FewItems
  <2>4. ASSUME NEW d \in DOMAIN folders'
        PROVE  Cardinality(index'[d].folders) + Cardinality(index'[d].files)
                  <= MAX_ITEMS_PER_FOLDER
    <3>0. d \in DOMAIN folders
      BY <2>1
    <3>1. /\ Cardinality(index'[d].folders) <= Cardinality(index[d].folders)
          /\ Cardinality(index'[d].folders) \in Nat
          /\ Cardinality(index[d].folders) \in Nat /\ Cardinality(index[d].files) \in Nat
      BY <1>a, <1>b, <2>1, <3>0
    <3>2. Cardinality(index[d].folders) + Cardinality(index[d].files)
             <= MAX_ITEMS_PER_FOLDER
      BY <1>0, <3>0 DEF FewItems
    <3>3. Cardinality(index'[d].files) = Cardinality(index[d].files)
      BY <2>1
    <3> QED BY <3>1, <3>2, <3>3, LimitsAssumption
  <2>5. FewItems'
    BY <1>0, <2>2, <2>3, <2>4 DEF FewItems
  <2>6. \A g \in DOMAIN folders' : folders[g].parent \in DOMAIN folders' \cup {0}
    BY <1>0, <2>1 DEF Shape
  <2> QED BY <1>0, <2>1, <2>5, <2>6, ShallowKeeps
<1>8. CASE UNCHANGED vars
  BY <1>0, <1>8 DEF vars, FewItems
<1> QED BY <1>1, <1>2, <1>3, <1>4, <1>5, <1>6, <1>7, <1>8 DEF Next

\* There are no items to count at first.
LEMMA LimitsInit == Init => LimitsHold
<1> SUFFICES ASSUME Init PROVE LimitsHold
  OBVIOUS
<1>1. DOMAIN files = {} /\ DOMAIN folders = {}
  BY DEF Init, EmptyMap
<1> QED BY <1>1, FS_EmptySet, LimitsAssumption DEF LimitsHold

\* The maps agree with the links and the limits hold, however names are padded.
LEMMA Invariance == Spec => [](Tree /\ LimitsHold)
<1>1. Tree /\ LimitsHold /\ [Next]_vars => (Tree /\ LimitsHold)'
  BY TreeStep, LimitsStep
<1> QED BY <1>1, TreeInit, LimitsInit, PTL DEF Spec

\* Whatever the owner calls, the contents index lists exactly the items whose
\* parent a folder is, nothing hangs under a folder that is gone, and every
\* file record has its bytes.
THEOREM IndexExact == Spec => []IndexIsExact
<1>1. Tree => IndexIsExact
  BY DEF Tree
<1> QED BY <1>1, Invariance, PTL

\* No sequence of calls exceeds a limit of config.rs, and every folder reaches
\* the top within MAX_FS_DEPTH steps: the parent links have no cycle.
THEOREM LimitsKept == Spec => []LimitsHold
BY Invariance, PTL

-----------------------------------------------------------------------------
(***************************************************************************)
(* Names.  The collision check compares the name as it was sent, the       *)
(* record keeps the trimmed one: they are the same for a folder that the   *)
(* front end creates or renames.                                           *)
(***************************************************************************)
\* Trimming a trimmed name changes nothing.
LEMMA TrimmedName == ASSUME NEW name \in Trimmed PROVE name \in Requested /\ Trim(name) = name
BY DEF Trimmed, Requested, Trim

\* No request of the front end gives a folder the name of another one beside it.
LEMMA NamesStep ==
    Tree /\ NamesAreUnique /\ [ClientNext]_vars => NamesAreUnique'
<1> SUFFICES ASSUME Tree, NamesAreUnique, [ClientNext]_vars PROVE NamesAreUnique'
  OBVIOUS
<1>a. Shape
  BY TreeMeaning
<1>b. DOMAIN index = DOMAIN folders
  BY DEF Tree, IndexIsExact
<1>c. \A f \in DOMAIN folders : folders[f] \in [name : Name, parent : Nat]
  BY DEF Tree, TypeOK, Item
<1>1. CASE FinalizeRegistration
  <2>1. DOMAIN folders' = {next_folder_id} /\ files' = files
    BY <1>1 DEF Tree, RootIsFirst, FinalizeRegistration, Insert
  <2> QED BY <2>1 DEF NamesAreUnique
<1>2. ASSUME NEW name \in Trimmed, NEW parent \in DOMAIN folders,
             CreateFolder(name, parent)
      PROVE  NamesAreUnique'
  <2> DEFINE n == next_folder_id
  <2>1. /\ DOMAIN folders' = DOMAIN folders \cup {n} /\ n \notin DOMAIN folders
        /\ folders'[n].name = name /\ folders'[n].parent = parent
        /\ \A f \in DOMAIN folders : folders'[f] = folders[f]
    BY <1>2, <1>a, TrimmedName DEF CreateFolder, Insert, Shape
  <2>2. \A f \in DOMAIN folders : folders[f].parent = parent => folders[f].name # name
    BY <1>2, <1>b DEF CreateFolder, Collides, ChildrenOf, Tree, IndexIsExact
  <2> QED BY <2>1, <2>2 DEF NamesAreUnique
<1>3. CASE UNCHANGED folders
  BY <1>3 DEF NamesAreUnique
<1>5. ASSUME NEW name \in Trimmed, NEW f \in DOMAIN folders, RenameFolder(f, name)
      PROVE  NamesAreUnique'
  <2>1. /\ DOMAIN folders' = DOMAIN folders
        /\ folders'[f].name = name /\ folders'[f].parent = folders[f].parent
        /\ \A g \in DOMAIN folders : g # f => folders'[g] = folders[g]
    BY <1>5, <1>c, TrimmedName DEF RenameFolder
  <2>2. CASE folders[f].parent \in DOMAIN folders
    <3>1. \A g \in DOMAIN folders : folders[g].parent = folders[f].parent
                                       => folders[g].name # name
      BY <1>5, <1>b, <2>2 DEF RenameFolder, Collides, ChildrenOf, Tree, IndexIsExact
    <3> QED BY <2>1, <3>1 DEF NamesAreUnique
  <2>3. CASE folders[f].parent \notin DOMAIN folders
    <3>1. \A g \in DOMAIN folders : folders[g].parent = folders[f].parent => g = f
      BY <2>3 DEF Tree, IndexIsExact
    <3> QED BY <2>1, <3>1 DEF NamesAreUnique
  <2> QED BY <2>2, <2>3
<1>6. ASSUME NEW f \in DOMAIN folders, DeleteFolder(f)
      PROVE  NamesAreUnique'
  BY <1>6 DEF DeleteFolder, RemoveKeys, NamesAreUnique
<1>7. CASE UNCHANGED vars
  BY <1>3, <1>7 DEF vars
<1>8. ASSUME NEW name \in Requested, NEW parent \in DOMAIN folders, UploadFile(name, parent)
      PROVE  UNCHANGED folders
  BY <1>8 DEF UploadFile
<1>9. ASSUME NEW name \in Trimmed, NEW f \in DOMAIN files, RenameFile(f, name) PROVE UNCHANGED folders
  BY <1>9 DEF RenameFile
<1>10. ASSUME NEW f \in DOMAIN files, DeleteFile(f) PROVE UNCHANGED folders
  BY <1>10 DEF DeleteFile
<1> QED BY <1>1, <1>2, <1>3, <1>5, <1>6, <1>7, <1>8, <1>9, <1>10 DEF ClientNext

\* A request of the front end is a request.
LEMMA ClientSteps == [ClientNext]_vars => [Next]_vars
BY TrimmedName DEF ClientNext, Next

-----------------------------------------------------------------------------
(***************************************************************************)
(* Paths.                                                                  *)
(***************************************************************************)
\* The first of one is that one.
LEMMA FirstOfOne == ASSUME NEW g \in Nat PROVE First({g}) = g
<1>1. \E i \in {g} : \A k \in {g} : i <= k
  OBVIOUS
<1>2. (CHOOSE i \in {g} : \A k \in {g} : i <= k) = g
  BY <1>1
<1> QED BY <1>2 DEF First

\* The first of some numbers is one of them.
LEMMA FirstOfSome == ASSUME NEW S \in SUBSET Nat, S # {} PROVE First(S) \in S
<1>1. PICK i \in S : \A k \in S : i <= k
  BY LeastNat
<1>2. (CHOOSE j \in S : \A k \in S : j <= k) \in S
  BY <1>1
<1> QED BY <1>2 DEF First

\* Under its parent a folder is found by its name, and a file, or one like it.
LEMMA FoundByName ==
    ASSUME Tree, NamesAreUnique
    PROVE  /\ \A g \in DOMAIN folders : folders[g].parent \in DOMAIN folders
                 => FolderNamed(folders[g].parent, folders[g].name) = g
           /\ \A g \in DOMAIN files : LET h == FileNamed(files[g].parent, files[g].name)
                                     IN  h \in DOMAIN files /\ files[h] = files[g]
<1>a. DOMAIN index = DOMAIN folders
  BY DEF Tree, IndexIsExact
<1>1. ASSUME NEW g \in DOMAIN folders, folders[g].parent \in DOMAIN folders
      PROVE  FolderNamed(folders[g].parent, folders[g].name) = g
  <2>1. {f \in ChildrenOf(folders[g].parent).folders :
            f \in DOMAIN folders /\ folders[f].name = folders[g].name} = {g}
    BY <1>1, <1>a DEF ChildrenOf, Tree, IndexIsExact, NamesAreUnique
  <2>2. g \in Nat
    BY DEF Tree, TypeOK
  <2> QED BY <2>1, <2>2, FirstOfOne DEF FolderNamed
<1>2. ASSUME NEW g \in DOMAIN files, NEW h, h = FileNamed(files[g].parent, files[g].name)
      PROVE  h \in DOMAIN files /\ files[h] = files[g]
  <2> DEFINE S == {f \in ChildrenOf(files[g].parent).files :
                      f \in DOMAIN files /\ files[f].name = files[g].name}
  <2>1. S = {f \in DOMAIN files : files[f].parent = files[g].parent /\ files[f].name = files[g].name}
    BY <1>a DEF ChildrenOf, Tree, IndexIsExact
  <2>2. h = First(S)
    BY <1>2 DEF FileNamed
  <2>3. S \in SUBSET Nat /\ S # {}
    BY <2>1 DEF Tree, TypeOK
  <2> HIDE DEF S
  <2>4. h \in S
    BY <2>2, <2>3, FirstOfSome
  <2>5. h \in DOMAIN files /\ files[h].parent = files[g].parent /\ files[h].name = files[g].name
    BY <2>1, <2>4
  <2>6. files[h] \in [name : Name, parent : Nat] /\ files[g] \in [name : Name, parent : Nat]
    BY <2>5 DEF Tree, TypeOK, Item
  <2> QED BY <2>5, <2>6
<1> QED BY <1>1, <1>2

\* A walk down that takes the steps of resolve_path is the one it takes.
LEMMA ResolveIs ==
    ASSUME NEW path, NEW n \in Nat, Len(path) = n, NEW w,
           w[0] = root_folder_id,
           \A k \in 1 .. n : w[k] = FolderNamed(w[k - 1], path[k])
    PROVE  /\ w[n] # None => ResolvePath(path) = [kind |-> "Folder", id |-> w[n]]
           /\ n # 0 /\ w[n] = None => ResolvePath(path)
                 = [kind |-> "File", id |-> FileNamed(w[n - 1], path[n])]
<1> DEFINE IsAt(at) == at = [k \in 0 .. n |-> IF k = 0 THEN root_folder_id
                                              ELSE FolderNamed(at[k - 1], path[k])]
           At == CHOOSE at : IsAt(at)
           v == [k \in 0 .. n |-> w[k]]
<1>1. ResolvePath(path) = IF At[n] # None THEN [kind |-> "Folder", id |-> At[n]]
                          ELSE [kind |-> "File", id |-> FileNamed(At[n - 1], path[n])]
  BY DEF ResolvePath
<1>2. IsAt(v)
  <2>1. ASSUME NEW k \in 0 .. n
        PROVE  w[k] = IF k = 0 THEN root_folder_id ELSE FolderNamed(v[k - 1], path[k])
    <3>1. CASE k = 0
      BY <3>1
    <3>2. CASE k # 0
      <4>1. k \in 1 .. n /\ k - 1 \in 0 .. n
        BY <3>2
      <4>2. v[k - 1] = w[k - 1]
        BY <4>1
      <4> QED BY <3>2, <4>1, <4>2
    <3> QED BY <3>1, <3>2
  <2>2. v = [k \in 0 .. n |-> IF k = 0 THEN root_folder_id
                              ELSE FolderNamed(v[k - 1], path[k])]
    BY <2>1
  <2> QED BY <2>2
<1> HIDE DEF IsAt, v
<1>3. IsAt(At)
  BY <1>2, Zenon
<1> HIDE DEF At
<1>4. At = [k \in 0 .. n |-> IF k = 0 THEN root_folder_id
                             ELSE FolderNamed(At[k - 1], path[k])]
  BY <1>3 DEF IsAt
<1> DEFINE Bad == {k \in 0 .. n : At[k] # w[k]}
<1>5. Bad = {}
  <2>1. SUFFICES ASSUME Bad # {} PROVE FALSE
    BY <2>1
  <2>2. PICK k \in Bad : \A m \in Bad : k <= m
    <3>1. Bad \in SUBSET Nat
      OBVIOUS
    <3> HIDE DEF Bad
    <3> QED BY <2>1, <3>1, LeastNat
  <2>3. k # 0
    BY <1>4, <2>2
  <2>4. k \in 1 .. n /\ k - 1 \in 0 .. n /\ ~(k <= k - 1)
    BY <2>2, <2>3
  <2>5. At[k - 1] = w[k - 1]
    BY <2>2, <2>4
  <2>6. At[k] = FolderNamed(At[k - 1], path[k])
    BY <1>4, <2>3, <2>4
  <2> QED BY <2>2, <2>4, <2>5, <2>6
<1>6. At[n] = w[n] /\ (n # 0 => At[n - 1] = w[n - 1])
  BY <1>5
<1> QED BY <1>1, <1>6

DepthOf(f) == CHOOSE k \in 0 .. MAX_FS_DEPTH : Ancestor(f, k) = root_folder_id

\* Every folder has the root above it, and only folders in between.
LEMMA RootAbove ==
    ASSUME Tree, LimitsHold, NEW f \in DOMAIN folders
    PROVE  /\ DepthOf(f) \in 0 .. MAX_FS_DEPTH
           /\ Ancestor(f, DepthOf(f)) = root_folder_id
           /\ Ancestor(f, 0) = f
           /\ \A k \in 0 .. DepthOf(f) : Ancestor(f, k) \in DOMAIN folders
           /\ \A k \in 0 .. DepthOf(f) - 1 :
                 folders[Ancestor(f, k)].parent = Ancestor(f, k + 1)
<1> DEFINE A(k) == AncestorIn(folders, f, k)
<1>a. \A k : Ancestor(f, k) = A(k)
  BY DEF Ancestor, AncestorIn
<1>b. /\ Linked(folders) /\ f \in Nat /\ 0 \notin DOMAIN folders
      /\ MAX_FS_DEPTH \in Nat /\ 0 \in Nat
  BY TreeMeaning, LimitsAssumption DEF Shape, Linked
<1>c. A(0) = f /\ \A k \in Nat : A(k + 1) = Up(folders, A(k))
  BY <1>b, AncestorStep
<1>d. A(MAX_FS_DEPTH) = 0
  BY LimitsMeaning DEF Shallow
<1>e. \A k \in Nat : A(k) \notin DOMAIN folders =>
         \A n \in Nat : k <= n => A(n) = A(k)
  BY <1>b, AncestorStays
<1> DEFINE Out == {k \in Nat : A(k) \notin DOMAIN folders}
<1> HIDE DEF A
<1>1. PICK k \in Out : \A m \in Out : k <= m
  <2>1. MAX_FS_DEPTH \in Out /\ Out \in SUBSET Nat
    BY <1>b, <1>d
  <2> HIDE DEF Out
  <2> QED BY <2>1, LeastNat
<1>2. k \in Nat \ {0} /\ k <= MAX_FS_DEPTH
  BY <1>1, <1>b, <1>c, <1>d
<1>3. PICK j \in Nat : k = j + 1
  <2>1. k - 1 \in Nat /\ k = (k - 1) + 1
    BY <1>2
  <2> QED BY <2>1
<1>4. A(j) \in DOMAIN folders /\ j \in 0 .. MAX_FS_DEPTH
  BY <1>1, <1>2, <1>3, <1>b
<1>5. A(j) = root_folder_id
  <2>1. folders[A(j)].parent \notin DOMAIN folders
    BY <1>1, <1>3, <1>4, <1>c DEF Up
  <2> QED BY <1>4, <2>1 DEF Tree, IndexIsExact
<1>6. DepthOf(f) \in 0 .. MAX_FS_DEPTH /\ A(DepthOf(f)) = root_folder_id
  BY <1>4, <1>5, <1>a DEF DepthOf
<1> DEFINE d == DepthOf(f)
<1> HIDE DEF d
<1>7. d \in Nat /\ A(d) \in DOMAIN folders
  BY <1>4, <1>5, <1>6, <1>b DEF d
<1>8. ASSUME NEW i \in 0 .. d
      PROVE  A(i) \in DOMAIN folders
  <2>1. SUFFICES ASSUME A(i) \notin DOMAIN folders PROVE FALSE
    BY <2>1
  <2>2. A(d) = A(i)
    BY <1>7, <1>e, <2>1
  <2> QED BY <1>7, <2>1, <2>2
<1>9. ASSUME NEW i \in 0 .. d - 1
      PROVE  folders[A(i)].parent = A(i + 1)
  <2>1. i \in Nat /\ i \in 0 .. d
    BY <1>7
  <2>2. A(i) \in DOMAIN folders /\ A(i + 1) = Up(folders, A(i))
    BY <1>8, <1>c, <2>1
  <2> QED BY <2>2 DEF Up
<1> QED BY <1>6, <1>8, <1>9, <1>a, <1>c DEF d

\* PathTo is the names from below the root down to the folder.
LEMMA PathShape ==
    ASSUME Tree, LimitsHold, NEW f \in DOMAIN folders
    PROVE  /\ PathTo(f) \in Seq(Name) /\ Len(PathTo(f)) = DepthOf(f)
           /\ \A i \in 1 .. DepthOf(f) :
                 PathTo(f)[i] = folders[Ancestor(f, DepthOf(f) - i)].name
<1> DEFINE d == DepthOf(f)
           names == [i \in 1 .. d |-> folders[Ancestor(f, d - i)].name]
<1>1. PathTo(f) = names
  BY DEF PathTo, DepthOf
<1>2. d \in Nat /\ \A i \in 1 .. d : folders[Ancestor(f, d - i)].name \in Name
  <2>1. d \in Nat
    BY RootAbove, LimitsAssumption
  <2>2. ASSUME NEW i \in 1 .. d
        PROVE  folders[Ancestor(f, d - i)].name \in Name
    <3>1. d - i \in 0 .. d
      BY <2>1
    <3>2. Ancestor(f, d - i) \in DOMAIN folders
      BY <3>1, RootAbove
    <3> QED BY <3>2 DEF Tree, TypeOK, Item
  <2> QED BY <2>1, <2>2
<1> HIDE DEF d
<1>3. names \in Seq(Name) /\ Len(names) = d
  BY <1>2
<1> QED BY <1>1, <1>3 DEF d

\* resolve_path finds every folder, and every file that no folder hides, under
\* the names that lead to it.
LEMMA PathsFollow == Tree /\ LimitsHold /\ NamesAreUnique => PathsResolve
<1> SUFFICES ASSUME Tree, LimitsHold, NamesAreUnique PROVE PathsResolve
  OBVIOUS
<1>a. 0 \notin DOMAIN folders
  BY TreeMeaning DEF Shape
<1>1. ASSUME NEW f \in DOMAIN folders
      PROVE  LET d == DepthOf(f)
             IN  \A k \in 1 .. d : Ancestor(f, d - k)
                    = FolderNamed(Ancestor(f, d - (k - 1)), PathTo(f)[k])
  <2> DEFINE d == DepthOf(f)
  <2>1. d \in Nat
    BY RootAbove, LimitsAssumption
  <2> HIDE DEF d
  <2>2. ASSUME NEW k \in 1 .. d
        PROVE  Ancestor(f, d - k) = FolderNamed(Ancestor(f, d - (k - 1)), PathTo(f)[k])
    <3> DEFINE g == Ancestor(f, d - k)
    <3>1. /\ d - k \in 0 .. d /\ d - k \in 0 .. d - 1
          /\ (d - k) + 1 \in 0 .. d /\ d - (k - 1) = (d - k) + 1
      BY <2>1
    <3>2. g \in DOMAIN folders
      BY <3>1, RootAbove DEF d
    <3>3. /\ folders[g].parent = Ancestor(f, (d - k) + 1)
          /\ Ancestor(f, (d - k) + 1) \in DOMAIN folders
      BY <3>1, RootAbove DEF d
    <3>4. PathTo(f)[k] = folders[g].name
      BY PathShape DEF d
    <3>5. Ancestor(f, d - (k - 1)) = Ancestor(f, (d - k) + 1)
      BY <3>1
    <3> HIDE DEF g
    <3>6. FolderNamed(folders[g].parent, folders[g].name) = g
      BY <3>2, <3>3, FoundByName
    <3> QED BY <3>3, <3>4, <3>5, <3>6 DEF g
  <2> QED BY <2>2 DEF d
<1>2. ASSUME NEW f \in DOMAIN folders
      PROVE  ResolvePath(PathTo(f)) = [kind |-> "Folder", id |-> f]
  <2> DEFINE d == DepthOf(f)
             w == [k \in 0 .. d |-> Ancestor(f, d - k)]
  <2>1. d \in Nat /\ Ancestor(f, d) = root_folder_id /\ Ancestor(f, 0) = f
    BY RootAbove, LimitsAssumption
  <2>2. \A k \in 1 .. d : Ancestor(f, d - k)
           = FolderNamed(Ancestor(f, d - (k - 1)), PathTo(f)[k])
    BY <1>1
  <2>3. Len(PathTo(f)) = d
    BY PathShape
  <2> HIDE DEF d
  <2>4. d - 0 = d /\ d - d = 0 /\ 0 \in 0 .. d /\ d \in 0 .. d
    BY <2>1
  <2>5. w[0] = root_folder_id /\ w[d] = f
    BY <2>1, <2>4
  <2>6. \A k \in 1 .. d : w[k] = FolderNamed(w[k - 1], PathTo(f)[k])
    <3> SUFFICES ASSUME NEW k \in 1 .. d
                 PROVE  w[k] = FolderNamed(w[k - 1], PathTo(f)[k])
      OBVIOUS
    <3>1. k \in 0 .. d /\ k - 1 \in 0 .. d
      BY <2>1
    <3>2. w[k] = Ancestor(f, d - k) /\ w[k - 1] = Ancestor(f, d - (k - 1))
      BY <3>1
    <3> QED BY <2>2, <3>2
  <2> HIDE DEF w
  <2>7. w[d] # None
    BY <1>a, <2>5 DEF None
  <2> QED BY <2>1, <2>3, <2>5, <2>6, <2>7, ResolveIs
<1>3. ASSUME NEW g \in DOMAIN files,
             FolderNamed(files[g].parent, files[g].name) = None
      PROVE  \E h \in DOMAIN files :
                /\ files[h] = files[g]
                /\ ResolvePath(Append(PathTo(files[g].parent), files[g].name)) = [kind |-> "File", id |-> h]
  <2> DEFINE f == files[g].parent
             name == files[g].name
             path == Append(PathTo(f), name)
             d == DepthOf(f)
             w == [k \in 0 .. d + 1 |-> IF k = d + 1 THEN None ELSE Ancestor(f, d - k)]
  <2>0. f \in DOMAIN folders /\ name \in Name
    BY DEF Tree, IndexIsExact, TypeOK, Item
  <2> HIDE DEF f, name
  <2>1. d \in Nat /\ Ancestor(f, d) = root_folder_id /\ Ancestor(f, 0) = f
    BY <2>0, RootAbove, LimitsAssumption
  <2>2. \A k \in 1 .. d : Ancestor(f, d - k)
           = FolderNamed(Ancestor(f, d - (k - 1)), PathTo(f)[k])
    BY <1>1, <2>0
  <2>3. PathTo(f) \in Seq(Name) /\ Len(PathTo(f)) = d
    BY <2>0, PathShape
  <2> HIDE DEF d
  <2>4. /\ Len(path) = d + 1 /\ path[d + 1] = name
        /\ \A k \in 1 .. d : path[k] = PathTo(f)[k]
    BY <2>0, <2>1, <2>3
  <2>5. /\ w[0] = root_folder_id /\ w[d] = f /\ w[d + 1] = None
        /\ \A k \in 0 .. d : w[k] = Ancestor(f, d - k)
    <3>1. d - 0 = d /\ d - d = 0 /\ 0 \in 0 .. d /\ d \in 0 .. d
      BY <2>1
    <3>2. \A k \in 0 .. d : k \in 0 .. d + 1 /\ k # d + 1
      BY <2>1
    <3>3. d + 1 \in 0 .. d + 1
      BY <2>1
    <3> QED BY <2>1, <3>1, <3>2, <3>3
  <2> HIDE DEF w, path
  <2>6. ASSUME NEW k \in 1 .. d + 1
        PROVE  w[k] = FolderNamed(w[k - 1], path[k])
    <3>1. CASE k = d + 1
      <4>1. k - 1 = d
        BY <2>1, <3>1
      <4>2. FolderNamed(f, name) = None
        BY <1>3 DEF f, name
      <4> QED BY <2>4, <2>5, <3>1, <4>1, <4>2
    <3>2. CASE k # d + 1
      <4>1. k \in 1 .. d /\ k \in 0 .. d /\ k - 1 \in 0 .. d
        BY <2>1, <3>2
      <4>2. w[k] = Ancestor(f, d - k) /\ w[k - 1] = Ancestor(f, d - (k - 1))
        BY <2>5, <4>1
      <4> QED BY <2>2, <2>4, <4>1, <4>2
    <3> QED BY <3>1, <3>2
  <2>7. d + 1 \in Nat /\ d + 1 # 0 /\ (d + 1) - 1 = d
    BY <2>1
  <2>8. ResolvePath(path) = [kind |-> "File", id |-> FileNamed(w[d], path[d + 1])]
    <3>1. PICK n : n = d + 1
      OBVIOUS
    <3>2. /\ n \in Nat /\ n # 0 /\ n - 1 = d /\ Len(path) = n
          /\ w[0] = root_folder_id /\ w[n] = None
          /\ \A k \in 1 .. n : w[k] = FolderNamed(w[k - 1], path[k])
      BY <2>4, <2>5, <2>6, <2>7, <3>1
    <3>3. ResolvePath(path) = [kind |-> "File", id |-> FileNamed(w[n - 1], path[n])]
      BY <3>2, ResolveIs
    <3> QED BY <3>1, <3>2, <3>3
  <2>9. PICK h : h = FileNamed(f, name)
    OBVIOUS
  <2>10. h \in DOMAIN files /\ files[h] = files[g]
    BY <2>9, FoundByName DEF f, name
  <2>11. ResolvePath(path) = [kind |-> "File", id |-> h]
    BY <2>4, <2>5, <2>8, <2>9
  <2> QED BY <2>10, <2>11 DEF path, f, name
<1> QED BY <1>2, <1>3 DEF PathsResolve

\* Used through the front end, the file system of a user is a tree within the
\* limits, described by its indexes, without two folders of one name beside each
\* other, whose paths resolve, whatever the names of the files that are uploaded.
THEOREM TreeSound == ClientSpec => []TreeIsSound
<1> DEFINE Inv == Tree /\ LimitsHold /\ NamesAreUnique
<1>1. Init => NamesAreUnique
  BY DEF Init, NamesAreUnique, EmptyMap
<1>2. Inv /\ [ClientNext]_vars => Inv'
  BY ClientSteps, TreeStep, LimitsStep, NamesStep
<1>3. Init => Inv
  BY <1>1, TreeInit, LimitsInit
<1>4. Inv => TreeIsSound
  BY PathsFollow DEF TreeIsSound, Tree
<1> HIDE DEF Inv
<1> QED BY <1>2, <1>3, <1>4, PTL DEF ClientSpec
=============================================================================
