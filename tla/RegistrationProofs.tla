------------------------- MODULE RegistrationProofs -------------------------
(***************************************************************************)
(* Proofs about Registration, for any principals, timeouts and bounds.     *)
(*                                                                         *)
(* Both theorems hold for any number of operations under way at once: that *)
(* the maps hold what their types say, and that nothing that may expire is *)
(* forgotten by the garbage collection.                                    *)
(***************************************************************************)
EXTENDS Registration, FiniteSetTheorems, WellFoundedInduction, TLAPS

(***************************************************************************)
(* Lemmas about the operators.                                             *)
(***************************************************************************)
\* The least of a set of numbers that is not empty is one of them.
LEMMA LeastIn ==
    ASSUME NEW S \in SUBSET Nat, S # {}
    PROVE  Least(S) \in S /\ \A y \in S : Least(S) <= y
<1> DEFINE R == OpToRel(<, Nat)
<1>1. IsWellFoundedOn(R, Nat)
  BY NatLessThanWellFounded
<1>2. \A x, y \in Nat : <<x, y>> \in R <=> x < y
  BY DEF OpToRel
<1> HIDE DEF R
<1>3. PICK n \in S : \A m \in S : ~(<<m, n>> \in R)
  BY <1>1, WFMin
<1>4. ASSUME NEW m \in S
      PROVE  n <= m
  <2>1. m \in Nat /\ n \in Nat /\ ~(m < n)
    BY <1>2, <1>3
  <2> QED BY <2>1
<1> QED BY <1>4 DEF Least

-----------------------------------------------------------------------------
(***************************************************************************)
(* Types.  The pool is 1 .. k because AddCanister numbers canisters by     *)
(* the size of the pool, and what a frame is at says what it holds.        *)
(***************************************************************************)
UserRecord(P) == [canister : P, status : {"Pending", "Active"}, ts : Times]
PoolRecord == [owner : Principals \cup {None},
               expires : 0 .. MAX_TIME + TRIAL_CANISTER_EXPIRY]

UsersOK(us, P) ==
    DOMAIN us \subseteq Principals /\ \A p \in DOMAIN us : us[p] \in UserRecord(P)
PoolOK(po) ==
    /\ \E k \in 0 .. MAX_CANISTERS : DOMAIN po = 1 .. k
    /\ \A c \in DOMAIN po : po[c] \in PoolRecord

Uninstalling(f) == f.pc \in {"uninstall", "uninstalled"}
Installing(f) == f.pc \in {"install", "installed"}

FrameOK(f, P) ==
    /\ f \in Frames
    /\ Uninstalling(f) => /\ f.canister \in P /\ f.job # "none"
                          /\ f.job = "register" => f.user \in Principals
    /\ Installing(f) => f.canister \in P /\ f.user \in Principals
    /\ f.pc = "create" => f.creates # 0
    /\ f.trials \subseteq P

OpsOK(os, P) == os \in [Operations -> Frames] /\ \A o \in Operations : FrameOK(os[o], P)

CanistersOK ==
    /\ wasm \in [Canisters -> BOOLEAN]
    /\ owner \in [Canisters -> Principals \cup {None}]
    /\ finalizing \in [Principals -> [pc : {"idle", "verify", "confirm", "bind"},
                                      canister : Canisters \cup {None}]]

Typed ==
    /\ UsersOK(users, DOMAIN pool) /\ PoolOK(pool)
    /\ available \subseteq DOMAIN pool /\ DOMAIN trials \subseteq DOMAIN pool
    /\ DOMAIN pending \subseteq Principals /\ managers \subseteq Principals
    /\ OpsOK(ops, DOMAIN pool)
    /\ CanistersOK
    /\ now \in Times

\* Typed strengthens the type invariant.
LEMMA TypedIsTypeOK == Typed => TypeOK
BY RegistrationAssumption DEF Typed, TypeOK, UsersOK, PoolOK, OpsOK, CanistersOK,
   UserRecord, PoolRecord, Canisters

\* The pool holds canisters.
LEMMA PoolInCanisters == ASSUME NEW po, PoolOK(po) PROVE DOMAIN po \subseteq Canisters
<1>1. PICK k \in 0 .. MAX_CANISTERS : DOMAIN po = 1 .. k
  BY DEF PoolOK
<1> QED BY <1>1, RegistrationAssumption DEF Canisters

\* A frame that does nothing is well-formed.
LEMMA IdleOK == \A P : FrameOK(Idle, P)
BY RegistrationAssumption DEF FrameOK, Idle, Frames, Times, None, Uninstalling, Installing

\* Nothing is registered at first.
LEMMA TypedInit == Init => Typed
<1> SUFFICES ASSUME Init PROVE Typed
  OBVIOUS
<1>1. UsersOK(users, DOMAIN pool) /\ PoolOK(pool)
  <2>1. 0 \in 0 .. MAX_CANISTERS /\ 1 .. 0 = {}
    BY RegistrationAssumption
  <2> QED BY <2>1 DEF Init, EmptyMap, UsersOK, PoolOK
<1>2. OpsOK(ops, DOMAIN pool)
  BY IdleOK DEF Init, OpsOK, FrameOK
<1>3. CanistersOK /\ now \in Times
  BY RegistrationAssumption DEF Init, CanistersOK, NotFinalizing, None, Times
<1> QED BY <1>1, <1>2, <1>3 DEF Typed, Init, EmptyMap

\* A step that gives one operation a new frame.
LEMMA OpsStep ==
    ASSUME NEW os, NEW P, OpsOK(os, P), NEW Q, P \subseteq Q,
           NEW o \in Operations, NEW g, FrameOK(g, Q)
    PROVE  OpsOK([os EXCEPT ![o] = g], Q)
<1> DEFINE os2 == [os EXCEPT ![o] = g]
<1>1. os2 \in [Operations -> Frames] /\ os2[o] = g
      /\ \A q \in Operations : q # o => os2[q] = os[q]
  BY DEF OpsOK, FrameOK
<1>2. \A q \in Operations : FrameOK(os2[q], Q)
  <2> HIDE DEF os2
  <2> SUFFICES ASSUME NEW q \in Operations PROVE FrameOK(os2[q], Q)
    OBVIOUS
  <2>1. CASE q = o
    BY <1>1, <2>1
  <2>2. CASE q # o
    BY <1>1, <2>2 DEF OpsOK, FrameOK
  <2> QED BY <2>1, <2>2
<1> QED BY <1>1, <1>2 DEF OpsOK

\* Records are inserted and removed within their types.
LEMMA UsersInsert ==
    ASSUME NEW us, NEW P, UsersOK(us, P), NEW p \in Principals, NEW r \in UserRecord(P)
    PROVE  UsersOK(Insert(us, p, r), P)
BY DEF UsersOK, Insert

\* Removing users leaves well-formed records.
LEMMA UsersRemove ==
    ASSUME NEW us, NEW P, UsersOK(us, P), NEW K
    PROVE  UsersOK(RemoveKeys(us, K), P)
BY DEF UsersOK, RemoveKeys

\* A canister of the pool gets another record.
LEMMA PoolUpdate ==
    ASSUME NEW po, PoolOK(po), NEW c \in DOMAIN po, NEW r \in PoolRecord
    PROVE  PoolOK(Insert(po, c, r)) /\ DOMAIN Insert(po, c, r) = DOMAIN po
<1>1. DOMAIN Insert(po, c, r) = DOMAIN po
  BY DEF Insert
<1>2. \A d \in DOMAIN po : Insert(po, c, r)[d] \in PoolRecord
  BY DEF PoolOK, Insert
<1> QED BY <1>1, <1>2 DEF PoolOK

\* The record of a returned canister.
LEMMA ReturnedFacts ==
    ASSUME PoolOK(pool), NEW c \in DOMAIN pool
    PROVE  /\ PoolOK(ReturnedPool(c)) /\ DOMAIN ReturnedPool(c) = DOMAIN pool
           /\ ReturnedPool(c)[c] = [owner |-> None, expires |-> None]
           /\ \A d \in DOMAIN pool : d # c => ReturnedPool(c)[d] = pool[d]
<1> DEFINE free == [owner |-> None, expires |-> None]
<1>1. free \in PoolRecord
  BY RegistrationAssumption DEF PoolRecord, None
<1>2. ReturnedPool(c) = Insert(pool, c, free)
  BY DEF ReturnedPool
<1> HIDE DEF free
<1>3. PoolOK(Insert(pool, c, free)) /\ DOMAIN Insert(pool, c, free) = DOMAIN pool
  BY <1>1, PoolUpdate
<1>4. /\ Insert(pool, c, free)[c] = free
      /\ \A d \in DOMAIN pool : d # c => Insert(pool, c, free)[d] = pool[d]
  BY DEF Insert
<1> QED BY <1>2, <1>3, <1>4 DEF free

\* The pool grows by the next number, unowned and available.
LEMMA AddFacts ==
    ASSUME PoolOK(pool), AddCanister
    PROVE  \E c \in Canisters \ DOMAIN pool :
              /\ PoolOK(pool') /\ DOMAIN pool' = DOMAIN pool \cup {c}
              /\ pool'[c] = [owner |-> None, expires |-> None]
              /\ \A d \in DOMAIN pool : pool'[d] = pool[d]
              /\ available' = available \cup {c}
<1>1. PICK k \in 0 .. MAX_CANISTERS : DOMAIN pool = 1 .. k
  BY DEF PoolOK
<1>2. k \in Nat /\ 1 \in Int /\ k \in Int
  BY <1>1
<1>3. Cardinality(DOMAIN pool) = k
  BY <1>1, <1>2, FS_Interval
<1> DEFINE c == k + 1
<1>4. /\ c <= MAX_CANISTERS /\ available' = available \cup {c}
      /\ pool' = Insert(pool, c, [owner |-> None, expires |-> None])
  BY <1>3 DEF AddCanister
<1>5. c \in Canisters \ DOMAIN pool /\ c \in 0 .. MAX_CANISTERS /\ 1 .. c = DOMAIN pool \cup {c}
  BY <1>1, <1>2, <1>4, RegistrationAssumption DEF Canisters
<1>6. [owner |-> None, expires |-> None] \in PoolRecord
  BY RegistrationAssumption DEF PoolRecord, None
<1> HIDE DEF c
<1>7. /\ DOMAIN pool' = DOMAIN pool \cup {c}
      /\ pool'[c] = [owner |-> None, expires |-> None]
      /\ \A d \in DOMAIN pool : pool'[d] = pool[d]
  BY <1>4, <1>5 DEF Insert
<1>8. PoolOK(pool')
  BY <1>5, <1>6, <1>7 DEF PoolOK
<1> QED BY <1>4, <1>5, <1>7, <1>8

\* What allocation leaves in the pool and remembers.
AllocatedTo(g, p, avail) ==
    \/ g = Idle /\ available' = avail
    \/ /\ g # Idle /\ g.pc = "install" /\ g.user = p /\ g.users = {}
       /\ g.canister \in avail /\ available' = avail \ {g.canister}

\* Allocation takes the least available canister, if there is one.
LEMMA AllocateFacts ==
    ASSUME NEW o, NEW p \in Principals, NEW ts \in Times, NEW avail,
           NEW P, P \subseteq Canisters, avail \subseteq P, Allocate(o, p, ts, avail)
    PROVE  \E g : /\ ops' = [ops EXCEPT ![o] = g] /\ FrameOK(g, P)
                  /\ AllocatedTo(g, p, avail)
<1>1. CASE avail = {}
  BY <1>1, IdleOK DEF Allocate, AllocatedTo
<1>2. CASE avail # {}
  <2> DEFINE c == Least(avail)
             m == p \in managers
             g == [Idle EXCEPT !.pc = "install", !.job = "register", !.user = p,
                               !.ts = ts, !.canister = c, !.manager = m]
  <2>1. avail \in SUBSET Nat
    BY DEF Canisters
  <2>2. c \in avail
    BY <1>2, <2>1, LeastIn
  <2>3. available' = avail \ {c} /\ ops' = [ops EXCEPT ![o] = g]
    BY <1>2 DEF Allocate
  <2>m. m \in BOOLEAN
    OBVIOUS
  <2> HIDE DEF c, m
  <2>4. /\ g.pc = "install" /\ g.user = p /\ g.canister = c /\ g.users = {}
        /\ g.trials = {} /\ g.job = "register" /\ g.creates = 0
        /\ Idle.pc = "idle"
    BY DEF Idle
  <2>5. g \in Frames
    <3>1. Idle \in Frames
      BY IdleOK DEF FrameOK
    <3>2. c \in Canisters
      BY <2>2
    <3> QED BY <2>m, <3>1, <3>2 DEF Frames
  <2>6. g # Idle
    BY <2>4
  <2> HIDE DEF g
  <2>7. FrameOK(g, P)
    BY <2>2, <2>4, <2>5 DEF FrameOK, Uninstalling, Installing
  <2> QED BY <2>2, <2>3, <2>4, <2>6, <2>7 DEF AllocatedTo
<1> QED BY <1>1, <1>2

-----------------------------------------------------------------------------
\* The pool only grows, and what refers to it stays valid.
LEMMA PoolGrows ==
    ASSUME NEW P, NEW Q, P \subseteq Q
    PROVE  /\ \A us : UsersOK(us, P) => UsersOK(us, Q)
           /\ \A f : FrameOK(f, P) => FrameOK(f, Q)
           /\ \A os : OpsOK(os, P) => OpsOK(os, Q)
BY DEF UsersOK, UserRecord, FrameOK, OpsOK

\* register_user starts.
LEMMA TypedRegisterUser ==
    ASSUME Typed, NEW o \in Operations, NEW p \in Principals, RegisterUser(o, p)
    PROVE  Typed'
<1>a. DOMAIN pool \subseteq Canisters /\ now \in Times /\ available \subseteq DOMAIN pool
  BY PoolInCanisters DEF Typed
<1>b. UNCHANGED <<users, pool, trials, pending, managers, canisters, finalizing, now>>
  BY DEF RegisterUser
<1>1. CASE Allocate(o, p, now, available)
  <2>1. PICK g : /\ ops' = [ops EXCEPT ![o] = g] /\ FrameOK(g, DOMAIN pool)
                 /\ AllocatedTo(g, p, available)
    BY <1>1, <1>a, AllocateFacts
  <2>2. OpsOK(ops', DOMAIN pool)
    BY <2>1, OpsStep DEF Typed
  <2>3. available' \subseteq DOMAIN pool
    BY <1>a, <2>1 DEF AllocatedTo
  <2> QED BY <1>b, <2>2, <2>3 DEF Typed, canisters, CanistersOK
<1>2. ASSUME p \in DOMAIN users,
             ops' = [ops EXCEPT ![o] = [Idle EXCEPT
                        !.pc = "uninstall", !.job = "register", !.user = p,
                        !.ts = now, !.canister = users[p].canister]],
             available' = available
      PROVE  Typed'
  <2> DEFINE c == users[p].canister
             g == [Idle EXCEPT !.pc = "uninstall", !.job = "register", !.user = p,
                               !.ts = now, !.canister = c]
  <2>1. c \in DOMAIN pool /\ c \in Canisters
    BY <1>2, <1>a DEF Typed, UsersOK, UserRecord
  <2> HIDE DEF c
  <2>2. Idle \in Frames /\ Idle.trials = {}
    BY IdleOK DEF FrameOK, Idle
  <2>3. /\ g \in Frames /\ g.pc = "uninstall" /\ g.job = "register" /\ g.user = p
        /\ g.canister = c /\ g.trials = {}
    BY <1>a, <2>1, <2>2 DEF Frames
  <2>4. ops' = [ops EXCEPT ![o] = g]
    BY <1>2 DEF c
  <2> HIDE DEF g
  <2>5. FrameOK(g, DOMAIN pool)
    BY <2>1, <2>3 DEF FrameOK, Uninstalling, Installing
  <2>6. OpsOK(ops', DOMAIN pool)
    BY <2>4, <2>5, OpsStep DEF Typed
  <2> QED BY <1>2, <1>b, <2>6 DEF Typed, canisters, CanistersOK
<1> QED BY <1>1, <1>2 DEF RegisterUser

\* register_user goes on after uninstall_code.
LEMMA TypedRegisterReturned ==
    ASSUME Typed, NEW o \in Operations, RegisterReturned(o)
    PROVE  Typed'
<1> DEFINE f == ops[o]
           P == DOMAIN pool
<1>1. /\ P \subseteq Canisters
      /\ f.canister \in P /\ f.user \in Principals /\ f.ts \in Times
  BY PoolInCanisters DEF Typed, OpsOK, FrameOK, Frames, RegisterReturned, Uninstalling
<1>2. /\ pool' = ReturnedPool(f.canister)
      /\ trials' = RemoveKeys(trials, {f.canister})
      /\ users' = RemoveKeys(users, {f.user})
      /\ Allocate(o, f.user, f.ts, available \cup {f.canister})
      /\ UNCHANGED <<pending, managers, canisters, finalizing, now>>
  BY DEF RegisterReturned
<1>3. PoolOK(pool') /\ DOMAIN pool' = P
  BY <1>1, <1>2, ReturnedFacts DEF Typed
<1>4. UsersOK(users', P)
  BY <1>2, UsersRemove DEF Typed
<1>5. available \cup {f.canister} \subseteq P
  BY <1>1 DEF Typed
<1>6. PICK g : /\ ops' = [ops EXCEPT ![o] = g] /\ FrameOK(g, P)
               /\ AllocatedTo(g, f.user, available \cup {f.canister})
  BY <1>1, <1>2, <1>5, AllocateFacts
<1>7. OpsOK(ops', P) /\ available' \subseteq P
  BY <1>5, <1>6, OpsStep DEF Typed, AllocatedTo
<1>8. DOMAIN trials' \subseteq P
  BY <1>2 DEF RemoveKeys, Typed
<1> QED BY <1>2, <1>3, <1>4, <1>7, <1>8 DEF Typed, canisters, CanistersOK

\* register_user ends.
LEMMA TypedRegisterInstalled ==
    ASSUME Typed, NEW o \in Operations, RegisterInstalled(o)
    PROVE  Typed'
<1> DEFINE f == ops[o]
           P == DOMAIN pool
           e == ExpiryOf(f)
           r == [owner |-> f.user, expires |-> e]
           u == [canister |-> f.canister, status |-> "Pending", ts |-> f.ts]
<1>1. f.canister \in P /\ f.user \in Principals /\ f.ts \in Times
  BY DEF Typed, OpsOK, FrameOK, Frames, RegisterInstalled, Installing
<1>2. e \in 0 .. MAX_TIME + TRIAL_CANISTER_EXPIRY
  BY <1>1, RegistrationAssumption DEF ExpiryOf, Times, None
<1>3. r \in PoolRecord /\ u \in UserRecord(P)
  BY <1>1, <1>2 DEF PoolRecord, UserRecord
<1>4. /\ pool' = Insert(pool, f.canister, r)
      /\ trials' = IF f.manager THEN trials ELSE Insert(trials, f.canister, e)
      /\ users' = Insert(users, f.user, u)
      /\ pending' = Insert(pending, f.user, f.ts)
      /\ ops' = [ops EXCEPT ![o] = Idle]
      /\ UNCHANGED <<available, managers, canisters, finalizing, now>>
  BY <1>1 DEF RegisterInstalled
<1> HIDE DEF r, u, e
<1>5. PoolOK(pool') /\ DOMAIN pool' = P
  BY <1>1, <1>3, <1>4, PoolUpdate DEF Typed
<1>6. UsersOK(users', P)
  BY <1>1, <1>3, <1>4, UsersInsert DEF Typed
<1>7. DOMAIN pending' \subseteq Principals /\ DOMAIN trials' \subseteq P
  BY <1>1, <1>4 DEF Insert, Typed
<1>8. OpsOK(ops', P)
  BY <1>4, OpsStep, IdleOK DEF Typed
<1> QED BY <1>4, <1>5, <1>6, <1>7, <1>8 DEF Typed, canisters, CanistersOK

-----------------------------------------------------------------------------
(***************************************************************************)
(* What one message of gc_tick_inner does: the frame it leaves, g, and the *)
(* records it takes.  U and T are the lists of users and of canisters that *)
(* are left, p and pe the pool and the pending users at that point.        *)
(***************************************************************************)
TrialStage(g, us, T, p, pe) ==
    \/ /\ users' = users /\ pending' = pe
       /\ \/ g = Idle
          \/ g # Idle /\ g.pc = "create" /\ g.users = us
    \/ \E c \in T :
          LET gone == IF p[c].owner # None THEN {p[c].owner} ELSE {}
          IN  /\ users' = RemoveKeys(users, gone) /\ pending' = RemoveKeys(pe, gone)
              /\ g # Idle /\ g.pc = "uninstall" /\ g.job = "gc_trial"
              /\ g.canister = c /\ g.users = {}

PendingStage(g, U) ==
    \E u \in U \cap DOMAIN users :
        /\ \A q \in U \cap DOMAIN users : u <= q
        /\ users' = RemoveKeys(users, {u})
        /\ g # Idle /\ g.pc = "uninstall" /\ g.job = "gc_user"
        /\ g.canister = users[u].canister /\ g.users = {q \in U : q > u}

\* Parts 2 and 3 of a tick.
LEMMA CollectTrialsFacts ==
    ASSUME Typed, NEW o, NEW p, PoolOK(p), NEW pe, NEW f \in Frames,
           f.trials \subseteq DOMAIN p, NEW T, T \subseteq DOMAIN p,
           CollectTrials(o, f, T, p, pe)
    PROVE  \E g : /\ ops' = [ops EXCEPT ![o] = g] /\ FrameOK(g, DOMAIN p)
                  /\ TrialStage(g, f.users, T, p, pe)
<1>a. DOMAIN p \subseteq Canisters /\ Canisters \subseteq Nat
  BY PoolInCanisters DEF Canisters
<1>b. Idle.pc = "idle"
  BY DEF Idle
<1>1. CASE T = {}
  <2> DEFINE n == Cardinality(DOMAIN p)
             g == [f EXCEPT !.pc = "create", !.creates = POOL_TARGET_SIZE - n]
  <2>1. /\ users' = users /\ pending' = pe
        /\ ops' = [ops EXCEPT ![o] = IF n < POOL_TARGET_SIZE THEN g ELSE Idle]
    BY <1>1 DEF CollectTrials, Replenish
  <2>2. n \in Nat
    <3>1. PICK k \in 0 .. MAX_CANISTERS : DOMAIN p = 1 .. k
      BY DEF PoolOK
    <3>2. k \in Int /\ 1 \in Int
      BY RegistrationAssumption
    <3>3. IsFiniteSet(1 .. k)
      BY <3>2, FS_Interval
    <3>4. Cardinality(DOMAIN p) \in Nat
      BY <3>1, <3>3, FS_CardinalityType
    <3> QED BY <3>4
  <2> HIDE DEF n
  <2>3. CASE n < POOL_TARGET_SIZE
    <3>1. POOL_TARGET_SIZE - n \in 0 .. POOL_TARGET_SIZE /\ POOL_TARGET_SIZE - n # 0
      BY <2>2, <2>3, RegistrationAssumption
    <3>2. /\ g \in Frames /\ g.pc = "create" /\ g.users = f.users
          /\ g.trials = f.trials /\ g.creates # 0
      BY <3>1 DEF Frames
    <3>3. ops' = [ops EXCEPT ![o] = g]
      BY <2>1, <2>3
    <3> HIDE DEF g
    <3>4. FrameOK(g, DOMAIN p)
      BY <3>2 DEF FrameOK, Uninstalling, Installing
    <3>5. TrialStage(g, f.users, T, p, pe)
      BY <1>b, <2>1, <3>2 DEF TrialStage
    <3> QED BY <3>3, <3>4, <3>5
  <2>4. CASE ~(n < POOL_TARGET_SIZE)
    <3>1. ops' = [ops EXCEPT ![o] = Idle]
      BY <2>1, <2>4
    <3>2. TrialStage(Idle, f.users, T, p, pe)
      BY <2>1 DEF TrialStage
    <3> QED BY <3>1, <3>2, IdleOK
  <2> QED BY <2>3, <2>4
<1>2. CASE T # {}
  <2> DEFINE c == Least(T)
             gone == IF c \in DOMAIN p /\ p[c].owner # None THEN {p[c].owner} ELSE {}
             g == [f EXCEPT !.pc = "uninstall", !.job = "gc_trial",
                            !.canister = c, !.users = {}, !.trials = T \ {c}]
  <2>1. T \in SUBSET Nat
    BY <1>a
  <2>2. c \in T
    BY <1>2, <2>1, LeastIn
  <2>3. /\ users' = RemoveKeys(users, gone) /\ pending' = RemoveKeys(pe, gone)
        /\ ops' = [ops EXCEPT ![o] = g]
    BY <1>2 DEF CollectTrials
  <2> HIDE DEF c
  <2>4. c \in Canisters /\ c \in DOMAIN p /\ T \ {c} \subseteq Canisters
    BY <1>a, <2>2
  <2>5. /\ g \in Frames /\ g.pc = "uninstall" /\ g.job = "gc_trial"
        /\ g.canister = c /\ g.users = {} /\ g.trials = T \ {c}
    BY <2>4 DEF Frames
  <2> HIDE DEF g
  <2>6. FrameOK(g, DOMAIN p)
    BY <2>4, <2>5 DEF FrameOK, Uninstalling, Installing
  <2>7. TrialStage(g, f.users, T, p, pe)
    BY <1>b, <2>2, <2>3, <2>4, <2>5 DEF TrialStage
  <2> QED BY <2>3, <2>6, <2>7
<1> QED BY <1>1, <1>2

\* Part 1 of a tick, and the others when it is done.
LEMMA CollectPendingFacts ==
    ASSUME Typed, NEW o, NEW p, PoolOK(p), DOMAIN p = DOMAIN pool, NEW pe,
           NEW f \in Frames, f.trials \subseteq DOMAIN p, NEW U, U \subseteq Principals,
           NEW tr, DOMAIN tr \subseteq DOMAIN p,
           CollectPending(o, f, U, p, tr, pe)
    PROVE  \E g : /\ ops' = [ops EXCEPT ![o] = g] /\ FrameOK(g, DOMAIN p)
                  /\ \/ /\ U \cap DOMAIN users = {}
                        /\ \E T \in SUBSET DOMAIN p : TrialStage(g, f.users, T, p, pe)
                     \/ PendingStage(g, U) /\ pending' = pe
<1>a. DOMAIN p \subseteq Canisters /\ Principals \subseteq Nat
  BY PoolInCanisters, RegistrationAssumption
<1>1. CASE U \cap DOMAIN users = {}
  <2> DEFINE T == {c \in DOMAIN tr : f.ts >= tr[c]}
  <2>1. CollectTrials(o, f, T, p, pe) /\ T \subseteq DOMAIN p
    BY <1>1 DEF CollectPending
  <2> HIDE DEF T
  <2>2. PICK g : /\ ops' = [ops EXCEPT ![o] = g] /\ FrameOK(g, DOMAIN p)
                 /\ TrialStage(g, f.users, T, p, pe)
    BY <2>1, CollectTrialsFacts
  <2> QED BY <1>1, <2>1, <2>2
<1>2. CASE U \cap DOMAIN users # {}
  <2> DEFINE live == U \cap DOMAIN users
             u == Least(live)
             c == users[u].canister
             more == {q \in U : q > u}
             g == [f EXCEPT !.pc = "uninstall", !.job = "gc_user",
                            !.canister = c, !.users = more]
  <2>1. live \in SUBSET Nat /\ live # {}
    BY <1>2, <1>a
  <2>2. u \in live /\ \A q \in live : u <= q
    <3> HIDE DEF live
    <3> QED BY <2>1, LeastIn
  <2>3. /\ users' = RemoveKeys(users, {u}) /\ pending' = pe
        /\ ops' = [ops EXCEPT ![o] = g]
    BY <1>2 DEF CollectPending
  <2> HIDE DEF u
  <2>4. c \in DOMAIN p /\ c \in Canisters /\ more \subseteq Principals
    BY <1>a, <2>2 DEF Typed, UsersOK, UserRecord
  <2> HIDE DEF c, more
  <2>5. /\ g \in Frames /\ g.pc = "uninstall" /\ g.job = "gc_user"
        /\ g.canister = c /\ g.users = more /\ g.trials = f.trials
    BY <2>4 DEF Frames
  <2> HIDE DEF g
  <2>6. FrameOK(g, DOMAIN p)
    BY <2>4, <2>5 DEF FrameOK, Uninstalling, Installing
  <2>7. g # Idle
    BY <2>5 DEF Idle
  <2>8. PendingStage(g, U)
    BY <2>2, <2>3, <2>5, <2>7 DEF PendingStage, c, more
  <2> QED BY <2>3, <2>6, <2>8
<1> QED BY <1>1, <1>2

\* The stages stay within the types.
LEMMA StagesTyped ==
    ASSUME Typed, NEW p, PoolOK(p), DOMAIN p = DOMAIN pool,
           NEW pe, DOMAIN pe \subseteq Principals, NEW g, NEW U, NEW us, NEW T,
           TrialStage(g, us, T, p, pe) \/ (PendingStage(g, U) /\ pending' = pe)
    PROVE  UsersOK(users', DOMAIN pool) /\ DOMAIN pending' \subseteq Principals
<1>1. UsersOK(users, DOMAIN pool) /\ \A K : UsersOK(RemoveKeys(users, K), DOMAIN pool)
  BY UsersRemove DEF Typed
<1>2. \A K : DOMAIN RemoveKeys(pe, K) \subseteq Principals
  BY DEF RemoveKeys
<1>3. CASE TrialStage(g, us, T, p, pe)
  BY <1>1, <1>2, <1>3 DEF TrialStage
<1>4. CASE PendingStage(g, U) /\ pending' = pe
  BY <1>1, <1>4 DEF PendingStage
<1> QED BY <1>3, <1>4

\* A tick begins with a frame that has only the time.
LEMMA TickFrame ==
    ASSUME Typed
    PROVE  LET f == [Idle EXCEPT !.ts = now]
           IN  f \in Frames /\ f.trials = {} /\ f.users = {}
<1>1. Idle \in Frames /\ Idle.trials = {} /\ Idle.users = {}
  BY IdleOK DEF FrameOK, Idle
<1>2. now \in Times
  BY DEF Typed
<1> QED BY <1>1, <1>2 DEF Frames

\* The users whose registration has expired.
ExpiredUsers == {p \in DOMAIN pending : PendingExpired(pending[p], now)}

\* What the first message of a tick does.
LEMMA GcTickFacts ==
    ASSUME Typed, NEW o \in Operations, GcTick(o)
    PROVE  \E g : /\ ops' = [ops EXCEPT ![o] = g] /\ FrameOK(g, DOMAIN pool)
                  /\ \/ /\ ExpiredUsers \cap DOMAIN users = {}
                        /\ \E T \in SUBSET DOMAIN pool :
                              TrialStage(g, {}, T, pool, RemoveKeys(pending, ExpiredUsers))
                     \/ /\ PendingStage(g, ExpiredUsers)
                        /\ pending' = RemoveKeys(pending, ExpiredUsers)
<1> DEFINE f == [Idle EXCEPT !.ts = now]
<1>1. f \in Frames /\ f.trials = {} /\ f.users = {}
  BY TickFrame
<1>2. CollectPending(o, f, ExpiredUsers, pool, trials, RemoveKeys(pending, ExpiredUsers))
  BY DEF GcTick, ExpiredUsers
<1>3. ExpiredUsers \subseteq Principals /\ PoolOK(pool) /\ DOMAIN trials \subseteq DOMAIN pool
  BY DEF Typed, ExpiredUsers
<1> DEFINE U == ExpiredUsers
           rest == RemoveKeys(pending, U)
           p == pool
           tr == trials
<1>4. /\ f \in Frames /\ f.trials \subseteq DOMAIN p /\ U \subseteq Principals /\ PoolOK(p)
      /\ DOMAIN p = DOMAIN pool /\ DOMAIN tr \subseteq DOMAIN p
      /\ CollectPending(o, f, U, p, tr, rest)
  BY <1>1, <1>2, <1>3
<1> HIDE DEF f, U, rest, p, tr
<1>5. PICK g : /\ ops' = [ops EXCEPT ![o] = g] /\ FrameOK(g, DOMAIN p)
               /\ \/ /\ U \cap DOMAIN users = {}
                     /\ \E T \in SUBSET DOMAIN p : TrialStage(g, f.users, T, p, rest)
                  \/ PendingStage(g, U) /\ pending' = rest
  BY <1>4, CollectPendingFacts
<1> QED BY <1>1, <1>5 DEF U, rest, p

\* What the message of a tick does that finds a canister uninstalled.
LEMMA GcReturnedFacts ==
    ASSUME Typed, NEW o \in Operations, GcReturned(o)
    PROVE  /\ ops[o].canister \in DOMAIN pool /\ DOMAIN pool' = DOMAIN pool
           /\ pool' = ReturnedPool(ops[o].canister) /\ PoolOK(pool')
           /\ \E g : /\ ops' = [ops EXCEPT ![o] = g] /\ FrameOK(g, DOMAIN pool)
                     /\ \/ /\ ops[o].job = "gc_user" => ops[o].users \cap DOMAIN users = {}
                           /\ \E T \in SUBSET DOMAIN pool :
                                 TrialStage(g, ops[o].users, T, pool', pending)
                        \/ /\ ops[o].job = "gc_user"
                           /\ PendingStage(g, ops[o].users) /\ pending' = pending
<1> DEFINE f == ops[o]
           p == ReturnedPool(f.canister)
           tr == RemoveKeys(trials, {f.canister})
<1>1. /\ f \in Frames /\ f.canister \in DOMAIN pool
      /\ f.trials \subseteq DOMAIN pool /\ f.users \subseteq Principals
  BY DEF GcReturned, Typed, OpsOK, FrameOK, Uninstalling, Frames
<1>2. PoolOK(p) /\ DOMAIN p = DOMAIN pool
  BY <1>1, ReturnedFacts DEF Typed
<1>3. DOMAIN tr \subseteq DOMAIN pool
  BY DEF RemoveKeys, Typed
<1>4. /\ pool' = p
      /\ f.job = "gc_user" => CollectPending(o, f, f.users, p, tr, pending)
      /\ f.job # "gc_user" => CollectTrials(o, f, f.trials, p, pending)
  BY DEF GcReturned
<1> HIDE DEF f, p, tr
<1>5. CASE f.job = "gc_user"
  <2>1. PICK g : /\ ops' = [ops EXCEPT ![o] = g] /\ FrameOK(g, DOMAIN p)
                 /\ \/ /\ f.users \cap DOMAIN users = {}
                       /\ \E T \in SUBSET DOMAIN p : TrialStage(g, f.users, T, p, pending)
                    \/ PendingStage(g, f.users) /\ pending' = pending
    BY ZenonT(60), <1>1, <1>2, <1>3, <1>4, <1>5, CollectPendingFacts
  <2>2. f = ops[o] /\ p = ReturnedPool(ops[o].canister)
    BY DEF f, p
  <2>3. /\ ops[o].canister \in DOMAIN pool /\ DOMAIN pool' = DOMAIN pool
        /\ pool' = ReturnedPool(ops[o].canister) /\ PoolOK(pool')
    BY <1>1, <1>2, <1>4, <2>2
  <2> QED BY <1>2, <1>4, <1>5, <2>1, <2>2, <2>3
<1>6. CASE f.job # "gc_user"
  <2>1. PICK g : /\ ops' = [ops EXCEPT ![o] = g] /\ FrameOK(g, DOMAIN p)
                 /\ TrialStage(g, f.users, f.trials, p, pending)
    BY <1>1, <1>2, <1>4, <1>6, CollectTrialsFacts
  <2>2. f = ops[o] /\ p = ReturnedPool(ops[o].canister)
    BY DEF f, p
  <2>3. /\ ops[o].canister \in DOMAIN pool /\ DOMAIN pool' = DOMAIN pool
        /\ pool' = ReturnedPool(ops[o].canister) /\ PoolOK(pool')
    BY <1>1, <1>2, <1>4, <2>2
  <2> QED BY <1>1, <1>2, <1>4, <1>6, <2>1, <2>2, <2>3
<1> QED BY <1>5, <1>6

\* A tick starts.
LEMMA TypedGcTick == ASSUME Typed, NEW o \in Operations, GcTick(o) PROVE Typed'
<1>1. PICK g : /\ ops' = [ops EXCEPT ![o] = g] /\ FrameOK(g, DOMAIN pool)
               /\ \/ /\ ExpiredUsers \cap DOMAIN users = {}
                     /\ \E T \in SUBSET DOMAIN pool :
                           TrialStage(g, {}, T, pool, RemoveKeys(pending, ExpiredUsers))
                  \/ /\ PendingStage(g, ExpiredUsers)
                     /\ pending' = RemoveKeys(pending, ExpiredUsers)
  BY GcTickFacts
<1>2. DOMAIN RemoveKeys(pending, ExpiredUsers) \subseteq Principals /\ PoolOK(pool)
  BY DEF RemoveKeys, Typed
<1>3. UsersOK(users', DOMAIN pool) /\ DOMAIN pending' \subseteq Principals
  BY <1>1, <1>2, StagesTyped
<1>4. OpsOK(ops', DOMAIN pool)
  BY <1>1, OpsStep DEF Typed
<1>5. UNCHANGED <<pool, available, trials, managers, canisters, finalizing, now>>
  BY DEF GcTick
<1> QED BY <1>3, <1>4, <1>5 DEF Typed, canisters, CanistersOK

\* A tick goes on.
LEMMA TypedGcReturned == ASSUME Typed, NEW o \in Operations, GcReturned(o) PROVE Typed'
<1>1. /\ ops[o].canister \in DOMAIN pool /\ DOMAIN pool' = DOMAIN pool /\ PoolOK(pool')
  BY GcReturnedFacts
<1>2. PICK g : /\ ops' = [ops EXCEPT ![o] = g] /\ FrameOK(g, DOMAIN pool)
               /\ \/ \E T \in SUBSET DOMAIN pool :
                        TrialStage(g, ops[o].users, T, pool', pending)
                  \/ PendingStage(g, ops[o].users) /\ pending' = pending
  BY GcReturnedFacts
<1>3. DOMAIN pending \subseteq Principals
  BY DEF Typed
<1>4. UsersOK(users', DOMAIN pool) /\ DOMAIN pending' \subseteq Principals
  BY <1>1, <1>2, <1>3, StagesTyped
<1>5. OpsOK(ops', DOMAIN pool)
  BY <1>2, OpsStep DEF Typed
<1>6. /\ trials' = RemoveKeys(trials, {ops[o].canister})
      /\ available' = available \cup {ops[o].canister}
      /\ UNCHANGED <<managers, canisters, finalizing, now>>
  BY DEF GcReturned
<1>7. available' \subseteq DOMAIN pool /\ DOMAIN trials' \subseteq DOMAIN pool
  BY <1>1, <1>6 DEF RemoveKeys, Typed
<1> QED BY <1>1, <1>4, <1>5, <1>6, <1>7 DEF Typed, canisters, CanistersOK

\* The replenishment of the pool, and a manager's provisioning.
LEMMA TypedGrow ==
    ASSUME Typed, AddCanister, OpsOK(ops', DOMAIN pool),
           UNCHANGED <<users, trials, pending, managers, canisters, finalizing, now>>
    PROVE  Typed'
<1>1. PICK c \in Canisters \ DOMAIN pool :
         /\ PoolOK(pool') /\ DOMAIN pool' = DOMAIN pool \cup {c}
         /\ available' = available \cup {c}
  BY AddFacts DEF Typed
<1>2. DOMAIN pool \subseteq DOMAIN pool'
  BY <1>1
<1>3. UsersOK(users', DOMAIN pool') /\ OpsOK(ops', DOMAIN pool')
  BY <1>2, PoolGrows DEF Typed
<1> QED BY <1>1, <1>2, <1>3 DEF Typed, canisters, CanistersOK

\* One canister less to create.
LEMMA TypedGcCreated == ASSUME Typed, NEW o \in Operations, GcCreated(o) PROVE Typed'
<1> DEFINE f == ops[o]
           g == [f EXCEPT !.creates = f.creates - 1]
           h == IF f.creates = 1 THEN Idle ELSE g
<1>1. /\ f \in Frames /\ f.pc = "create" /\ f.creates # 0 /\ f.trials \subseteq DOMAIN pool
      /\ f.creates \in 0 .. POOL_TARGET_SIZE
  BY DEF GcCreated, Typed, OpsOK, FrameOK, Frames
<1>2. FrameOK(h, DOMAIN pool)
  <2>1. CASE f.creates = 1
    BY <2>1, IdleOK
  <2>2. CASE f.creates # 1
    <3>1. f.creates - 1 \in 0 .. POOL_TARGET_SIZE /\ f.creates - 1 # 0
      BY <1>1, <2>2, RegistrationAssumption
    <3>2. g \in Frames /\ g.pc = "create" /\ g.creates # 0 /\ g.trials = f.trials
      BY <1>1, <3>1 DEF Frames
    <3> HIDE DEF g
    <3>3. FrameOK(g, DOMAIN pool)
      BY <1>1, <3>2 DEF FrameOK, Uninstalling, Installing
    <3> QED BY <2>2, <3>3
  <2> QED BY <2>1, <2>2
<1>3. \/ AddCanister /\ ops' = [ops EXCEPT ![o] = h]
      \/ UNCHANGED <<pool, available>> /\ ops' = [ops EXCEPT ![o] = Idle]
  BY DEF GcCreated
<1>4. UNCHANGED <<users, trials, pending, managers, canisters, finalizing, now>>
  BY DEF GcCreated
<1> HIDE DEF h
<1>5. OpsOK(ops', DOMAIN pool)
  BY <1>2, <1>3, OpsStep, IdleOK DEF Typed
<1>6. CASE AddCanister
  BY <1>4, <1>5, <1>6, TypedGrow
<1>7. CASE UNCHANGED <<pool, available>>
  BY <1>4, <1>5, <1>7 DEF Typed, canisters, CanistersOK
<1> QED BY <1>3, <1>6, <1>7

\* A provisioned canister.
LEMMA TypedProvision == Typed /\ ProvisionCanister => Typed'
<1> SUFFICES ASSUME Typed, ProvisionCanister PROVE Typed'
  OBVIOUS
<1>1. AddCanister /\ OpsOK(ops', DOMAIN pool)
      /\ UNCHANGED <<users, trials, pending, managers, canisters, finalizing, now>>
  BY DEF ProvisionCanister, Typed
<1> QED BY <1>1, TypedGrow

\* The calls of managers.
LEMMA TypedGovernance == Typed /\ GovernanceStep => Typed'
<1> SUFFICES ASSUME Typed, NEW p \in Principals,
                    \/ ClaimManagerRole(p) \/ AddManager(p)
                    \/ \E caller \in Principals : RemoveManager(caller, p)
             PROVE  Typed'
  BY DEF GovernanceStep
<1>1. CASE AddManager(p) \/ \E caller \in Principals : RemoveManager(caller, p)
  BY <1>1 DEF AddManager, RemoveManager, Typed, canisters, CanistersOK
<1>2. CASE ClaimManagerRole(p)
  <2>1. managers' = {p} /\ UNCHANGED <<users, available, pending, ops, canisters,
                                       finalizing, now>>
    BY <1>2 DEF ClaimManagerRole
  <2>2. PoolOK(pool') /\ DOMAIN pool' = DOMAIN pool /\ DOMAIN trials' \subseteq DOMAIN trials
    <3>1. CASE UNCHANGED <<trials, pool>>
      BY <3>1 DEF Typed
    <3>2. CASE p \in DOMAIN users
      <4> DEFINE c == users[p].canister
                 r == [pool[c] EXCEPT !.expires = None]
      <4>1. /\ DOMAIN trials' \subseteq DOMAIN trials
            /\ pool' = pool \/ (c \in DOMAIN pool /\ pool' = [pool EXCEPT ![c] = r])
        BY <1>2, <3>2 DEF ClaimManagerRole, RemoveKeys
      <4>2. c \in DOMAIN pool => r \in PoolRecord
        <5>1. ASSUME c \in DOMAIN pool
              PROVE  r \in PoolRecord
          <6>1. pool[c] \in PoolRecord
            BY <5>1 DEF Typed, PoolOK
          <6>2. None \in 0 .. MAX_TIME + TRIAL_CANISTER_EXPIRY
            BY RegistrationAssumption DEF None
          <6> QED BY <6>1, <6>2 DEF PoolRecord
        <5> QED BY <5>1
      <4> HIDE DEF c, r
      <4>3. DOMAIN pool' = DOMAIN pool /\ \A d \in DOMAIN pool : pool'[d] \in PoolRecord
        BY <4>1, <4>2 DEF Typed, PoolOK
      <4> QED BY <4>1, <4>3 DEF Typed, PoolOK
    <3> QED BY <1>2, <3>1, <3>2 DEF ClaimManagerRole
  <2> QED BY <2>1, <2>2 DEF Typed, canisters, CanistersOK
<1> QED BY <1>1, <1>2

\* A finalization that a reinstallation abandons, or none.
LEMMA AbandonedType ==
    ASSUME CanistersOK, NEW c \in Canisters, NEW b \in BOOLEAN,
           wasm' = [wasm EXCEPT ![c] = b], owner' = [owner EXCEPT ![c] = None],
           finalizing' = Abandoned(c)
    PROVE  CanistersOK'
<1>1. NotFinalizing \in [pc : {"idle", "verify", "confirm", "bind"},
                         canister : Canisters \cup {None}]
  BY DEF NotFinalizing
<1> HIDE DEF NotFinalizing
<1>2. finalizing' \in [Principals -> [pc : {"idle", "verify", "confirm", "bind"},
                                      canister : Canisters \cup {None}]]
  BY <1>1 DEF CanistersOK, Abandoned
<1> QED BY <1>2 DEF CanistersOK

\* The management canister answers.
LEMMA TypedManagement == Typed /\ ManagementStep => Typed'
<1> SUFFICES ASSUME Typed, NEW o \in Operations, UninstallCode(o) \/ InstallCode(o)
             PROVE  Typed'
  BY DEF ManagementStep
<1> DEFINE f == ops[o]
           c == f.canister
<1>1. FrameOK(f, DOMAIN pool) /\ DOMAIN pool \subseteq Canisters
  BY PoolInCanisters DEF Typed, OpsOK
<1>2. c \in Canisters
  BY <1>1 DEF UninstallCode, InstallCode, FrameOK, Uninstalling, Installing
<1>3. CanistersOK'
  <2>1. CASE UNCHANGED <<canisters, finalizing>>
    BY <2>1 DEF Typed, canisters, CanistersOK
  <2>2. ASSUME NEW b \in BOOLEAN, wasm' = [wasm EXCEPT ![c] = b],
               owner' = [owner EXCEPT ![c] = None], finalizing' = Abandoned(c)
        PROVE  CanistersOK'
    BY <1>2, <2>2, AbandonedType DEF Typed
  <2> QED BY <2>1, <2>2 DEF UninstallCode, InstallCode
<1>4. OpsOK(ops', DOMAIN pool)
  <2>1. CASE ops' = [ops EXCEPT ![o] = Idle]
    BY <2>1, OpsStep, IdleOK DEF Typed
  <2>2. ASSUME NEW s, ops' = [ops EXCEPT ![o].pc = s],
               \/ f.pc = "uninstall" /\ s = "uninstalled"
               \/ f.pc = "install" /\ s = "installed"
        PROVE  OpsOK(ops', DOMAIN pool)
    <3> DEFINE g == [f EXCEPT !.pc = s]
    <3>1. f \in Frames
      BY <1>1 DEF FrameOK
    <3>2. /\ g \in Frames /\ g.pc = s /\ g.canister = f.canister /\ g.job = f.job
          /\ g.user = f.user /\ g.trials = f.trials
      BY <2>2, <3>1 DEF Frames
    <3>3. ops' = [ops EXCEPT ![o] = g]
      BY <2>2
    <3> HIDE DEF g
    <3>4. FrameOK(g, DOMAIN pool)
      BY <1>1, <2>2, <3>2 DEF FrameOK, Uninstalling, Installing
    <3> QED BY <3>3, <3>4, OpsStep DEF Typed
  <2> QED BY <2>1, <2>2 DEF UninstallCode, InstallCode
<1>5. UNCHANGED <<index, now>>
  BY DEF UninstallCode, InstallCode
<1> QED BY <1>3, <1>4, <1>5 DEF Typed, index

\* finalize_registration of a user canister.
LEMMA TypedFinalize == Typed /\ FinalizeStep => Typed'
<1> SUFFICES ASSUME Typed, NEW p \in Principals,
                    \/ \E c \in Canisters : FinalizeRegistration(p, c)
                    \/ GetUserAssignment(p) \/ ConfirmRegistration(p) \/ BindOwner(p)
             PROVE  Typed'
  BY DEF FinalizeStep
<1> DEFINE States == [pc : {"idle", "verify", "confirm", "bind"},
                      canister : Canisters \cup {None}]
<1>a. finalizing \in [Principals -> States] /\ NotFinalizing \in States
  BY DEF Typed, CanistersOK, NotFinalizing
<1>b. finalizing[p] \in States
  BY <1>a
<1>1. ASSUME NEW c \in Canisters, FinalizeRegistration(p, c)
      PROVE  Typed'
  <2>1. [pc |-> "verify", canister |-> c] \in States
    OBVIOUS
  <2>2. finalizing' \in [Principals -> States]
    BY <1>1, <1>a, <2>1 DEF FinalizeRegistration
  <2> QED BY <1>1, <2>2 DEF FinalizeRegistration, Typed, index, canisters, CanistersOK
<1>2. CASE GetUserAssignment(p)
  <2>1. [finalizing[p] EXCEPT !.pc = "confirm"] \in States
    BY <1>b
  <2>2. finalizing' \in [Principals -> States]
    BY <1>2, <1>a, <2>1 DEF GetUserAssignment
  <2> QED BY <1>2, <2>2 DEF GetUserAssignment, Typed, index, canisters, CanistersOK
<1>3. CASE ConfirmRegistration(p)
  <2>1. [finalizing[p] EXCEPT !.pc = "bind"] \in States
    BY <1>b
  <2>2. finalizing' \in [Principals -> States]
    BY <1>3, <1>a, <2>1 DEF ConfirmRegistration
  <2>3. UsersOK(users', DOMAIN pool) /\ DOMAIN pending' \subseteq Principals
    <3>1. CASE UNCHANGED <<users, pending>>
      BY <3>1 DEF Typed
    <3>2. CASE /\ AssignedTo(p, finalizing[p].canister)
               /\ users' = [users EXCEPT ![p].status = "Active"]
               /\ pending' = IF users[p].status = "Active" THEN pending
                             ELSE RemoveKeys(pending, {p})
      <4>1. users[p] \in UserRecord(DOMAIN pool)
        BY <3>2 DEF AssignedTo, Typed, UsersOK
      <4>2. [users[p] EXCEPT !.status = "Active"] \in UserRecord(DOMAIN pool)
        BY <4>1 DEF UserRecord
      <4>3. UsersOK(users', DOMAIN pool)
        BY <3>2, <4>2 DEF Typed, UsersOK
      <4> QED BY <3>2, <4>3 DEF RemoveKeys, Typed
    <3> QED BY <1>3, <3>1, <3>2 DEF ConfirmRegistration
  <2> QED BY <1>3, <2>2, <2>3 DEF ConfirmRegistration, Typed, canisters, CanistersOK
<1>4. CASE BindOwner(p)
  <2>1. finalizing' \in [Principals -> States]
    BY <1>4, <1>a DEF BindOwner
  <2>2. owner' \in [Canisters -> Principals \cup {None}]
    BY <1>4 DEF BindOwner, Typed, CanistersOK
  <2> QED BY <1>4, <2>1, <2>2 DEF BindOwner, Typed, index, CanistersOK
<1> QED BY <1>1, <1>2, <1>3, <1>4

\* An upgrade of the index, and the clock.
LEMMA TypedOthers == Typed /\ (Upgrade \/ TimePasses \/ UNCHANGED vars) => Typed'
<1>1. ASSUME Typed, Upgrade PROVE Typed'
  BY <1>1 DEF Upgrade, Typed, Listed, Expiring, PendingUsers, UsersOK, canisters, CanistersOK
<1>2. ASSUME Typed, TimePasses PROVE Typed'
  <2>1. now' \in Times
    BY <1>2, RegistrationAssumption DEF TimePasses, Typed, Times
  <2> QED BY <1>2, <2>1 DEF TimePasses, Typed, index, canisters, CanistersOK
<1>3. ASSUME Typed, UNCHANGED vars PROVE Typed'
  BY <1>3 DEF vars, Typed, index, canisters, CanistersOK
<1> QED BY <1>1, <1>2, <1>3

\* Every step stays within the types.
LEMMA TypedStep == Typed /\ [Next]_vars => Typed'
<1> SUFFICES ASSUME Typed, [Next]_vars PROVE Typed'
  OBVIOUS
<1>1. CASE IndexStep
  BY <1>1, TypedRegisterUser, TypedRegisterReturned, TypedRegisterInstalled,
     TypedGcTick, TypedGcReturned, TypedGcCreated DEF IndexStep
<1> QED BY <1>1, TypedGovernance, TypedManagement, TypedFinalize, TypedProvision,
           TypedOthers DEF Next

\* However registrations, collections, confirmations and upgrades interleave,
\* and however many of them are under way, users, available canisters and
\* trials name canisters of the pool and times and frames stay in their ranges.
THEOREM TypeCorrect == Spec => []TypeOK
BY TypedInit, TypedStep, TypedIsTypeOK, PTL DEF Spec

-----------------------------------------------------------------------------
(***************************************************************************)
(* What may expire is tracked.  ExpiriesAreTracked is inductive together   *)
(* with one fact about frames: an operation that awaits an uninstallation  *)
(* has a list of users only in the first part of a tick, so that the       *)
(* message after the await goes on with it.                                *)
(***************************************************************************)
ListOK(f) == Uninstalling(f) /\ f.users # {} => f.job = "gc_user"
ListsOK == \A o \in Operations : ListOK(ops[o])

InList(p, os) == \E o \in Operations : Uninstalling(os[o]) /\ p \in os[o].users
InHeap(p, us, pe) == p \in DOMAIN pe /\ pe[p] = us[p].ts

PendingTracked == \A p \in PendingUsers : InHeap(p, users, pending) \/ InList(p, ops)
TrialsTracked == \A c \in Expiring : c \in DOMAIN trials /\ trials[c] = pool[c].expires

Tracked == ListsOK /\ PendingTracked /\ TrialsTracked

\* Tracked strengthens the invariant of the runs.
LEMMA TrackedMeaning == Tracked => ExpiriesAreTracked
BY DEF Tracked, PendingTracked, TrialsTracked, ExpiriesAreTracked, InHeap, InList,
   Uninstalling

\* Nothing may expire at first.
LEMMA TrackedInit == Init => Tracked
BY DEF Init, Tracked, ListsOK, ListOK, Uninstalling, Idle, PendingTracked,
   PendingUsers, TrialsTracked, Expiring, EmptyMap

\* A step that gives one operation a new frame drops nobody of D from the
\* lists, if that frame does not.
LEMMA ListsStep ==
    ASSUME Typed, ListsOK, NEW o \in Operations, NEW g, ops' = [ops EXCEPT ![o] = g],
           ListOK(g), NEW D,
           Uninstalling(ops[o]) => \A p \in ops[o].users \cap D :
                                      Uninstalling(g) /\ p \in g.users
    PROVE  ListsOK' /\ \A p \in D : InList(p, ops) => InList(p, ops')
<1>1. ops'[o] = g /\ \A q \in Operations : q # o => ops'[q] = ops[q]
  BY DEF Typed, OpsOK
<1>2. ListsOK'
  <2> SUFFICES ASSUME NEW q \in Operations PROVE ListOK(ops'[q])
    BY DEF ListsOK, ListOK, Uninstalling
  <2>1. CASE q = o
    BY <1>1, <2>1
  <2>2. CASE q # o
    BY <1>1, <2>2 DEF ListsOK
  <2> QED BY <2>1, <2>2
<1>3. ASSUME NEW p \in D, InList(p, ops)
      PROVE  InList(p, ops')
  <2>1. PICK q \in Operations : Uninstalling(ops[q]) /\ p \in ops[q].users
    BY <1>3 DEF InList
  <2>2. CASE q = o
    BY <1>1, <2>1, <2>2 DEF InList
  <2>3. CASE q # o
    BY <1>1, <2>1, <2>3 DEF InList
  <2> QED BY <2>2, <2>3
<1> QED BY <1>2, <1>3

\* A frame without a list, in the place of one that had none either.
LEMMA EmptyLists ==
    ASSUME Typed, ListsOK, NEW o \in Operations, NEW g, ops' = [ops EXCEPT ![o] = g],
           Uninstalling(g) => g.users = {},
           Uninstalling(ops[o]) => ops[o].users = {}
    PROVE  ListsOK' /\ \A p : InList(p, ops) => InList(p, ops')
<1> SUFFICES ASSUME NEW p
             PROVE  ListsOK' /\ (InList(p, ops) => InList(p, ops'))
  OBVIOUS
<1>1. ListOK(g)
  BY DEF ListOK
<1>2. ListsOK' /\ \A q \in {p} : InList(q, ops) => InList(q, ops')
  BY <1>1, ListsStep
<1> QED BY <1>2

\* A step that changes no record of a user and takes none of those that stay
\* out of the heap map or off the lists.
LEMMA PendingStep ==
    ASSUME PendingTracked,
           DOMAIN users' \subseteq DOMAIN users,
           \A p \in DOMAIN users' :
              /\ users'[p] = users[p]
              /\ InHeap(p, users, pending) => InHeap(p, users, pending') \/ InList(p, ops')
              /\ InList(p, ops) => InList(p, ops')
    PROVE  PendingTracked'
<1> SUFFICES ASSUME NEW p \in DOMAIN users', users'[p].status = "Pending"
             PROVE  InHeap(p, users', pending') \/ InList(p, ops')
  BY DEF PendingTracked, PendingUsers, InHeap, InList
<1>1. p \in PendingUsers
  BY DEF PendingUsers
<1>2. InHeap(p, users, pending) \/ InList(p, ops)
  BY <1>1 DEF PendingTracked
<1>3. users'[p] = users[p] /\ (InHeap(p, users, pending') \/ InList(p, ops'))
  BY <1>2
<1> QED BY <1>3 DEF InHeap

\* A returned canister is unowned and leaves the heap map.
LEMMA ReturnedTracked ==
    ASSUME Typed, TrialsTracked, NEW c \in DOMAIN pool,
           pool' = ReturnedPool(c), trials' = RemoveKeys(trials, {c})
    PROVE  TrialsTracked'
<1>1. /\ DOMAIN pool' = DOMAIN pool /\ pool'[c] = [owner |-> None, expires |-> None]
      /\ \A d \in DOMAIN pool : d # c => pool'[d] = pool[d]
  BY ReturnedFacts DEF Typed
<1> QED BY <1>1 DEF TrialsTracked, Expiring, RemoveKeys
-----------------------------------------------------------------------------
Listless(g) == Uninstalling(g) => g.users = {}
FrameWithoutList(o) == \E g : ops' = [ops EXCEPT ![o] = g] /\ Listless(g)

\* register_user starts.
LEMMA TrackedRegisterUser ==
    ASSUME Typed, Tracked, NEW o \in Operations, NEW p \in Principals, RegisterUser(o, p)
    PROVE  Tracked'
<1>1. UNCHANGED <<users, pool, trials, pending>> /\ ops[o] = Idle
  BY DEF RegisterUser, MayStart
<1>2. FrameWithoutList(o)
  <2>1. CASE Allocate(o, p, now, available)
    <3>1. DOMAIN pool \subseteq Canisters /\ now \in Times /\ available \subseteq DOMAIN pool
      BY PoolInCanisters DEF Typed
    <3>2. PICK g : ops' = [ops EXCEPT ![o] = g] /\ AllocatedTo(g, p, available)
      BY <2>1, <3>1, AllocateFacts
    <3>3. Uninstalling(g) => g.users = {}
      BY <3>2 DEF AllocatedTo, Uninstalling, Idle
    <3> QED BY <3>2, <3>3 DEF FrameWithoutList, Listless
  <2>2. ASSUME ops' = [ops EXCEPT ![o] = [Idle EXCEPT
                          !.pc = "uninstall", !.job = "register", !.user = p,
                          !.ts = now, !.canister = users[p].canister]]
        PROVE  FrameWithoutList(o)
    <3> DEFINE g == [Idle EXCEPT !.pc = "uninstall", !.job = "register", !.user = p,
                                 !.ts = now, !.canister = users[p].canister]
    <3>1. ops' = [ops EXCEPT ![o] = g]
      BY <2>2
    <3>2. g.users = {}
      BY DEF Idle
    <3> HIDE DEF g
    <3> QED BY <3>1, <3>2 DEF FrameWithoutList, Listless
  <2> QED BY <2>1, <2>2 DEF RegisterUser
<1>a. PICK g : ops' = [ops EXCEPT ![o] = g] /\ Listless(g)
  BY <1>2 DEF FrameWithoutList
<1>b. ~Uninstalling(ops[o])
  BY <1>1 DEF Uninstalling, Idle
<1>3. ListsOK' /\ \A q : InList(q, ops) => InList(q, ops')
  BY <1>a, <1>b, EmptyLists DEF Tracked, Listless
<1>4. PendingTracked'
  BY <1>1, <1>3, PendingStep DEF Tracked
<1>5. TrialsTracked'
  BY <1>1 DEF Tracked, TrialsTracked, Expiring
<1> QED BY <1>3, <1>4, <1>5 DEF Tracked

\* register_user goes on after uninstall_code.
LEMMA TrackedRegisterReturned ==
    ASSUME Typed, Tracked, NEW o \in Operations, RegisterReturned(o)
    PROVE  Tracked'
<1> DEFINE f == ops[o]
           P == DOMAIN pool
<1>1. /\ P \subseteq Canisters /\ available \subseteq P
      /\ f.canister \in P /\ f.user \in Principals /\ f.ts \in Times
  BY PoolInCanisters DEF Typed, OpsOK, FrameOK, Frames, RegisterReturned, Uninstalling
<1>2. /\ pool' = ReturnedPool(f.canister)
      /\ trials' = RemoveKeys(trials, {f.canister})
      /\ users' = RemoveKeys(users, {f.user})
      /\ Allocate(o, f.user, f.ts, available \cup {f.canister})
      /\ pending' = pending
  BY DEF RegisterReturned
<1>3. available \cup {f.canister} \subseteq P
  BY <1>1
<1>4. PICK g : /\ ops' = [ops EXCEPT ![o] = g]
               /\ AllocatedTo(g, f.user, available \cup {f.canister})
  BY <1>1, <1>2, <1>3, AllocateFacts
<1>5. Uninstalling(g) => g.users = {}
  BY <1>4 DEF AllocatedTo, Uninstalling, Idle
<1>6. f.users = {}
  BY DEF RegisterReturned, Tracked, ListsOK, ListOK, Uninstalling
<1>7. ListsOK' /\ \A q : InList(q, ops) => InList(q, ops')
  BY <1>4, <1>5, <1>6, EmptyLists DEF Tracked
<1>8. PendingTracked'
  BY <1>2, <1>7, PendingStep DEF Tracked, RemoveKeys
<1>9. TrialsTracked'
  BY <1>1, <1>2, ReturnedTracked DEF Tracked
<1> QED BY <1>7, <1>8, <1>9 DEF Tracked

\* register_user ends: the record, its time and its expiry are entered together.
LEMMA TrackedRegisterInstalled ==
    ASSUME Typed, Tracked, NEW o \in Operations, RegisterInstalled(o)
    PROVE  Tracked'
<1> DEFINE f == ops[o]
           c == f.canister
           e == ExpiryOf(f)
           r == [owner |-> f.user, expires |-> e]
           u == [canister |-> c, status |-> "Pending", ts |-> f.ts]
<1>1. f.pc = "installed" /\ c \in DOMAIN pool
  BY DEF Typed, OpsOK, FrameOK, RegisterInstalled, Installing
<1>2. /\ pool' = Insert(pool, c, r)
      /\ trials' = IF f.manager THEN trials ELSE Insert(trials, c, e)
      /\ users' = Insert(users, f.user, u)
      /\ pending' = Insert(pending, f.user, f.ts)
      /\ ops' = [ops EXCEPT ![o] = Idle]
  BY <1>1 DEF RegisterInstalled
<1>3. r.expires = e /\ u.ts = f.ts /\ (f.manager => e = None)
  BY DEF ExpiryOf
<1> HIDE DEF r, u, e
<1>4. ListsOK' /\ \A q : InList(q, ops) => InList(q, ops')
  BY <1>1, <1>2, EmptyLists DEF Tracked, Uninstalling, Idle
<1>5. ASSUME NEW q \in PendingUsers'
      PROVE  InHeap(q, users', pending') \/ InList(q, ops')
  <2>1. CASE q = f.user
    BY <1>2, <1>3, <2>1 DEF InHeap, Insert
  <2>2. CASE q # f.user
    <3>1. q \in PendingUsers /\ users'[q] = users[q]
      BY <1>2, <1>5, <2>2 DEF PendingUsers, Insert
    <3>2. CASE InHeap(q, users, pending)
      BY <1>2, <2>2, <3>1, <3>2 DEF InHeap, Insert
    <3>3. CASE InList(q, ops)
      BY <1>4, <3>3
    <3> QED BY <3>1, <3>2, <3>3 DEF Tracked, PendingTracked
  <2> QED BY <2>1, <2>2
<1>6. PendingTracked'
  BY <1>5 DEF PendingTracked, InHeap, InList
<1>7. ASSUME NEW d \in Expiring'
      PROVE  d \in DOMAIN trials' /\ trials'[d] = pool'[d].expires
  <2>1. CASE d = c
    BY <1>2, <1>3, <1>7, <2>1 DEF Expiring, Insert
  <2>2. CASE d # c
    <3>1. d \in Expiring /\ pool'[d] = pool[d]
      BY <1>1, <1>2, <1>7, <2>2 DEF Expiring, Insert
    <3> QED BY <1>2, <2>2, <3>1 DEF Tracked, TrialsTracked, Insert
  <2> QED BY <2>1, <2>2
<1>8. TrialsTracked'
  BY <1>7 DEF TrialsTracked
<1> QED BY <1>4, <1>6, <1>8 DEF Tracked
-----------------------------------------------------------------------------
\* The later parts of a tick take no record without its entry in the heap map.
LEMMA TrialStageTracked ==
    ASSUME NEW g, NEW us, NEW T, NEW p, NEW pe, TrialStage(g, us, T, p, pe)
    PROVE  /\ DOMAIN users' \subseteq DOMAIN users
           /\ \A q \in DOMAIN users' : /\ users'[q] = users[q]
                                       /\ InHeap(q, users, pe) => InHeap(q, users, pending')
           /\ Uninstalling(g) => g.users = {}
<1>1. CASE users' = users /\ pending' = pe /\ (g = Idle \/ g.pc = "create")
  BY <1>1 DEF InHeap, Uninstalling, Idle
<1>2. ASSUME NEW gone, users' = RemoveKeys(users, gone), pending' = RemoveKeys(pe, gone),
             g.users = {}
      PROVE  /\ DOMAIN users' \subseteq DOMAIN users
             /\ \A q \in DOMAIN users' : /\ users'[q] = users[q]
                                         /\ InHeap(q, users, pe) => InHeap(q, users, pending')
             /\ Uninstalling(g) => g.users = {}
  BY <1>2 DEF InHeap, RemoveKeys
<1> QED BY <1>1, <1>2 DEF TrialStage

\* The first part of a tick takes one user and keeps the rest of its list.
LEMMA PendingStageTracked ==
    ASSUME Typed, NEW g, NEW U, U \subseteq Principals, PendingStage(g, U)
    PROVE  /\ DOMAIN users' \subseteq DOMAIN users
           /\ \A q \in DOMAIN users' : users'[q] = users[q]
           /\ Uninstalling(g) /\ g.job = "gc_user" /\ U \cap DOMAIN users' \subseteq g.users
<1>1. PICK u \in U \cap DOMAIN users :
          /\ \A q \in U \cap DOMAIN users : u <= q
          /\ users' = RemoveKeys(users, {u})
          /\ g.pc = "uninstall" /\ g.job = "gc_user" /\ g.users = {q \in U : q > u}
  BY DEF PendingStage
<1>2. ASSUME NEW q \in U \cap DOMAIN users'
      PROVE  q \in g.users
  <2>1. q \in U \cap DOMAIN users /\ q # u
    BY <1>1, <1>2 DEF RemoveKeys
  <2>2. q \in Nat /\ u \in Nat /\ u <= q
    BY <1>1, <2>1, RegistrationAssumption
  <2> QED BY <1>1, <2>1, <2>2
<1> QED BY <1>1, <1>2 DEF RemoveKeys, Uninstalling

\* A tick starts: whoever leaves the heap map is on its list, or gone.
LEMMA TrackedGcTick ==
    ASSUME Typed, Tracked, NEW o \in Operations, GcTick(o)
    PROVE  Tracked'
<1> DEFINE U == ExpiredUsers
           rest == RemoveKeys(pending, U)
<1>1. pool' = pool /\ trials' = trials /\ ops[o] = Idle /\ ~Uninstalling(ops[o])
  BY DEF GcTick, MayStart, Uninstalling, Idle
<1>2. PICK g : /\ ops' = [ops EXCEPT ![o] = g]
               /\ \/ /\ U \cap DOMAIN users = {}
                     /\ \E T \in SUBSET DOMAIN pool : TrialStage(g, {}, T, pool, rest)
                  \/ PendingStage(g, U) /\ pending' = rest
  BY GcTickFacts
<1>3. U \subseteq Principals
  BY DEF ExpiredUsers, Typed
<1>4. \A q \in DOMAIN users : InHeap(q, users, pending) => InHeap(q, users, rest) \/ q \in U
  BY DEF InHeap, RemoveKeys
<1> HIDE DEF U, rest
<1> DEFINE Kept ==
           /\ DOMAIN users' \subseteq DOMAIN users
           /\ \A q \in DOMAIN users' :
                 /\ users'[q] = users[q]
                 /\ InHeap(q, users, pending) =>
                       InHeap(q, users, pending') \/ (Uninstalling(g) /\ q \in g.users)
           /\ ListOK(g)
<1>5. Kept
  <2>1. ASSUME U \cap DOMAIN users = {}, NEW T, TrialStage(g, {}, T, pool, rest)
        PROVE  Kept
    BY <1>4, <2>1, TrialStageTracked DEF ListOK
  <2>2. CASE PendingStage(g, U) /\ pending' = rest
    BY <1>3, <1>4, <2>2, PendingStageTracked DEF ListOK
  <2> QED BY <1>2, <2>1, <2>2
<1>6. ListsOK' /\ \A q \in DOMAIN users' : InList(q, ops) => InList(q, ops')
  BY <1>1, <1>2, <1>5, ListsStep DEF Tracked
<1>7. ops'[o] = g
  BY <1>2 DEF Typed, OpsOK
<1>8. PendingTracked'
  BY <1>5, <1>6, <1>7, PendingStep DEF Tracked, InList
<1>9. TrialsTracked'
  BY <1>1 DEF Tracked, TrialsTracked, Expiring
<1> QED BY <1>6, <1>8, <1>9 DEF Tracked

\* A tick goes on with its lists.
LEMMA TrackedGcReturned ==
    ASSUME Typed, Tracked, NEW o \in Operations, GcReturned(o)
    PROVE  Tracked'
<1> DEFINE f == ops[o]
           c == f.canister
<1>1. /\ c \in DOMAIN pool /\ pool' = ReturnedPool(c)
  BY GcReturnedFacts
<1>2. PICK g : /\ ops' = [ops EXCEPT ![o] = g]
               /\ \/ /\ f.job = "gc_user" => f.users \cap DOMAIN users = {}
                     /\ \E T \in SUBSET DOMAIN pool : TrialStage(g, f.users, T, pool', pending)
                  \/ f.job = "gc_user" /\ PendingStage(g, f.users) /\ pending' = pending
  BY GcReturnedFacts
<1>3. f.users \subseteq Principals /\ trials' = RemoveKeys(trials, {c})
      /\ (f.users # {} => f.job = "gc_user")
  BY DEF GcReturned, Typed, OpsOK, FrameOK, Frames, Tracked, ListsOK, ListOK, Uninstalling
<1> DEFINE Kept ==
           /\ DOMAIN users' \subseteq DOMAIN users
           /\ \A q \in DOMAIN users' :
                 /\ users'[q] = users[q]
                 /\ InHeap(q, users, pending) => InHeap(q, users, pending')
           /\ ListOK(g)
           /\ \A q \in f.users \cap DOMAIN users' : Uninstalling(g) /\ q \in g.users
<1>4. Kept
  <2> HIDE DEF f
  <2>1. ASSUME f.job = "gc_user" => f.users \cap DOMAIN users = {},
               NEW T, TrialStage(g, f.users, T, pool', pending)
        PROVE  Kept
    <3>1. f.users \cap DOMAIN users = {}
      BY <1>3, <2>1
    <3>2. /\ DOMAIN users' \subseteq DOMAIN users
          /\ \A q \in DOMAIN users' :
                /\ users'[q] = users[q]
                /\ InHeap(q, users, pending) => InHeap(q, users, pending')
          /\ Uninstalling(g) => g.users = {}
      BY <2>1, TrialStageTracked
    <3> QED BY <3>1, <3>2 DEF ListOK
  <2>2. CASE PendingStage(g, f.users) /\ pending' = pending
    BY <1>3, <2>2, PendingStageTracked DEF ListOK
  <2> QED BY <1>2, <2>1, <2>2
<1>5. ListsOK' /\ \A q \in DOMAIN users' : InList(q, ops) => InList(q, ops')
  BY <1>2, <1>4, ListsStep DEF Tracked
<1>6. PendingTracked'
  BY <1>4, <1>5, PendingStep DEF Tracked
<1>7. TrialsTracked'
  BY <1>1, <1>3, ReturnedTracked DEF Tracked
<1> QED BY <1>5, <1>6, <1>7 DEF Tracked

\* A new canister is nobody's.
LEMMA GrowTracked ==
    ASSUME Typed, TrialsTracked, AddCanister, trials' = trials
    PROVE  TrialsTracked'
<1>1. PICK c \in Canisters \ DOMAIN pool :
          /\ DOMAIN pool' = DOMAIN pool \cup {c}
          /\ pool'[c] = [owner |-> None, expires |-> None]
          /\ \A d \in DOMAIN pool : pool'[d] = pool[d]
  BY AddFacts DEF Typed
<1> QED BY <1>1 DEF TrialsTracked, Expiring

\* The replenishment of the pool.
LEMMA TrackedGcCreated ==
    ASSUME Typed, Tracked, NEW o \in Operations, GcCreated(o)
    PROVE  Tracked'
<1> DEFINE g == [ops[o] EXCEPT !.creates = ops[o].creates - 1]
           h == IF ops[o].creates = 1 THEN Idle ELSE g
<1>1. ops[o].pc = "create" /\ ops[o] \in Frames /\ UNCHANGED <<users, trials, pending>>
  BY DEF GcCreated, Typed, OpsOK, FrameOK
<1>2. /\ \/ AddCanister /\ ops' = [ops EXCEPT ![o] = h]
         \/ UNCHANGED <<pool, available>> /\ ops' = [ops EXCEPT ![o] = Idle]
      /\ g.pc = "create"
  BY <1>1 DEF GcCreated, Frames
<1>3. PICK k : ops' = [ops EXCEPT ![o] = k] /\ ~Uninstalling(k)
  <2> HIDE DEF g
  <2> QED BY <1>2 DEF Uninstalling, Idle
<1>4. ListsOK' /\ \A q : InList(q, ops) => InList(q, ops')
  BY <1>1, <1>3, EmptyLists DEF Tracked, Uninstalling
<1>5. PendingTracked'
  BY <1>1, <1>4, PendingStep DEF Tracked
<1>6. TrialsTracked'
  <2>1. CASE AddCanister
    BY <1>1, <2>1, GrowTracked DEF Tracked
  <2>2. CASE pool' = pool
    BY <1>1, <2>2 DEF Tracked, TrialsTracked, Expiring
  <2> QED BY <1>2, <2>1, <2>2
<1> QED BY <1>4, <1>5, <1>6 DEF Tracked
-----------------------------------------------------------------------------
\* Provisioning and the other calls of managers.
LEMMA TrackedManagers ==
    ASSUME Typed, Tracked, ProvisionCanister \/ GovernanceStep
    PROVE  Tracked'
<1>1. UNCHANGED <<users, pending, ops>>
  BY DEF ProvisionCanister, GovernanceStep, ClaimManagerRole, AddManager, RemoveManager
<1>2. ListsOK' /\ PendingTracked'
  BY <1>1 DEF Tracked, ListsOK, ListOK, Uninstalling, PendingTracked, PendingUsers,
     InHeap, InList
<1>3. TrialsTracked'
  <2>1. CASE ProvisionCanister
    BY <2>1, GrowTracked DEF ProvisionCanister, Tracked
  <2>2. CASE UNCHANGED <<trials, pool>>
    BY <2>2 DEF Tracked, TrialsTracked, Expiring
  <2>3. ASSUME NEW c, trials' = RemoveKeys(trials, {c}),
               pool' = IF c \in DOMAIN pool /\ pool[c].owner # None
                       THEN [pool EXCEPT ![c].expires = None] ELSE pool
        PROVE  TrialsTracked'
    <3>1. CASE c \in DOMAIN pool /\ pool[c].owner # None
      <4>1. pool[c] \in PoolRecord
        BY <3>1 DEF Typed, PoolOK
      <4>2. PICK r : r = [pool[c] EXCEPT !.expires = None]
        OBVIOUS
      <4>3. r.expires = None
        BY <4>1, <4>2 DEF PoolRecord
      <4>4. DOMAIN pool' = DOMAIN pool /\ pool'[c] = r
            /\ \A d \in DOMAIN pool : d # c => pool'[d] = pool[d]
        BY <2>3, <3>1, <4>2
      <4> QED BY <2>3, <4>3, <4>4 DEF Tracked, TrialsTracked, Expiring, RemoveKeys
    <3>2. CASE ~(c \in DOMAIN pool /\ pool[c].owner # None)
      BY <2>3, <3>2 DEF Tracked, TrialsTracked, Expiring, RemoveKeys
    <3> QED BY <3>1, <3>2
  <2> QED BY <2>1, <2>2, <2>3
        DEF GovernanceStep, ClaimManagerRole, AddManager, RemoveManager
<1> QED BY <1>2, <1>3 DEF Tracked

\* The management canister answers: the frame keeps its list.
LEMMA TrackedManagement ==
    ASSUME Typed, Tracked, NEW o \in Operations, UninstallCode(o) \/ InstallCode(o)
    PROVE  Tracked'
<1>1. UNCHANGED <<users, pool, trials, pending>> /\ ops[o] \in Frames
  BY DEF UninstallCode, InstallCode, index, Typed, OpsOK
<1>2. PICK g : /\ ops' = [ops EXCEPT ![o] = g] /\ ListOK(g)
               /\ Uninstalling(ops[o]) => Uninstalling(g) /\ g.users = ops[o].users
  <2>1. CASE UninstallCode(o)
    <3> DEFINE g == [ops[o] EXCEPT !.pc = "uninstalled"]
    <3>1. ops' = [ops EXCEPT ![o] = g] /\ Uninstalling(ops[o])
      BY <2>1 DEF UninstallCode, Uninstalling
    <3>2. g.pc = "uninstalled" /\ g.users = ops[o].users /\ g.job = ops[o].job
      BY <1>1 DEF Frames
    <3>3. ListOK(ops[o])
      BY DEF Tracked, ListsOK
    <3> HIDE DEF g
    <3>4. ListOK(g) /\ Uninstalling(g)
      BY <3>1, <3>2, <3>3 DEF ListOK, Uninstalling
    <3> QED BY <3>1, <3>2, <3>4
  <2>2. CASE InstallCode(o)
    <3>1. ~Uninstalling(ops[o])
      BY <2>2 DEF InstallCode, Uninstalling
    <3>2. PICK g : ops' = [ops EXCEPT ![o] = g] /\ ~Uninstalling(g)
      <4>1. CASE ops' = [ops EXCEPT ![o].pc = "installed"]
        <5>1. [ops[o] EXCEPT !.pc = "installed"].pc = "installed"
          BY <1>1 DEF Frames
        <5> QED BY <4>1, <5>1 DEF Uninstalling
      <4>2. CASE ops' = [ops EXCEPT ![o] = Idle]
        <5>1. ~Uninstalling(Idle)
          BY DEF Uninstalling, Idle
        <5> QED BY <4>2, <5>1
      <4>3. \/ ops' = [ops EXCEPT ![o].pc = "installed"]
            \/ ops' = [ops EXCEPT ![o] = Idle]
        BY <2>2 DEF InstallCode
      <4> QED BY <4>1, <4>2, <4>3
    <3> QED BY <3>1, <3>2 DEF ListOK
  <2> QED BY <2>1, <2>2
<1>3. ListsOK' /\ \A q \in DOMAIN users' : InList(q, ops) => InList(q, ops')
  BY <1>2, ListsStep DEF Tracked
<1>4. PendingTracked'
  BY <1>1, <1>3, PendingStep DEF Tracked
<1>5. TrialsTracked'
  BY <1>1 DEF Tracked, TrialsTracked, Expiring
<1> QED BY <1>3, <1>4, <1>5 DEF Tracked

\* Finalizations: a confirmed user no longer expires.
LEMMA TrackedFinalize == Typed /\ Tracked /\ FinalizeStep => Tracked'
<1> SUFFICES ASSUME Typed, Tracked, NEW p \in Principals,
                    \/ \E c \in Canisters : FinalizeRegistration(p, c)
                    \/ GetUserAssignment(p) \/ ConfirmRegistration(p) \/ BindOwner(p)
             PROVE  Tracked'
  BY DEF FinalizeStep
<1>1. UNCHANGED <<pool, trials, ops>>
  BY DEF FinalizeRegistration, GetUserAssignment, ConfirmRegistration, BindOwner, index
<1>2. ListsOK' /\ TrialsTracked'
  BY <1>1 DEF Tracked, ListsOK, ListOK, Uninstalling, TrialsTracked, Expiring
<1>3. PendingTracked'
  <2>1. CASE UNCHANGED <<users, pending>>
    BY <1>1, <2>1 DEF Tracked, PendingTracked, PendingUsers, InHeap, InList
  <2>2. CASE /\ AssignedTo(p, finalizing[p].canister)
             /\ users' = [users EXCEPT ![p].status = "Active"]
             /\ pending' = IF users[p].status = "Active" THEN pending
                           ELSE RemoveKeys(pending, {p})
    <3>1. /\ p \in DOMAIN users /\ DOMAIN users' = DOMAIN users
          /\ \A q \in DOMAIN users : q # p => users'[q] = users[q]
      BY <2>2 DEF AssignedTo
    <3>2. users'[p].status = "Active"
      <4>1. users[p] \in UserRecord(DOMAIN pool)
        BY <3>1 DEF Typed, UsersOK
      <4>2. [users[p] EXCEPT !.status = "Active"].status = "Active"
        BY <4>1 DEF UserRecord
      <4> QED BY <2>2, <3>1, <4>2
    <3>3. ASSUME NEW q \in PendingUsers'
          PROVE  InHeap(q, users', pending') \/ InList(q, ops')
      <4>1. q # p /\ q \in PendingUsers /\ users'[q] = users[q]
        BY <3>1, <3>2, <3>3 DEF PendingUsers
      <4>2. InHeap(q, users, pending) \/ InList(q, ops)
        BY <4>1 DEF Tracked, PendingTracked
      <4>3. CASE InHeap(q, users, pending)
        BY <2>2, <4>1, <4>3 DEF InHeap, RemoveKeys
      <4>4. CASE InList(q, ops)
        BY <1>1, <4>4
      <4> QED BY <4>2, <4>3, <4>4
    <3> QED BY <3>3 DEF PendingTracked, InHeap, InList
  <2> QED BY <2>1, <2>2 DEF FinalizeRegistration, GetUserAssignment,
             ConfirmRegistration, BindOwner, index
<1> QED BY <1>2, <1>3 DEF Tracked

\* An upgrade rebuilds the heap maps from the records; the clock touches none.
LEMMA TrackedOthers == Typed /\ Tracked /\ (Upgrade \/ TimePasses \/ UNCHANGED vars) => Tracked'
<1>1. ASSUME Tracked, TimePasses \/ UNCHANGED vars PROVE Tracked'
  <2>1. UNCHANGED <<index, ops>>
    BY <1>1 DEF TimePasses, vars
  <2> QED BY <1>1, <2>1 DEF Tracked, ListsOK, ListOK, Uninstalling, PendingTracked,
             PendingUsers, InHeap, InList, TrialsTracked, Expiring, index
<1>2. ASSUME Tracked, Upgrade PROVE Tracked'
  <2>1. /\ users' = users /\ pool' = pool /\ ops' = ops
        /\ pending' = [p \in PendingUsers |-> users[p].ts]
        /\ trials' = [c \in Expiring |-> pool[c].expires]
    BY <1>2 DEF Upgrade
  <2>2. PendingUsers' = PendingUsers /\ Expiring' = Expiring
    BY <2>1 DEF PendingUsers, Expiring
  <2>3. ListsOK'
    BY <1>2, <2>1 DEF Tracked, ListsOK, ListOK, Uninstalling
  <2>4. PendingTracked' /\ TrialsTracked'
    BY <2>1, <2>2 DEF PendingTracked, TrialsTracked, InHeap
  <2> QED BY <2>3, <2>4 DEF Tracked
<1> QED BY <1>1, <1>2

\* Every step keeps track of what may expire.
LEMMA TrackedStep == Typed /\ Tracked /\ [Next]_vars => Tracked'
<1> SUFFICES ASSUME Typed, Tracked, [Next]_vars PROVE Tracked'
  OBVIOUS
<1>1. CASE IndexStep
  BY <1>1, TrackedRegisterUser, TrackedRegisterReturned, TrackedRegisterInstalled,
     TrackedGcTick, TrackedGcReturned, TrackedGcCreated DEF IndexStep
<1>2. CASE ManagementStep
  BY <1>2, TrackedManagement DEF ManagementStep
<1> QED BY <1>1, <1>2, TrackedManagers, TrackedFinalize, TrackedOthers DEF Next

\* However many registrations, also of one user, ticks and confirmations are
\* under way at once, and whatever upgrades and failed calls fall between their
\* messages: every pending registration and every trial that may expire is where
\* the garbage collection will find it, with the time it expires.
THEOREM ExpiriesTracked == Spec => []ExpiriesAreTracked
<1>1. Init => Typed /\ Tracked
  BY TypedInit, TrackedInit
<1>2. Typed /\ Tracked /\ [Next]_vars => (Typed /\ Tracked)'
  BY TypedStep, TrackedStep
<1>3. Typed /\ Tracked => ExpiriesAreTracked
  BY TrackedMeaning
<1> QED BY <1>1, <1>2, <1>3, PTL DEF Spec
=============================================================================
