---------------------------- MODULE Registration ----------------------------
(***************************************************************************)
(* How a user gets a canister: register_user and the garbage collection of *)
(* the index canister, which take canisters from a pool and return them to *)
(* it, the management canister that installs and uninstalls code, and      *)
(* finalize_registration of the user canister, which asks the index twice  *)
(* before it binds itself to its owner.                                    *)
(*                                                                         *)
(* The index executes one message at a time, but every call it awaits cuts *)
(* a handler in two.  An operation under way is a frame: what the handler  *)
(* remembers across its await.  A call may fail; its effect, if any, and   *)
(* the continuation of its caller are separate steps.  Principals and      *)
(* canister ids are numbers because the maps are iterated in their order.  *)
(***************************************************************************)
EXTENDS Naturals, FiniteSets, StableMap

CONSTANTS
    Principals,          \* users, a set of positive numbers
    Operations,          \* names for index operations under way
    POOL_TARGET_SIZE,
    PENDING_USER_TIMEOUT, TRIAL_CANISTER_EXPIRY,
    MAX_IN_FLIGHT,       \* bound: index operations under way at once
    MAX_CANISTERS,       \* bound: canisters ever created
    MAX_TIME             \* bound on the clock

ASSUME RegistrationAssumption ==
    /\ Principals \subseteq Nat \ {0}
    /\ POOL_TARGET_SIZE \in Nat /\ MAX_IN_FLIGHT \in Nat
    /\ MAX_CANISTERS \in Nat /\ MAX_TIME \in Nat
    /\ PENDING_USER_TIMEOUT \in Nat /\ TRIAL_CANISTER_EXPIRY \in Nat

VARIABLES
    users,       \* USERS: principal -> canister, status, time of registration
    pool,        \* CANISTER_POOL: canister -> owner, None when Available
    available,   \* AVAILABLE_CANISTERS (heap)
    trials,      \* TRIAL_EXPIRIES (heap): canister -> time of expiry
    pending,     \* PENDING_USERS (heap): principal -> time of registration
    managers,    \* MANAGERS
    ops,         \* operation -> its frame
    wasm,        \* canister -> does it have code
    owner,       \* canister -> the owner its CONFIG binds it to
    finalizing,  \* principal -> its finalize_registration under way
    now

index == <<users, pool, available, trials, pending, managers>>
canisters == <<wasm, owner>>
vars == <<index, ops, canisters, finalizing, now>>

None == 0
Canisters == 1 .. MAX_CANISTERS
Least(S) == CHOOSE x \in S : \A y \in S : x <= y

\* What a handler of the index remembers: whom and what it works for, when it
\* started, what is left of the lists it iterates over.
Idle == [pc |-> "idle", job |-> "none", user |-> None, ts |-> 0,
         canister |-> None, manager |-> FALSE,
         users |-> {}, trials |-> {}, creates |-> 0]

NotFinalizing == [pc |-> "idle", canister |-> None]

Init ==
    /\ users = EmptyMap /\ pool = EmptyMap /\ available = {}
    /\ trials = EmptyMap /\ pending = EmptyMap /\ managers = {}
    /\ ops = [o \in Operations |-> Idle]
    /\ wasm = [c \in Canisters |-> FALSE] /\ owner = [c \in Canisters |-> None]
    /\ finalizing = [p \in Principals |-> NotFinalizing]
    /\ now = 0

PendingExpired(ts, time) == time > ts + PENDING_USER_TIMEOUT
-----------------------------------------------------------------------------
(***************************************************************************)
(* register_user.                                                          *)
(***************************************************************************)
MayStart(o) ==
    /\ ops[o] = Idle
    /\ Cardinality({q \in Operations : ops[q] # Idle}) < MAX_IN_FLIGHT

\* Whether the caller is a manager is decided here, then a canister is taken
\* out of `avail' (take_canister_from_pool) and install_code called; an empty
\* pool ends the registration.
Allocate(o, p, ts, avail) ==
    \/ /\ avail = {}
       /\ available' = avail
       /\ ops' = [ops EXCEPT ![o] = Idle]
    \/ /\ avail # {}
       /\ available' = avail \ {Least(avail)}
       /\ ops' = [ops EXCEPT ![o] = [Idle EXCEPT
                     !.pc = "install", !.job = "register", !.user = p,
                     !.ts = ts, !.canister = Least(avail),
                     !.manager = p \in managers]]

\* Called by an unknown principal, or by one whose registration has expired:
\* then the old canister is returned first.  Any other caller gets the
\* assignment it has, and nothing changes.
RegisterUser(o, p) ==
    /\ MayStart(o)
    /\ \/ /\ p \notin DOMAIN users
          /\ Allocate(o, p, now, available)
       \/ /\ p \in DOMAIN users /\ users[p].status = "Pending"
          /\ PendingExpired(users[p].ts, now)
          /\ ops' = [ops EXCEPT ![o] = [Idle EXCEPT
                        !.pc = "uninstall", !.job = "register", !.user = p,
                        !.ts = now, !.canister = users[p].canister]]
          /\ UNCHANGED available
    /\ UNCHANGED <<users, pool, trials, pending, managers, canisters, finalizing, now>>

\* The tail of return_canister_to_pool, after uninstall_code has answered.
ReturnedPool(c) ==
    IF c \in DOMAIN pool THEN Insert(pool, c, [owner |-> None, expires |-> None])
    ELSE pool

\* Mutant of RegisterReturned: the old record is left to be overwritten.
RegisterReturnedKeepingRecord(o) ==
    /\ ops[o].pc = "uninstalled" /\ ops[o].job = "register"
    /\ pool' = ReturnedPool(ops[o].canister)
    /\ trials' = RemoveKeys(trials, {ops[o].canister})
    /\ Allocate(o, ops[o].user, ops[o].ts, available \cup {ops[o].canister})
    /\ UNCHANGED <<users, pending, managers, canisters, finalizing, now>>

\* register_user goes on: the caller's record, whichever it is now, goes.
RegisterReturned(o) ==
    /\ ops[o].pc = "uninstalled" /\ ops[o].job = "register"
    /\ pool' = ReturnedPool(ops[o].canister)
    /\ trials' = RemoveKeys(trials, {ops[o].canister})
    /\ users' = RemoveKeys(users, {ops[o].user})
    /\ Allocate(o, ops[o].user, ops[o].ts, available \cup {ops[o].canister})
    /\ UNCHANGED <<pending, managers, canisters, finalizing, now>>

\* Managers' canisters never expire; None stands for no expiry.
ExpiryOf(f) == IF f.manager THEN None ELSE f.ts + TRIAL_CANISTER_EXPIRY

RegisterInstalled(o) ==
    /\ ops[o].pc = "installed"
    /\ LET p  == ops[o].user
           c  == ops[o].canister
           ts == ops[o].ts
       IN  /\ pool' = IF c \in DOMAIN pool
                      THEN Insert(pool, c, [owner |-> p, expires |-> ExpiryOf(ops[o])])
                      ELSE pool
           /\ trials' = IF ops[o].manager THEN trials
                        ELSE Insert(trials, c, ExpiryOf(ops[o]))
           /\ users' = Insert(users, p, [canister |-> c, status |-> "Pending", ts |-> ts])
           /\ pending' = Insert(pending, p, ts)
    /\ ops' = [ops EXCEPT ![o] = Idle]
    /\ UNCHANGED <<available, managers, canisters, finalizing, now>>
-----------------------------------------------------------------------------
(***************************************************************************)
(* gc_tick_inner.  From one await to the next is one step, so the stages   *)
(* below pass on the state as changed so far in the same message.          *)
(***************************************************************************)
\* Part 3, replenish_pool.
Replenish(o, f, p) ==
    ops' = [ops EXCEPT ![o] =
        IF Cardinality(DOMAIN p) < POOL_TARGET_SIZE
        THEN [f EXCEPT !.pc = "create",
                       !.creates = POOL_TARGET_SIZE - Cardinality(DOMAIN p)]
        ELSE Idle]

\* Part 2, handle_expired_trial_canister for the least canister of T.
CollectTrials(o, f, T, p, pe) ==
    \/ /\ T = {}
       /\ Replenish(o, f, p)
       /\ pending' = pe
       /\ UNCHANGED users
    \/ /\ T # {}
       /\ LET c == Least(T)
              gone == IF c \in DOMAIN p /\ p[c].owner # None THEN {p[c].owner} ELSE {}
          IN  /\ users' = RemoveKeys(users, gone)
              /\ pending' = RemoveKeys(pe, gone)
              /\ ops' = [ops EXCEPT ![o] = [f EXCEPT
                            !.pc = "uninstall", !.job = "gc_trial",
                            !.canister = c, !.users = {}, !.trials = T \ {c}]]

\* Part 1, handle_expired_pending_user for the least principal of U that is
\* still a user; the ones before it are passed over.  The list of part 2 is
\* made when part 1 is done, with the time at which the tick began.
CollectPending(o, f, U, p, tr, pe) ==
    LET live == U \cap DOMAIN users
    IN  \/ /\ live = {}
           /\ CollectTrials(o, f, {c \in DOMAIN tr : f.ts >= tr[c]}, p, pe)
        \/ /\ live # {}
           /\ LET u == Least(live)
              IN  /\ users' = RemoveKeys(users, {u})
                  /\ ops' = [ops EXCEPT ![o] = [f EXCEPT
                                !.pc = "uninstall", !.job = "gc_user",
                                !.canister = users[u].canister,
                                !.users = {q \in U : q > u}]]
           /\ pending' = pe

GcTick(o) ==
    /\ MayStart(o)
    /\ LET expired == {p \in DOMAIN pending : PendingExpired(pending[p], now)}
       IN  CollectPending(o, [Idle EXCEPT !.ts = now], expired, pool, trials,
                          RemoveKeys(pending, expired))
    /\ UNCHANGED <<pool, available, trials, managers, canisters, finalizing, now>>

\* Mutant of GcReturned: a tick drops its list of users at the first await.
GcReturnedForgettingList(o) ==
    /\ ops[o].pc = "uninstalled" /\ ops[o].job \in {"gc_user", "gc_trial"}
    /\ LET f  == ops[o]
           p  == ReturnedPool(f.canister)
           tr == RemoveKeys(trials, {f.canister})
       IN  /\ pool' = p /\ trials' = tr
           /\ IF f.job = "gc_user" THEN CollectPending(o, f, {}, p, tr, pending)
              ELSE CollectTrials(o, f, f.trials, p, pending)
    /\ available' = available \cup {ops[o].canister}
    /\ UNCHANGED <<managers, canisters, finalizing, now>>

\* uninstall_code has answered: the canister is available, the lists go on.
GcReturned(o) ==
    /\ ops[o].pc = "uninstalled" /\ ops[o].job \in {"gc_user", "gc_trial"}
    /\ LET f  == ops[o]
           p  == ReturnedPool(f.canister)
           tr == RemoveKeys(trials, {f.canister})
       IN  /\ pool' = p /\ trials' = tr
           /\ IF f.job = "gc_user" THEN CollectPending(o, f, f.users, p, tr, pending)
              ELSE CollectTrials(o, f, f.trials, p, pending)
    /\ available' = available \cup {ops[o].canister}
    /\ UNCHANGED <<managers, canisters, finalizing, now>>

\* create_empty_canister_for_pool has answered with the next canister.
AddCanister ==
    LET c == Cardinality(DOMAIN pool) + 1
    IN  /\ c <= MAX_CANISTERS
        /\ pool' = Insert(pool, c, [owner |-> None, expires |-> None])
        /\ available' = available \cup {c}

\* A failure ends the replenishment.
GcCreated(o) ==
    /\ ops[o].pc = "create"
    /\ \/ /\ AddCanister
          /\ ops' = [ops EXCEPT ![o] =
                        IF ops[o].creates = 1 THEN Idle
                        ELSE [ops[o] EXCEPT !.creates = ops[o].creates - 1]]
       \/ /\ UNCHANGED <<pool, available>>
          /\ ops' = [ops EXCEPT ![o] = Idle]
    /\ UNCHANGED <<users, trials, pending, managers, canisters, finalizing, now>>

\* provision_canisters and create_user_canister of a manager, once per canister.
ProvisionCanister ==
    /\ managers # {}
    /\ AddCanister
    /\ UNCHANGED <<users, trials, pending, managers, ops, canisters, finalizing, now>>
-----------------------------------------------------------------------------
(***************************************************************************)
(* Managers.                                                               *)
(***************************************************************************)
\* The first manager's canister, if there is one, becomes permanent.
ClaimManagerRole(p) ==
    /\ managers = {}
    /\ managers' = {p}
    /\ IF p \in DOMAIN users
       THEN LET c == users[p].canister
            IN  /\ trials' = RemoveKeys(trials, {c})
                /\ pool' = IF c \in DOMAIN pool /\ pool[c].owner # None
                           THEN [pool EXCEPT ![c].expires = None] ELSE pool
       ELSE UNCHANGED <<trials, pool>>
    /\ UNCHANGED <<users, available, pending, ops, canisters, finalizing, now>>

AddManager(p) ==
    /\ managers # {}
    /\ managers' = managers \cup {p}
    /\ UNCHANGED <<users, pool, available, trials, pending,
                   ops, canisters, finalizing, now>>

\* The last manager cannot remove itself.
RemoveManager(caller, p) ==
    /\ caller \in managers /\ p \in managers
    /\ ~(managers = {p} /\ caller = p)
    /\ managers' = managers \ {p}
    /\ UNCHANGED <<users, pool, available, trials, pending,
                   ops, canisters, finalizing, now>>
-----------------------------------------------------------------------------
(***************************************************************************)
(* The management canister.  A canister that loses or changes its code     *)
(* loses its state and the calls it was waiting for.                       *)
(***************************************************************************)
Abandoned(c) ==
    [p \in Principals |-> IF finalizing[p].canister = c THEN NotFinalizing
                          ELSE finalizing[p]]

UninstallCode(o) ==
    /\ ops[o].pc = "uninstall"
    /\ ops' = [ops EXCEPT ![o].pc = "uninstalled"]
    /\ \/ /\ wasm' = [wasm EXCEPT ![ops[o].canister] = FALSE]
          /\ owner' = [owner EXCEPT ![ops[o].canister] = None]
          /\ finalizing' = Abandoned(ops[o].canister)
       \/ UNCHANGED <<canisters, finalizing>>
    /\ UNCHANGED <<index, now>>

\* A failure ends register_user, with the canister taken from the pool.
InstallCode(o) ==
    /\ ops[o].pc = "install"
    /\ \/ /\ ops' = [ops EXCEPT ![o].pc = "installed"]
          /\ wasm' = [wasm EXCEPT ![ops[o].canister] = TRUE]
          /\ owner' = [owner EXCEPT ![ops[o].canister] = None]
          /\ finalizing' = Abandoned(ops[o].canister)
       \/ /\ ops' = [ops EXCEPT ![o] = Idle]
          /\ UNCHANGED <<canisters, finalizing>>
    /\ UNCHANGED <<index, now>>
-----------------------------------------------------------------------------
(***************************************************************************)
(* finalize_registration, on an unbound user canister.  On a bound one it  *)
(* answers at once and changes nothing modelled here.                      *)
(***************************************************************************)
FinalizeRegistration(p, c) ==
    /\ finalizing[p] = NotFinalizing
    /\ wasm[c] /\ owner[c] = None
    /\ finalizing' = [finalizing EXCEPT ![p] = [pc |-> "verify", canister |-> c]]
    /\ UNCHANGED <<index, ops, canisters, now>>

AssignedTo(p, c) == p \in DOMAIN users /\ users[p].canister = c

\* get_user_assignment; a wrong answer or an error ends the finalization.
GetUserAssignment(p) ==
    /\ finalizing[p].pc = "verify"
    /\ \/ /\ AssignedTo(p, finalizing[p].canister)
          /\ finalizing' = [finalizing EXCEPT ![p].pc = "confirm"]
       \/ finalizing' = [finalizing EXCEPT ![p] = NotFinalizing]
    /\ UNCHANGED <<index, ops, canisters, now>>

\* confirm_registration; a refusal or a failed call ends the finalization.
ConfirmRegistration(p) ==
    /\ finalizing[p].pc = "confirm"
    /\ \/ /\ AssignedTo(p, finalizing[p].canister)
          /\ users' = [users EXCEPT ![p].status = "Active"]
          /\ pending' = IF users[p].status = "Active" THEN pending
                        ELSE RemoveKeys(pending, {p})
          /\ finalizing' = [finalizing EXCEPT ![p].pc = "bind"]
       \/ /\ finalizing' = [finalizing EXCEPT ![p] = NotFinalizing]
          /\ UNCHANGED <<users, pending>>
    /\ UNCHANGED <<pool, available, trials, managers, ops, canisters, now>>

\* bind_owner refuses a canister another principal has bound meanwhile.
BindOwner(p) ==
    /\ finalizing[p].pc = "bind"
    /\ owner' = [owner EXCEPT ![finalizing[p].canister] =
                    IF @ = None THEN p ELSE @]
    /\ finalizing' = [finalizing EXCEPT ![p] = NotFinalizing]
    /\ UNCHANGED <<index, ops, wasm, now>>
-----------------------------------------------------------------------------
(***************************************************************************)
(* post_upgrade rebuilds the heap maps from the stable ones.  Stopping the *)
(* index first waits for its operations.                                   *)
(***************************************************************************)
Listed == {c \in DOMAIN pool : pool[c].owner = None}
Expiring == {c \in DOMAIN pool : pool[c].owner # None /\ pool[c].expires # None}
PendingUsers == {p \in DOMAIN users : users[p].status = "Pending"}

Upgrade ==
    /\ \A o \in Operations : ops[o] = Idle
    /\ pending' = [p \in PendingUsers |-> users[p].ts]
    /\ available' = Listed
    /\ trials' = [c \in Expiring |-> pool[c].expires]
    /\ UNCHANGED <<users, pool, managers, ops, canisters, finalizing, now>>

TimePasses ==
    /\ now < MAX_TIME
    /\ now' = now + 1
    /\ UNCHANGED <<index, ops, canisters, finalizing>>

IndexStep ==
    \E o \in Operations :
        \/ \E p \in Principals : RegisterUser(o, p)
        \/ RegisterReturned(o) \/ RegisterInstalled(o)
        \/ GcTick(o) \/ GcReturned(o) \/ GcCreated(o)

ManagementStep == \E o \in Operations : UninstallCode(o) \/ InstallCode(o)

FinalizeStep ==
    \E p \in Principals :
        \/ \E c \in Canisters : FinalizeRegistration(p, c)
        \/ GetUserAssignment(p) \/ ConfirmRegistration(p) \/ BindOwner(p)

GovernanceStep ==
    \E p \in Principals :
        \/ ClaimManagerRole(p) \/ AddManager(p)
        \/ \E caller \in Principals : RemoveManager(caller, p)

Next == \/ IndexStep \/ GovernanceStep \/ ManagementStep \/ FinalizeStep
        \/ ProvisionCanister \/ Upgrade \/ TimePasses

Spec == Init /\ [][Next]_vars
-----------------------------------------------------------------------------
(***************************************************************************)
(* Properties.                                                             *)
(***************************************************************************)
Times == 0 .. MAX_TIME
Frames ==
    [pc : {"idle", "uninstall", "uninstalled", "install", "installed", "create"},
     job : {"none", "register", "gc_user", "gc_trial"},
     user : Principals \cup {None}, ts : Times,
     canister : Canisters \cup {None}, manager : BOOLEAN, users : SUBSET Principals,
     trials : SUBSET Canisters, creates : 0 .. POOL_TARGET_SIZE]

\* The maps hold what their stable or heap types say; an expiry lies after
\* the registration it was computed from.
TypeOK ==
    /\ DOMAIN users \subseteq Principals
    /\ \A p \in DOMAIN users : users[p] \in
          [canister : Canisters, status : {"Pending", "Active"}, ts : Times]
    /\ DOMAIN pool \subseteq Canisters
    /\ \A c \in DOMAIN pool : pool[c] \in
          [owner : Principals \cup {None},
           expires : 0 .. MAX_TIME + TRIAL_CANISTER_EXPIRY]
    /\ available \subseteq DOMAIN pool /\ DOMAIN trials \subseteq DOMAIN pool
    /\ DOMAIN pending \subseteq Principals /\ managers \subseteq Principals
    /\ ops \in [Operations -> Frames]
    /\ wasm \in [Canisters -> BOOLEAN]
    /\ owner \in [Canisters -> Principals \cup {None}]
    /\ finalizing \in [Principals -> [pc : {"idle", "verify", "confirm", "bind"},
                                      canister : Canisters \cup {None}]]
    /\ now \in Times

\* No two users of USERS have the same canister: what register_user takes from
\* the pool nobody else has, however registrations interleave.
NoSharing ==
    \A p, q \in DOMAIN users : users[p].canister = users[q].canister => p = q

\* take_canister_from_pool never hands out a canister that a user still has,
\* nor does an upgrade make it available: between return_canister_to_pool and
\* the removal of the record there is no state in which both hold.
AvailableIsUnassigned ==
    \A p \in DOMAIN users : users[p].canister \notin available \cup Listed

\* Every registration that may expire is in the heap map the garbage
\* collection reads, with its own time, or in the list a tick that awaits a call
\* is working through; every canister that may expire is in the other heap map.
\* One that is in neither is never collected.  It holds however registrations
\* of one or of several users, ticks, confirmations and upgrades overlap.
ExpiriesAreTracked ==
    /\ \A p \in PendingUsers :
          \/ p \in DOMAIN pending /\ pending[p] = users[p].ts
          \/ \E o \in Operations : /\ ops[o].pc \in {"uninstall", "uninstalled"}
                                   /\ p \in ops[o].users
    /\ \A c \in Expiring : c \in DOMAIN trials /\ trials[c] = pool[c].expires

\* The canister assigned to a user is unbound or bound to that user, so
\* that bind_owner succeeds and nobody else's binding outlives a reassignment.
OwnersMatch ==
    \A p \in DOMAIN users : owner[users[p].canister] \in {None, p}

\* No canister is lost: each one can be taken, is in use by an operation or a
\* user, will expire, or is Available for the next upgrade to find.
CanistersAreKept ==
    \A c \in DOMAIN pool :
        \/ c \in available \cup DOMAIN trials \cup Listed
        \/ \E o \in Operations : ops[o].canister = c
        \/ \E p \in DOMAIN users : users[p].canister = c

\* The index's records, its pool and the bindings of the canisters agree:
\* nobody's canister can be handed out, none is bound to somebody else, and none
\* is lost, however registrations, confirmations, collections and upgrades follow
\* each other.
PoolIsSound == TypeOK /\ AvailableIsUnassigned /\ OwnersMatch /\ CanistersAreKept
=============================================================================
