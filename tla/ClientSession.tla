---------------------------- MODULE ClientSession ----------------------------
(***************************************************************************)
(* The session of the browser client: signing in with Internet Identity,   *)
(* finding or registering the user's canister, the vault whose key never   *)
(* leaves the browser, signing out, and what providers.tsx fetches for a   *)
(* registered user.  A user's canister and data are named by the user.     *)
(* Internet Identity is external.  A call that changes the index or a user *)
(* canister is executed or not, whatever its caller is told.               *)
(* An action is what runs between two awaits; deriving a key is part of    *)
(* the step that it ends.  The root folder, the lists of nodes and the     *)
(* governance data, which a registered user's session fetches too, are in  *)
(* ClientFiles and ClientSettings.                                         *)
(***************************************************************************)
EXTENDS Naturals, FiniteSets

CONSTANTS Users, Nobody,
          MaxVisits,    \* bound: times somebody signs in or reloads the page
          MaxSetups     \* bound: PINs chosen for a new vault

ASSUME SessionBounds == MaxVisits \in Nat /\ MaxSetups \in Nat /\ Nobody \notin Users

VARIABLES
    auth,       \* the auth store
    cachedKey,  \* sessionStorage["gpt_root_key"]
    identity,   \* external: the delegation AuthClient stores, and whether it is accepted
    accounts,   \* of the index: "none" or "assigned", for each user
    vaults,     \* the key whose salt and validator a canister stores
    held,       \* whose data the other stores hold
    calls,      \* async functions that wait for a reply
    shown,      \* what the effects of providers.tsx saw last
    visits,     \* logins and reloads so far
    setups      \* PINs chosen so far

accountVars == <<identity, accounts, vaults>>
sessionVars == <<auth, cachedKey, accountVars, held, calls, shown, visits, setups>>

Statuses == {"INITIALIZING", "UNAUTHENTICATED", "AUTHENTICATING_II", "PENDING_SETUP",
             "REGISTERED", "SETUP_ERROR", "VAULT_LOCKED", "SETUP_VAULT"}

\* A key is derived from a user's PIN and a salt: the n-th that was drawn, or
\* the one that was stored before.
KeyOf(user, n) == [user |-> user, salt |-> n]
NoKey == KeyOf(Nobody, 0)

KeyCall(kind, user, key) == [kind |-> kind, user |-> user, key |-> key]
Call(kind, user) == KeyCall(kind, user, NoKey)

\* initialState of the stores, and the effect of providers.tsx that calls initAuth.
FreshAuth == [status |-> "INITIALIZING", client |-> FALSE, principal |-> Nobody,
              canister |-> Nobody, key |-> NoKey, expired |-> FALSE]
FreshStores == [chats |-> Nobody, fetched |-> FALSE, nodes |-> Nobody]
FreshEffects == [status |-> "INITIALIZING", canister |-> Nobody, secondary |-> FALSE]

SessionInit ==
    /\ auth = FreshAuth
    /\ cachedKey = NoKey
    /\ identity = [user |-> Nobody, valid |-> TRUE]
    /\ accounts \in [Users -> {"none", "assigned"}]
    /\ \E V \in SUBSET {u \in Users : accounts[u] = "assigned"} :
         vaults = [u \in Users |-> IF u \in V THEN KeyOf(u, 0) ELSE NoKey]
    /\ held = FreshStores
    /\ calls = {Call("create", Nobody)}
    /\ shown = FreshEffects
    /\ visits = 0 /\ setups = 0

Reply(c, kind) == c \in calls /\ c.kind = kind
Rest(c) == calls \ {c}

\* register_user gives the user a canister; finalize_registration
\* stores salt and validator, unless the owner has stored some before.
Assigns(c) == IF c.kind = "register" THEN [accounts EXCEPT ![c.user] = "assigned"] ELSE accounts
Stores(c) ==
    IF c.kind = "setup" /\ vaults[c.user] = NoKey THEN [vaults EXCEPT ![c.user] = c.key] ELSE vaults

-----------------------------------------------------------------------------
(* The life cycle.                                                          *)

\* logout up to its await, called with the auth store st and the calls cs: the
\* cached key goes first.
StartLogout(st, cs) ==
    /\ auth' = st
    /\ cachedKey' = NoKey
    /\ calls' = cs \cup {Call("logout", IF st.client THEN st.principal ELSE Nobody)}

\* handleInvalidDelegationError.
InvalidDelegation(st, cs) ==
    IF st.expired THEN auth' = st /\ calls' = cs /\ UNCHANGED cachedKey
    ELSE StartLogout([st EXCEPT !.expired = TRUE], cs)

\* setAuthError.
Fails(st) == [st EXCEPT !.status = "SETUP_ERROR"]

\* What follows the await of initAuth, with the auth store st: login goes on
\* if there is a client.
AfterInit(c, st, cs) ==
    IF c.kind \in {"create", "validate"} THEN auth' = st /\ calls' = cs
    ELSE IF st.client
    THEN /\ auth' = [st EXCEPT !.status = "AUTHENTICATING_II", !.expired = FALSE]
         /\ calls' = cs \cup {Call("login", Nobody)}
    ELSE auth' = Fails(st) /\ calls' = cs

Initialized(user) ==
    [auth EXCEPT !.client = TRUE, !.principal = user, !.canister = Nobody,
                 !.status = IF user = Nobody THEN "UNAUTHENTICATED" ELSE "PENDING_SETUP"]

\* initAuth: AuthClient.create and isAuthenticated; a stored delegation is tried.
ClientCreated(c) ==
    /\ c.kind \in {"create", "createForLogin"}
    /\ IF identity.user = Nobody THEN AfterInit(c, Initialized(Nobody), Rest(c))
       ELSE /\ calls' = Rest(c) \cup {Call(IF c.kind = "create" THEN "validate" ELSE "validateForLogin",
                                           identity.user)}
            /\ UNCHANGED auth
    /\ UNCHANGED <<cachedKey, accountVars, held, shown, visits, setups>>

ClientFails(c) ==
    /\ c.kind \in {"create", "createForLogin"}
    /\ AfterInit(c, Fails(auth), Rest(c))
    /\ UNCHANGED <<cachedKey, accountVars, held, shown, visits, setups>>

\* Only a certified rejection of the delegation ends the session.  The store has
\* no client yet, so that the logout does not make AuthClient forget it.
Validated(c) ==
    /\ c.kind \in {"validate", "validateForLogin"}
    /\ \/ /\ ~identity.valid
          /\ cachedKey' = NoKey
          /\ AfterInit(c, [auth EXCEPT !.expired = TRUE], Rest(c) \cup {Call("logout", Nobody)})
       \/ /\ AfterInit(c, Initialized(c.user), Rest(c))
          /\ UNCHANGED cachedKey
    /\ UNCHANGED <<accountVars, held, shown, visits, setups>>

\* login: without a client, initAuth is tried first.
Login ==
    /\ auth.status = "UNAUTHENTICATED" /\ visits < MaxVisits
    /\ visits' = visits + 1
    /\ IF auth.client
       THEN /\ auth' = [auth EXCEPT !.status = "AUTHENTICATING_II", !.expired = FALSE]
            /\ calls' = calls \cup {Call("login", Nobody)}
       ELSE /\ auth' = [auth EXCEPT !.status = "INITIALIZING", !.expired = FALSE]
            /\ calls' = calls \cup {Call("createForLogin", Nobody)}
    /\ UNCHANGED <<cachedKey, accountVars, held, shown, setups>>

LoginSucceeds(c, u) ==
    /\ Reply(c, "login")
    /\ identity' = [user |-> u, valid |-> TRUE]
    /\ auth' = [auth EXCEPT !.principal = u, !.status = "PENDING_SETUP", !.canister = Nobody,
                            !.expired = FALSE]
    /\ calls' = Rest(c)
    /\ UNCHANGED <<cachedKey, accounts, vaults, held, shown, visits, setups>>

\* Internet Identity reports an error, or cannot be asked.
LoginFails(c) ==
    /\ Reply(c, "login")
    /\ auth' \in {[auth EXCEPT !.status = "UNAUTHENTICATED"], Fails(auth)}
    /\ calls' = Rest(c)
    /\ UNCHANGED <<cachedKey, accountVars, held, shown, visits, setups>>

\* The buttons of AvatarDropdown and FullScreenError.
Logout ==
    /\ auth.status \in {"REGISTERED", "SETUP_ERROR"}
    /\ StartLogout(auth, calls)
    /\ UNCHANGED <<accountVars, held, shown, visits, setups>>

\* AuthClient has forgotten the delegation, and every store is reset.
LogoutEnds(c) ==
    /\ Reply(c, "logout")
    /\ identity' = IF c.user = Nobody THEN identity ELSE [user |-> Nobody, valid |-> TRUE]
    /\ held' = FreshStores
    /\ auth' = [auth EXCEPT !.status = "UNAUTHENTICATED", !.principal = Nobody,
                            !.canister = Nobody, !.key = NoKey, !.expired = FALSE]
    /\ calls' = Rest(c)
    /\ UNCHANGED <<cachedKey, accounts, vaults, shown, visits, setups>>

\* retryUserSetup, from FullScreenError.  The message that initAuth sets is not
\* CRITICAL_INIT_ERROR_MSG: a failed initialization is not tried again.
RetryUserSetup ==
    /\ auth.status = "SETUP_ERROR" /\ auth.principal # Nobody
    /\ auth' = [auth EXCEPT !.status = "PENDING_SETUP"]
    /\ UNCHANGED <<cachedKey, accountVars, held, calls, shown, visits, setups>>

\* The page is loaded again: sessionStorage and the delegation stay, and what
\* the canisters were asked to do, they do or do not.
Reload ==
    /\ visits < MaxVisits /\ auth.status # "INITIALIZING"
    /\ auth' = FreshAuth /\ held' = FreshStores /\ shown' = FreshEffects
    /\ calls' = {Call("create", Nobody)}
    /\ visits' = visits + 1
    /\ vaults' \in {vaults} \cup {Stores(c) : c \in calls}
    /\ UNCHANGED <<cachedKey, identity, accounts, setups>>

\* External: the delegation is refused from now on, or has ended.
DelegationExpires ==
    /\ identity.user # Nobody /\ identity.valid
    /\ identity' \in {[identity EXCEPT !.valid = FALSE], [user |-> Nobody, valid |-> FALSE]}
    /\ UNCHANGED <<auth, cachedKey, accounts, vaults, held, calls, shown, visits, setups>>

-----------------------------------------------------------------------------
(* resolveUserSession.                                                      *)

\* get_user_assignment: the canister, or none yet.
Assigned(c) ==
    /\ Reply(c, "assignment")
    /\ calls' = Rest(c) \cup {Call(IF accounts[c.user] = "none" THEN "register" ELSE "finalized", c.user)}
    /\ UNCHANGED <<auth, cachedKey, accountVars, held, shown, visits, setups>>

\* register_user, and the assignment once more.
RegisterReturns(c) ==
    /\ Reply(c, "register")
    /\ accounts' = Assigns(c)
    /\ calls' = Rest(c) \cup {Call("assignment", c.user)}
    /\ UNCHANGED <<auth, cachedKey, identity, vaults, held, shown, visits, setups>>

\* is_user_finalized: a canister without a vault needs a PIN.
FinalizedReturns(c) ==
    /\ Reply(c, "finalized")
    /\ IF vaults[c.user] # NoKey
       THEN calls' = Rest(c) \cup {Call("whoami", c.user)} /\ UNCHANGED auth
       ELSE /\ auth' = [auth EXCEPT !.status = "SETUP_VAULT", !.canister = c.user]
            /\ calls' = Rest(c)
    /\ UNCHANGED <<cachedKey, accountVars, held, shown, visits, setups>>

\* whoami of a canister that has a vault: a key that is cached is tried.
WhoamiReturns(c) ==
    /\ Reply(c, "whoami")
    /\ IF cachedKey # NoKey
       THEN calls' = Rest(c) \cup {KeyCall("verify", c.user, cachedKey)} /\ UNCHANGED auth
       ELSE /\ auth' = [auth EXCEPT !.status = "VAULT_LOCKED", !.canister = c.user]
            /\ calls' = Rest(c)
    /\ UNCHANGED <<cachedKey, accountVars, held, shown, visits, setups>>

\* verifyKey: a key opens the validator that was made with it.
VerifyKey(key, user) == key = vaults[user]

\* The key that was read before the await unlocks the vault, or the cache is
\* cleared.
KeyVerified(c) ==
    /\ Reply(c, "verify")
    /\ IF VerifyKey(c.key, c.user)
       THEN /\ auth' = [auth EXCEPT !.key = c.key, !.canister = c.user,
                                    !.status = "REGISTERED", !.expired = FALSE]
            /\ UNCHANGED cachedKey
       ELSE /\ auth' = [auth EXCEPT !.status = "VAULT_LOCKED", !.canister = c.user]
            /\ cachedKey' = NoKey
    /\ calls' = Rest(c)
    /\ UNCHANGED <<accountVars, held, shown, visits, setups>>

\* A call of resolveUserSession fails: an invalid delegation ends the session,
\* anything else is an error to retry, whether or not the index has registered
\* the user.
ResolveFails(c) ==
    /\ c \in calls /\ c.kind \in {"assignment", "register", "finalized", "whoami", "verify"}
    /\ \/ ~identity.valid /\ InvalidDelegation(auth, Rest(c))
       \/ auth' = Fails(auth) /\ calls' = Rest(c) /\ UNCHANGED cachedKey
    /\ accounts' \in {accounts, Assigns(c)}
    /\ UNCHANGED <<identity, vaults, held, shown, visits, setups>>

-----------------------------------------------------------------------------
(* The vault: handleSetupSubmit and handleUnlockSubmit of VaultGate, which    *)
(* is disabled while a call is under way.                                     *)

VaultCall == \E c \in calls : c.kind \in {"setup", "unlock"} /\ c.user = auth.canister

SubmitPin(status, kind, key) ==
    /\ auth.status = status /\ auth.client /\ auth.canister # Nobody /\ ~VaultCall
    /\ calls' = calls \cup {KeyCall(kind, auth.canister, key)}
    /\ UNCHANGED <<auth, cachedKey, accountVars, held, shown, visits>>

\* setupVault draws a new salt each time.
SetupVault ==
    /\ setups < MaxSetups
    /\ SubmitPin("SETUP_VAULT", "setup", KeyOf(auth.canister, setups + 1))
    /\ setups' = setups + 1

UnlockVault == SubmitPin("VAULT_LOCKED", "unlock", NoKey) /\ UNCHANGED setups

VaultOpens(c, key) ==
    /\ auth' = [auth EXCEPT !.key = key, !.status = "REGISTERED"]
    /\ cachedKey' = key
    /\ calls' = Rest(c)
    /\ UNCHANGED <<identity, accounts, held, shown, visits, setups>>

\* finalize_registration succeeds for an owner who has a vault, too.
SetupReturns(c) == Reply(c, "setup") /\ vaults' = Stores(c) /\ VaultOpens(c, c.key)

\* whoami, and verifyPin with the right PIN.
UnlockReturns(c) == Reply(c, "unlock") /\ VaultOpens(c, vaults[c.user]) /\ UNCHANGED vaults

\* The call fails, executed or not, or the PIN is wrong: the gate stays.
VaultFails(c) ==
    /\ c \in calls /\ c.kind \in {"setup", "unlock"}
    /\ calls' = Rest(c)
    /\ vaults' \in {vaults, Stores(c)}
    /\ UNCHANGED <<auth, cachedKey, identity, accounts, held, shown, visits, setups>>

-----------------------------------------------------------------------------
(* What a registered user's stores fetch.                                    *)

Registered(st) == st.status = "REGISTERED" /\ st.canister # Nobody

\* Mutant of ChatsReturn: only chats that arrive count as fetched.
ChatsReturnOrNot(c) ==
    /\ Reply(c, "chats")
    /\ \/ held' = [held EXCEPT !.chats = c.user, !.fetched = TRUE]
       \/ UNCHANGED held
    /\ calls' = Rest(c)
    /\ UNCHANGED <<auth, cachedKey, accountVars, shown, visits, setups>>

\* fetchChats: whatever happens, the chats count as fetched.
ChatsReturn(c) ==
    /\ Reply(c, "chats")
    /\ \E data \in {c.user, held.chats} : held' = [held EXCEPT !.chats = data, !.fetched = TRUE]
    /\ calls' = Rest(c)
    /\ UNCHANGED <<auth, cachedKey, accountVars, shown, visits, setups>>

\* fetchAndReconcileNodes: an error leaves what is known.
NodesReturn(c) ==
    /\ Reply(c, "nodes")
    /\ \E data \in {c.user, held.nodes} : held' = [held EXCEPT !.nodes = data]
    /\ calls' = Rest(c)
    /\ UNCHANGED <<auth, cachedKey, accountVars, shown, visits, setups>>

\* fetchUserUsage: the only fetch that recognises an invalid delegation.
UsageReturns(c) ==
    /\ Reply(c, "usage")
    /\ \/ ~identity.valid /\ InvalidDelegation(auth, Rest(c))
       \/ calls' = Rest(c) /\ UNCHANGED <<auth, cachedKey>>
    /\ UNCHANGED <<accountVars, held, shown, visits, setups>>

\* The interval of providers.tsx while the page is visible.
Poll ==
    /\ shown.status = "REGISTERED"
    /\ IF Registered(auth) THEN calls' = calls \cup {Call("nodes", auth.canister)} /\ UNCHANGED held
       ELSE held' = [held EXCEPT !.nodes = Nobody] /\ UNCHANGED calls
    /\ UNCHANGED <<auth, cachedKey, accountVars, shown, visits, setups>>

\* A render, with the effects of providers.tsx: resolveUserSession for a pending
\* session, the chats and the nodes for a new registered one, and once the
\* chats are there the rest, once per session; and the effect of application.tsx
\* that resets the chat store for a page to sign in.
Showing == [status |-> auth.status, canister |-> auth.canister,
            secondary |-> Registered(auth) /\ (held.fetched \/ shown.secondary)]

RenderSession ==
    LET entered == shown.status # auth.status
        moved == entered \/ shown.canister # auth.canister
        u == auth.canister
    IN  /\ shown # Showing
        /\ shown' = Showing
        /\ calls' = calls
             \cup (IF entered /\ auth.status = "PENDING_SETUP" /\ auth.client
                   THEN {Call("assignment", auth.principal)} ELSE {})
             \cup (IF moved /\ Registered(auth) THEN {Call("chats", u)} ELSE {})
             \cup (IF entered /\ Registered(auth) THEN {Call("nodes", u)} ELSE {})
             \cup (IF Showing.secondary /\ ~(shown.secondary /\ ~entered)
                   THEN {Call("nodes", u), Call("usage", u)} ELSE {})
        /\ held' = IF entered /\ auth.status = "UNAUTHENTICATED" THEN FreshStores ELSE held
        /\ UNCHANGED <<auth, cachedKey, accountVars, visits, setups>>

-----------------------------------------------------------------------------
SessionReply(c) ==
    \/ ClientCreated(c) \/ ClientFails(c) \/ Validated(c) \/ LogoutEnds(c)
    \/ Assigned(c) \/ RegisterReturns(c) \/ FinalizedReturns(c) \/ WhoamiReturns(c) \/ KeyVerified(c)
    \/ ResolveFails(c) \/ SetupReturns(c) \/ UnlockReturns(c) \/ VaultFails(c)
    \/ ChatsReturn(c) \/ NodesReturn(c) \/ UsageReturns(c)

SessionUser ==
    \/ Login \/ Logout \/ RetryUserSetup \/ Reload \/ DelegationExpires \/ SetupVault \/ UnlockVault
    \/ \E c \in calls : LoginFails(c) \/ \E u \in Users : LoginSucceeds(c, u)

\* React renders a change of a store before the next event is handled.
Rendered == shown = Showing

SessionNext ==
    \/ RenderSession
    \/ Rendered /\ (SessionUser \/ Poll \/ \E c \in calls : SessionReply(c))

\* Calls return and React renders; nobody has to sign in or enter a PIN.
SessionFairness ==
    /\ WF_sessionVars(RenderSession)
    /\ WF_sessionVars(Rendered /\ \E c \in calls : c.kind = "nodes" /\ SessionReply(c))
    /\ WF_sessionVars(Rendered /\ \E c \in calls : c.kind # "nodes" /\ SessionReply(c))

SessionSpec == SessionInit /\ [][SessionNext]_sessionVars /\ SessionFairness

-----------------------------------------------------------------------------
\* The spinner of providers.tsx goes away, whatever call fails and whenever the
\* delegation ends: the start of a session ends with a PIN to enter, a page to
\* sign in, an error to retry or the app, and the app is shown even if the
\* chats it waits for cannot be fetched.
Spinning ==
    auth.status \in {"INITIALIZING", "PENDING_SETUP"} \/ (Registered(auth) /\ ~held.fetched)
StartupEnds == Spinning ~> ~Spinning

\* The key of a registered session, with which the client encrypts what it
\* stores, is the one that the vault's salt and validator are for: "Argon2id is
\* used to derive a 256-bit Root Key from the user's local PIN and a random
\* 16-byte salt stored in the gpt_user canister" (src/README.md:66).
KeyOpensVault == Registered(auth) => auth.key = vaults[auth.canister]
=============================================================================
