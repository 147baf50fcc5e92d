--------------------------- MODULE ClientBranches ---------------------------
(***************************************************************************)
(* The tree of a chat's messages: what the user canister keeps, what the   *)
(* client holds in its Map, and the branch of it that the page shows       *)
(* (components/chat/ChatPage.tsx, utils/messageTree.ts, MessageItem.tsx).  *)
(*                                                                         *)
(* The two trees differ.  An edit removes the old message on the canister  *)
(* while the client keeps it; a continuation after tool calls hangs below  *)
(* tool messages on the canister and below the assistant's message on the  *)
(* client, until the next fetch.  A generation is over before the next one *)
(* of the chat is asked for; times of creation are numbers of turns, and   *)
(* the messages of one call share one.                                     *)
(***************************************************************************)
EXTENDS Arrays, SequencesExt, Functions

CONSTANT MaxMessages    \* bound: messages a chat ever has

ASSUME BranchBounds == MaxMessages \in Nat

VARIABLES there,   \* the canister's messages, in the order of message_ids
          here,    \* the client's Map of messages, in its order
          leaf,    \* activeLeafMessageId of the chat, 0 when there is none
          newest   \* [last: ids handed out, turn: calls made, job: the last placeholder]

branchVars == <<there, here, leaf, newest>>

NoId == 0

\* A message: its id, its parent (NoId: none), its role and its time.
Entry(id, parent, role, at) == [id |-> id, parent |-> parent, role |-> role, at |-> at]

Ids(map) == {map[i].id : i \in DOMAIN map}
Get(map, id) == map[CHOOSE i \in DOMAIN map : map[i].id = id]

\* Map.set: a key that is there keeps its place.
Put(map, m) ==
    IF m.id \in Ids(map) THEN [i \in DOMAIN map |-> IF map[i].id = m.id THEN m ELSE map[i]]
    ELSE Append(map, m)

\* Array.sort by time of creation.
ByTime(s) == SortedBy(s, [i \in DOMAIN s |-> s[i].at])

-----------------------------------------------------------------------------
(* ChatPage.tsx: which messages are shown.                                  *)

\* buildMapsFromMap: the children of a message, oldest first.
Children(map, id) == ByTime(KeptAt(map, {i \in DOMAIN map : map[i].parent = id}))

\* findRoot and buildChain walk parents until one is missing.
Chain(map, id) ==
    LET chain[x \in Nat] ==
            IF x \in Ids(map) THEN Append(chain[Get(map, x).parent], Get(map, x)) ELSE <<>>
    IN  chain[id]

\* getSubtree, breadth first: queue[k] are the ids in the queue, those already
\* taken included, when k of them were taken.  An id only gets in behind its one
\* parent, so none is taken twice and the queue never gets longer than the Map.
Visits(map, id) ==
    LET queue[k \in Nat] ==
            IF k = 0 THEN <<id>>
            ELSE LET q == queue[k - 1]
                     next == Children(map, q[k])
                     new == {i \in DOMAIN next : \A j \in 1..k : q[j] # next[i].id}
                     added == KeptAt(next, new)
                 IN  IF k > Len(q) THEN q ELSE q \o [i \in DOMAIN added |-> added[i].id]
    IN  queue[Len(map)]

Subtree(map, id) ==
    LET visits == Visits(map, id)
    IN  ByTime([i \in DOMAIN visits |-> Get(map, visits[i])])

\* Mutant of Shown: the whole tree is shown for a leaf that has children.
ShownWhole(map, id) ==
    IF id \notin Ids(map) THEN <<>>
    ELSE IF Children(map, id) = <<>> THEN Chain(map, id)
    ELSE Subtree(map, Chain(map, id)[1].id)

\* getBranchMessages: the chain to the leaf, and with it the whole subtree of
\* a leaf that has children.
Shown(map, id) ==
    IF id \notin Ids(map) THEN <<>>
    ELSE LET chain == Chain(map, id)
             branch == Ids(chain) \cup Ids(Subtree(map, id))
             all == Subtree(map, chain[1].id)
         IN  IF Children(map, id) = <<>> THEN chain
             ELSE ByTime(KeptAt(all, {i \in DOMAIN all : all[i].id \in branch}))

\* MessageItem renders nothing for a tool message.
Visible(s) == KeptAt(s, {i \in DOMAIN s : s[i].role # "tool"})

\* The newest of some messages: the first one, or the last, among equals.
FirstNewest(s) == s[CHOOSE i \in DOMAIN s : \A j \in DOMAIN s :
                        s[j].at < s[i].at \/ (s[j].at = s[i].at /\ i <= j)]
LastNewest(s) == s[CHOOSE i \in DOMAIN s : \A j \in DOMAIN s :
                        s[j].at < s[i].at \/ (s[j].at = s[i].at /\ j <= i)]

\* The effect that picks a leaf when there is none, or when it is not in the Map.
DefaultLeaf(map, id) ==
    LET leaves == KeptAt(map, {i \in DOMAIN map : \A j \in DOMAIN map : map[j].parent # map[i].id})
    IN  IF map = <<>> \/ id \in Ids(map) THEN id
        ELSE IF leaves # <<>> THEN FirstNewest(leaves).id ELSE FirstNewest(map).id

-----------------------------------------------------------------------------
(* utils/messageTree.ts: the alternatives of a message.  Neither function   *)
(* sees tool messages.                                                      *)

GetSiblings(map, parent) ==
    ByTime(KeptAt(map, {i \in DOMAIN map : map[i].role # "tool" /\ map[i].parent = parent}))

TalkChildren(map, id) == {m \in Range(map) : m.role # "tool" /\ m.parent = id}

\* What findNewestLeaf visits: reached[k] is at most k children away.
Below(map, id) ==
    LET reached[k \in Nat] ==
            IF k = 0 THEN {id}
            ELSE LET r == reached[k - 1] IN r \cup {m.id : m \in UNION {TalkChildren(map, x) : x \in r}}
    IN  reached[Len(map)]

\* Mutant of FindNewestLeaf: the newest message of the chat is taken.
NewestOfAll(map, id) == LastNewest(map).id

\* findNewestLeaf: the newest of the childless messages below, or the message
\* itself if all are older than it.  (Equal times only occur along one chain.)
FindNewestLeaf(map, id) ==
    LET ends == KeptAt(map, {i \in DOMAIN map :
                    /\ map[i].id \in Below(map, id) /\ TalkChildren(map, map[i].id) = {}
                    /\ map[i].role # "tool" /\ map[i].at >= Get(map, id).at})
    IN  IF ends = <<>> THEN id ELSE LastNewest(ends).id

-----------------------------------------------------------------------------

\* The page has shown a new chat and its first answer.
BranchInit ==
    /\ there = <<Entry(1, NoId, "user", 0), Entry(2, 1, "assistant", 0)>>
    /\ here = there
    /\ leaf = 2
    /\ newest = [last |-> 2, turn |-> 0, job |-> 2]

\* A call has added messages on the canister and in the Map, and the leaf is
\* the placeholder of the new answer.
Adds(remote, local, n) ==
    /\ newest.last + n <= MaxMessages
    /\ there' = remote
    /\ here' = local
    /\ leaf' = newest.last + n
    /\ newest' = [last |-> newest.last + n, turn |-> newest.turn + 1, job |-> newest.last + n]

\* Mutant of AddMessage: the page puts the message below the newest answer.
AddMessageToNewest ==
    LET user == Entry(newest.last + 1, leaf, "user", newest.turn + 1)
        answer == Entry(newest.last + 2, user.id, "assistant", newest.turn + 1)
    IN  /\ leaf \in Ids(there)
        /\ Adds(there \o <<user, answer>>,
                Put(Put(here, [user EXCEPT !.parent = newest.job]), answer), 2)

\* addMessageAndSend: the parent is the leaf; add_message wants it to exist.
AddMessage ==
    LET user == Entry(newest.last + 1, leaf, "user", newest.turn + 1)
        answer == Entry(newest.last + 2, user.id, "assistant", newest.turn + 1)
    IN  /\ leaf \in Ids(there)
        /\ Adds(there \o <<user, answer>>, Put(Put(here, user), answer), 2)

\* editUserMessage, of a message the page shows and the canister still has.
EditMessage(m) ==
    LET user == Entry(newest.last + 1, m.parent, "user", newest.turn + 1)
        answer == Entry(newest.last + 2, user.id, "assistant", newest.turn + 1)
        old == {x \in Range(there) : x.id = m.id}
    IN  /\ m \in Range(Shown(here, leaf)) /\ m.role = "user"
        /\ old # {}
        /\ Adds(KeptAt(there, {i \in DOMAIN there : there[i].id # m.id})
                  \o <<[user EXCEPT !.parent = (CHOOSE x \in old : TRUE).parent], answer>>,
                Put(Put(here, user), answer), 2)

\* retryAiMessage for the parent of an answer, which has to be a user's message.
RetryMessage(m) ==
    LET answer == Entry(newest.last + 1, m.parent, "assistant", newest.turn + 1)
    IN  /\ m \in Range(Shown(here, leaf)) /\ m.role = "assistant"
        /\ \E x \in Range(there) : x.id = m.parent /\ x.role = "user"
        /\ Adds(Append(there, answer), Put(here, answer), 1)

\* The newest answer called a tool and goes on: the canister puts the tool's
\* message in between, the client does not.
ContinueMessage ==
    LET at == newest.turn + 1
        result == Entry(newest.last + 1, newest.job, "tool", at)
        answer == Entry(newest.last + 2, result.id, "assistant", at)
    IN  Adds(there \o <<result, answer>>, Put(here, [answer EXCEPT !.parent = newest.job]), 2)

\* fetchMessages: what was fetched comes first and overrides; messages that
\* only the client has stay.  The leaf is replaced if it is gone.
MergedMap(fetched, local) == fetched \o KeptAt(local, {i \in DOMAIN local : local[i].id \notin Ids(fetched)})

Refetch ==
    /\ here' = MergedMap(there, here)
    /\ here' # here
    /\ UNCHANGED <<there, leaf, newest>>

\* The page is loaded again: fetchMessages picks the newest message.
ReloadChat ==
    /\ here' = there
    /\ leaf' = DefaultLeaf(there, LastNewest(there).id)
    /\ <<here', leaf'>> # <<here, leaf>>
    /\ UNCHANGED <<there, newest>>

\* handlePrevSibling and handleNextSibling of a message on the page.
Alternatives(m) ==
    LET s == GetSiblings(here, m.parent)
        i == CHOOSE k \in DOMAIN s : s[k] = m
    IN  {s[k] : k \in {i - 1, i + 1} \cap DOMAIN s}

ToSibling(s) ==
    /\ \E m \in Range(Visible(Shown(here, leaf))) : s \in Alternatives(m)
    /\ leaf' = FindNewestLeaf(here, s.id)
    /\ UNCHANGED <<there, here, newest>>

BranchNext ==
    \/ AddMessage \/ ContinueMessage \/ Refetch \/ ReloadChat
    \/ \E m \in Range(here) : EditMessage(m) \/ RetryMessage(m) \/ ToSibling(m)

BranchSpec == BranchInit /\ [][BranchNext]_branchVars

-----------------------------------------------------------------------------

\* What the page shows reads from the top: a message that answers another comes
\* after it, nothing is shown twice, the leaf is on the page, and two versions of
\* a message are never shown together unless both are below the leaf.
BranchReads ==
    leaf # NoId =>
    LET s == Shown(here, leaf)
        ids == [i \in DOMAIN s |-> s[i].id]
    IN  /\ leaf \in Range(ids) /\ IsInjective(ids)
        /\ \A i \in DOMAIN s : s[i].parent \in Ids(here) => \E j \in 1..(i - 1) : ids[j] = s[i].parent
        /\ \A i, j \in DOMAIN s :
             i # j /\ s[i].parent = s[j].parent /\ s[i].parent # NoId => leaf \in Ids(Chain(here, ids[i]))

\* The context claim_job hands to a node for the newest generation is what the
\* page shows while it runs: the canister's chain is the end of the branch on
\* display, and all of it unless one of its messages was replaced by an edit.
ContextIsShown ==
    leaf = newest.job =>
        LET shown == [i \in DOMAIN Visible(Shown(here, leaf)) |-> Visible(Shown(here, leaf))[i].id]
            context == [i \in DOMAIN Visible(Chain(there, leaf)) |-> Visible(Chain(there, leaf))[i].id]
        IN  /\ IsSuffix(context, shown)
            /\ Range(shown) \subseteq Ids(there) => context = shown

\* Whichever version of a message the arrows of the page lead to is shown, and
\* the version they lead away from is not.
SiblingsAreReached ==
    \A m \in Range(Visible(Shown(here, leaf))) : \A s \in Alternatives(m) :
        LET shown == Shown(here, FindNewestLeaf(here, s.id))
        IN  s \in Range(shown) /\ m \notin Range(shown)

=============================================================================
