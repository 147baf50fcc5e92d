----------------------------- MODULE ClientTitles -----------------------------
(***************************************************************************)
(* The title that the client gives to a new chat: generateTitleForChat     *)
(* asks a model in a temporary chat of its own, polls for the answer,      *)
(* renames the chat unless the user has, and deletes the temporary chat.   *)
(* Meanwhile the user renames or deletes the chat, lists of chats are      *)
(* fetched, and the canister deletes temporary chats on its own.           *)
(*                                                                         *)
(* One chat is enough: nothing is shared with another.  A title is told    *)
(* apart by who gave it; a call executes and is answered in two steps.     *)
(***************************************************************************)
EXTENDS Naturals

CONSTANTS
    MaxPolls,     \* maxAttempts of pollMessage
    MaxRenames    \* bound: times the user renames the chat

ASSUME TitlesAssumption == MaxPolls \in Nat \ {0} /\ MaxRenames \in Nat

VARIABLES
    given,    \* the chat on the canister: its title, or "gone"
    listed,   \* the chat in the store: its title, or "gone"
    temp,     \* the temporary chat: none, running, done, failed, gone
    titler,   \* generateTitleForChat: where it is, how often it polled
    user,     \* the user's call, and how many there were
    lists,    \* listChats calls: what each has read, or "" if it has not executed
    broken    \* history: a call of generateTitleForChat failed

titleVars == <<given, listed, temp, titler, user, lists, broken>>

TempExists == temp \in {"running", "done", "failed"}

TitlerAt(at) ==
    /\ given = "first" /\ listed = "first" /\ temp = "none"
    /\ titler = [at |-> at, polls |-> 0]
    /\ user = [at |-> "idle", turns |-> 0]
    /\ lists = [who \in {"user", "auto"} |-> "none"]
    /\ broken = FALSE

\* createNewChatWithFirstMessage has made the chat and calls generateTitleForChat.
TitlesInit == TitlerAt("start")

-----------------------------------------------------------------------------
(* generateTitleForChat.                                                    *)

TitlerGoes(at) == titler' = [titler EXCEPT !.at = at]

\* No session, no featured model with a node, no node or no key of it: no title.
GenerateTitle ==
    /\ titler.at = "start"
    /\ \E at \in {"creating", "end"} : TitlerGoes(at)
    /\ UNCHANGED <<given, listed, temp, user, lists, broken>>

TempCreated ==
    /\ titler.at = "creating"
    /\ temp' = "running" /\ TitlerGoes("sleeping")
    /\ UNCHANGED <<given, listed, user, lists, broken>>

\* The outer catch: a call that failed may have been executed.
TempNotCreated ==
    /\ titler.at = "creating"
    /\ temp' \in {"none", "running"} /\ TitlerGoes("end") /\ broken' = TRUE
    /\ UNCHANGED <<given, listed, user, lists>>

PollTimer ==
    /\ titler.at = "sleeping"
    /\ TitlerGoes("asking")
    /\ UNCHANGED <<given, listed, temp, user, lists, broken>>

\* With a title: nothing more if the user has renamed the chat, else it is
\* renamed, unless nothing is left of the title once it is cleaned.
TitleFound ==
    IF listed \notin {"gone", "first"} THEN TitlerGoes("end")
    ELSE \E at \in {"naming", "deleting"} : TitlerGoes(at)

\* Mutant of PollAgain: attempts are not counted.
PollForever == TitlerGoes("sleeping")

PollAgain ==
    titler' = IF titler.polls + 1 < MaxPolls THEN [at |-> "sleeping", polls |-> titler.polls + 1]
              ELSE [at |-> "deleting", polls |-> MaxPolls]

\* getMessage answers with the message as it is or as it was.
PollReturns ==
    /\ titler.at = "asking" /\ TempExists
    /\ \/ PollAgain
       \/ temp = "failed" /\ TitlerGoes("deleting")
       \/ temp = "done" /\ TitleFound
    /\ UNCHANGED <<given, listed, temp, user, lists, broken>>

\* The inner catch: no title.
PollFails ==
    /\ titler.at = "asking"
    /\ TitlerGoes("deleting")
    /\ UNCHANGED <<given, listed, temp, user, lists, broken>>

\* renameChat fails on the canister if the chat is gone; nothing is cleaned up.
TitleGiven ==
    /\ titler.at = "naming"
    /\ IF given = "gone" THEN TitlerGoes("end") /\ broken' = TRUE /\ UNCHANGED given
       ELSE given' = "auto" /\ TitlerGoes("named") /\ UNCHANGED broken
    /\ UNCHANGED <<listed, temp, user, lists>>

TitleNotGiven ==
    /\ titler.at \in {"naming", "named"}
    /\ TitlerGoes("end") /\ broken' = TRUE
    /\ UNCHANGED <<given, listed, temp, user, lists>>

\* renameChat sets the title in the store, if the chat is there, and lists.
TitleShown ==
    /\ titler.at = "named"
    /\ listed' = IF listed = "gone" THEN "gone" ELSE "auto"
    /\ TitlerGoes("listing") /\ lists' = [lists EXCEPT !["auto"] = "asked"]
    /\ UNCHANGED <<given, temp, user, broken>>

TempDeleted ==
    /\ titler.at = "deleting"
    /\ \/ temp' = "gone" /\ UNCHANGED broken
       \/ broken' = TRUE /\ UNCHANGED temp
    /\ TitlerGoes("end")
    /\ UNCHANGED <<given, listed, user, lists>>

-----------------------------------------------------------------------------
(* The canister and the user.                                               *)

\* In the canister, the job of the temporary chat ends, or its timer deletes the chat.
TempEnds ==
    /\ TempExists
    /\ temp' \in (IF temp = "running" THEN {"done", "failed", "gone"} ELSE {"gone"})
    /\ UNCHANGED <<given, listed, titler, user, lists, broken>>

UserRenames ==
    /\ user.at = "idle" /\ listed # "gone" /\ user.turns < MaxRenames
    /\ user' = [at |-> "naming", turns |-> user.turns + 1]
    /\ UNCHANGED <<given, listed, temp, titler, lists, broken>>

UserTitleGiven ==
    /\ user.at = "naming"
    /\ IF given = "gone" THEN user' = [user EXCEPT !.at = "idle"] /\ UNCHANGED given
       ELSE given' = "user" /\ user' = [user EXCEPT !.at = "named"]
    /\ UNCHANGED <<listed, temp, titler, lists, broken>>

UserTitleShown ==
    /\ user.at = "named"
    /\ listed' = IF listed = "gone" THEN "gone" ELSE "user"
    /\ user' = [user EXCEPT !.at = "listing"] /\ lists' = [lists EXCEPT !["user"] = "asked"]
    /\ UNCHANGED <<given, temp, titler, broken>>

UserRenameFails ==
    /\ user.at \in {"naming", "named"}
    /\ user' = [user EXCEPT !.at = "idle"]
    /\ UNCHANGED <<given, listed, temp, titler, lists, broken>>

\* deleteChat: on the canister, then in the store.
UserDeletes ==
    /\ user.at = "idle" /\ listed # "gone"
    /\ given' = "gone"
    /\ \/ listed' = "gone" /\ user' = [user EXCEPT !.at = "listing"] /\ lists' = [lists EXCEPT !["user"] = "asked"]
       \/ UNCHANGED <<listed, user, lists>>   \* the reply is lost
    /\ UNCHANGED <<temp, titler, broken>>

ListExecutes(who) ==
    /\ lists[who] = "asked"
    /\ lists' = [lists EXCEPT ![who] = given]
    /\ UNCHANGED <<given, listed, temp, titler, user, broken>>

\* fetchChats: what the list says, however old it is, or nothing if it failed.
ListReturns(who) ==
    /\ lists[who] \notin {"none", "asked"}
    /\ listed' \in {listed, lists[who]}
    /\ lists' = [lists EXCEPT ![who] = "none"]
    /\ IF who = "auto" THEN TitlerGoes("deleting") /\ UNCHANGED user
       ELSE user' = [user EXCEPT !.at = "idle"] /\ UNCHANGED titler
    /\ UNCHANGED <<given, temp, broken>>

TitlerStep ==
    \/ GenerateTitle \/ TempCreated \/ TempNotCreated \/ PollTimer \/ PollReturns \/ PollFails
    \/ TitleGiven \/ TitleNotGiven \/ TitleShown \/ TempDeleted
    \/ ListExecutes("auto") \/ ListReturns("auto")

TitlesNext ==
    \/ TitlerStep \/ TempEnds
    \/ UserRenames \/ UserTitleGiven \/ UserTitleShown \/ UserRenameFails \/ UserDeletes
    \/ ListExecutes("user") \/ ListReturns("user")

\* A call is answered or fails, and a timer fires.
TitlesFairness == WF_titleVars(TitlerStep)

TitlesSpec == TitlesInit /\ [][TitlesNext]_titleVars /\ TitlesFairness

-----------------------------------------------------------------------------

\* Looking for a title ends, even if the job of the temporary chat never does;
\* and the temporary chat is then left behind only if a call has failed or the
\* user has renamed the chat meanwhile.
TitlesEnd ==
    /\ <>(titler.at = "end")
    /\ [](titler.at = "end" /\ TempExists => broken \/ user.turns > 0)

=============================================================================
