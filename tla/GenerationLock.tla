--------------------------- MODULE GenerationLock ---------------------------
(***************************************************************************)
(* What the gpt_user canister promises of its generations: one at a time   *)
(* per chat.  A generation is started with a job number never used before, *)
(* may be claimed once, and finishes; several may finish at once.          *)
(***************************************************************************)
EXTENDS Naturals, StableMap

CONSTANT ChatIds

VARIABLES
    running,   \* chat id -> its generation under way
    last       \* the job number given out last

Generation(job, isClaimed) == [job |-> job, claimed |-> isClaimed]

Init == running = EmptyMap /\ last = 0

Start(c) ==
    /\ c \notin DOMAIN running
    /\ last' = last + 1
    /\ running' = Insert(running, c, Generation(last + 1, FALSE))

Claim(c) ==
    /\ c \in DOMAIN running /\ ~running[c].claimed
    /\ running' = Insert(running, c, Generation(running[c].job, TRUE))
    /\ UNCHANGED last

Finish(C) ==
    /\ C # {} /\ C \subseteq DOMAIN running
    /\ running' = RemoveKeys(running, C)
    /\ UNCHANGED last

Next == \/ \E c \in ChatIds : Start(c) \/ Claim(c)
        \/ \E C \in SUBSET ChatIds : Finish(C)

Spec == Init /\ [][Next]_<<running, last>>
=============================================================================
