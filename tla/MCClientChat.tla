----------------------------- MODULE MCClientChat -----------------------------
(***************************************************************************)
(* Small instances of two parts of the chat page that share no state: the  *)
(* chat with its streams, and the composer.  A behaviour has a scene: in   *)
(* "composer" the chat rests, in the others the composer.  These bound the *)
(* chat one way or the other: the user asks for a second generation, with  *)
(* one socket; or one generation is reconnected to by a second socket,     *)
(* while the user does more.                                               *)
(***************************************************************************)
EXTENDS ClientChat, ClientComposer

CONSTANTS AskTurns,   \* what the user does in the scene "ask"
          large, small, n1, n2

VARIABLE scene

sceneVars == <<scene, vars, composerVars>>

\* The small model takes no tools and no images and, like the preset of an
\* embedding model, has no output.
TwoModels ==
    [m \in {large, small} |->
        IF m = large
        THEN [maxContext |-> 6, maxOutput |-> 2, maxTools |-> 1, maxImages |-> 1, price |-> 2, featured |-> TRUE]
        ELSE [maxContext |-> 2, maxOutput |-> 0, maxTools |-> 0, maxImages |-> 0, price |-> 1, featured |-> TRUE]]
OneNodeEach == [n \in {n1, n2} |-> IF n = n1 THEN large ELSE small]

InScene ==
    IF scene = "ask" THEN turns <= AskTurns /\ sockets[MaxSockets] = NoSocket
    ELSE jobs[MaxJobs].status = "none"

SceneInit ==
    /\ scene \in {"ask", "reconnect", "composer"}
    /\ Init /\ (scene = "composer" => store.chats = {})
    /\ ComposerInit

SceneNext ==
    \/ /\ scene \in {"ask", "reconnect"} /\ Next
       /\ UNCHANGED <<scene, composerVars>> /\ InScene'
    \/ scene = "composer" /\ ComposerNext /\ UNCHANGED <<scene, vars>>

SceneSpec == SceneInit /\ [][SceneNext]_sceneVars
=============================================================================
