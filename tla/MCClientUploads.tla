--------------------------- MODULE MCClientUploads ---------------------------
(***************************************************************************)
(* Small instances of the file system of a user canister, of two queues of *)
(* the client, uploads and titles, of its search and of the branches of a  *)
(* conversation, which share no state: a behaviour is one of ClientSpec,   *)
(* UploadsSpec, TitlesSpec, SearchSpec or BranchSpec, and the other parts  *)
(* rest.                                                                   *)
(***************************************************************************)
EXTENDS UserFileSystem, ClientUploads, ClientTitles, ClientSearch, ClientBranches

VARIABLE part   \* the part that is in use

inputVars == <<part, vars, uploadVars, titleVars, searchVars, branchVars>>

BranchesRest ==
    there = <<>> /\ here = <<>> /\ leaf = NoId /\ newest = [last |-> 0, turn |-> 0, job |-> NoId]

InputInit ==
    /\ part \in {"tree", "uploads", "titles", "search", "branches"}
    /\ Init
    /\ UploadsInit
    /\ IF part = "titles" THEN TitlesInit ELSE TitlerAt("end")
    /\ SearchInit
    /\ IF part = "branches" THEN BranchInit ELSE BranchesRest

InputNext ==
    \/ part = "tree" /\ ClientNext /\ UNCHANGED <<part, uploadVars, titleVars, searchVars, branchVars>>
    \/ part = "uploads" /\ UploadsNext /\ UNCHANGED <<part, vars, titleVars, searchVars, branchVars>>
    \/ part = "titles" /\ TitlesNext /\ UNCHANGED <<part, vars, uploadVars, searchVars, branchVars>>
    \/ part = "search" /\ SearchNext /\ UNCHANGED <<part, vars, uploadVars, titleVars, branchVars>>
    \/ part = "branches" /\ BranchNext /\ UNCHANGED <<part, vars, uploadVars, titleVars, searchVars>>

InputSpec == InputInit /\ [][InputNext]_inputVars /\ UploadsFairness /\ TitlesFairness
=============================================================================
