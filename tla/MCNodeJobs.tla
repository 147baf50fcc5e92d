----------------------------- MODULE MCNodeJobs -----------------------------
(***************************************************************************)
(* An instance of NodeJobs for TLC: two connections, for one job or for    *)
(* two.                                                                    *)
(***************************************************************************)
EXTENDS NodeJobs

CONSTANTS j1, j2, s1, s2

\* Jobs are interchangeable, so the first connection need only ask for j1.
MCRequests == {<<s1, j1>>, <<s2, j1>>, <<s2, j2>>}
=============================================================================
