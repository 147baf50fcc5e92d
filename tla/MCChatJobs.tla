---------------------------- MODULE MCChatJobs ----------------------------
(***************************************************************************)
(* Instances of ChatJobs for TLC.                                          *)
(***************************************************************************)
EXTENDS ChatJobs, TLC
=============================================================================
