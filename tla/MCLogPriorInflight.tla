-------------------------- MODULE MCLogPriorInflight --------------------------
(***************************************************************************)
(* An instance of LogPriorInflight for TLC.                                *)
(***************************************************************************)
EXTENDS LogPriorInflight
===============================================================================
