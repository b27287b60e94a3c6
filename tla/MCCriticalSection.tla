-------------------------- MODULE MCCriticalSection --------------------------
(***************************************************************************)
(* An instance of CriticalSection for TLC.                                 *)
(***************************************************************************)
EXTENDS CriticalSection
==============================================================================
