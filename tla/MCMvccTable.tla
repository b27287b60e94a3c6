----------------------------- MODULE MCMvccTable -----------------------------
(***************************************************************************)
(* Instances of MvccTable for TLC.                                         *)
(***************************************************************************)
EXTENDS MvccTable, TLC

\* At restart no transaction is in doubt, or transaction 1 with the first id.
NonePrepared == [t \in {} |-> MVCCID_NULL]
FirstPrepared == 1 :> MVCCID_FIRST
=============================================================================
