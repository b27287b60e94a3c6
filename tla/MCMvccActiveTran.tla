--------------------------- MODULE MCMvccActiveTran ---------------------------
(***************************************************************************)
(* Instances of MvccActiveTran for TLC.                                    *)
(***************************************************************************)
EXTENDS MvccActiveTran

\* At restart no transaction is in doubt, or two are.
NonePrepared == <<>>
TwoPrepared == <<4, 6>>
===============================================================================
