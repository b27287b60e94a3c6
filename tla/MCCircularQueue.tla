--------------------------- MODULE MCCircularQueue ---------------------------
(***************************************************************************)
(* An instance of CircularQueue for TLC.                                   *)
(***************************************************************************)
EXTENDS CircularQueue

CONSTANTS t1, a, b

\* One producer brings a and the other b.
OneEach == [t \in Producers |-> IF t = t1 THEN {a} ELSE {b}]
==============================================================================
