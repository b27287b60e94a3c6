---------------------------- MODULE MCLockManager ----------------------------
(***************************************************************************)
(* Instances of LockManager for TLC.                                       *)
(***************************************************************************)
EXTENDS LockManager

CONSTANTS a, b, c, class, row

\* a and b lock the class and the row, and convert; c reads the class
ClassAndRow ==
  [t \in Trans |-> [r \in Resources |->
     CASE t # c /\ r = class -> {"IS", "X"}
       [] t # c /\ r = row -> {"X"}
       [] t = c /\ r = class -> {"S"}
       [] OTHER -> {}]]

TwoAndOne == [t \in Trans |-> IF t = c THEN 1 ELSE 2]

\* a class that is read whole, and read and written through its rows
IntentionModes == [t \in Trans |-> [r \in Resources |-> {"IS", "IX", "S"}]]

TwoEach == [t \in Trans |-> 2]
==============================================================================
