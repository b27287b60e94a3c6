------------------------------ MODULE MvccIdSet ------------------------------
(***************************************************************************)
(* What the set of active MVCCIDs promises: an id that is handed out is    *)
(* active until its transaction completes it, and a snapshot keeps the     *)
(* ids that were done when it was taken, and those of its own              *)
(* sub-transactions that completed since.                                  *)
(***************************************************************************)
EXTENDS Integers, Sequences, SequencesExt

CONSTANTS Trans, FirstId, MaxSub, Prepared, NextId

VARIABLES
  next,   \* the next id to hand out
  held,   \* for each transaction, its id and those of its sub-transactions
  done,   \* the ids that have completed
  seen    \* for each transaction, the set of at most one snapshot

vars == <<next, held, done, seen>>

Init ==
  /\ next = NextId
  /\ held = [t \in Trans |-> IF t \in DOMAIN Prepared THEN <<Prepared[t]>> ELSE <<>>]
  /\ done = (FirstId .. (NextId - 1)) \ {Prepared[t] : t \in DOMAIN Prepared}
  /\ seen = [t \in Trans |-> {}]

HandOut(t) ==
  \E n \in 1 .. 2 :
    /\ Len(held[t]) + n <= MaxSub + 1
    /\ next' = next + n
    /\ held' = [held EXCEPT ![t] = @ \o [k \in 1 .. n |-> next + k - 1]]
    /\ UNCHANGED <<done, seen>>

Snapshot(t) ==
  /\ seen[t] = {} /\ seen' = [seen EXCEPT ![t] = {done}]
  /\ UNCHANGED <<next, held, done>>

Forget(t) ==
  /\ seen[t] # {} /\ seen' = [seen EXCEPT ![t] = {}]
  /\ UNCHANGED <<next, held, done>>

Complete(t) ==
  /\ held[t] # <<>>
  /\ LET i == Last(held[t])
     IN /\ done' = done \cup {i}
        /\ seen' = [seen EXCEPT ![t] = IF Len(held[t]) = 1 THEN {} ELSE {s \cup {i} : s \in @}]
  /\ held' = [held EXCEPT ![t] = Front(@)]
  /\ UNCHANGED next

Next == \E t \in Trans : HandOut(t) \/ Snapshot(t) \/ Forget(t) \/ Complete(t)

Spec == Init /\ [][Next]_vars
=============================================================================
