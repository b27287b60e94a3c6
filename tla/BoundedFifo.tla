----------------------------- MODULE BoundedFifo -----------------------------
(***************************************************************************)
(* A bounded queue: elements leave in the order they came, once each.      *)
(***************************************************************************)
EXTENDS Integers, Sequences

CONSTANTS Elements, Capacity

VARIABLES queue, out   \* what is in the queue, and what has left it

Init == queue = <<>> /\ out = <<>>

Put(e) ==
  /\ Len(queue) < Capacity
  /\ queue' = Append(queue, e)
  /\ UNCHANGED out

Take ==
  /\ queue # <<>>
  /\ out' = Append(out, Head(queue))
  /\ queue' = Tail(queue)

Next == Take \/ \E e \in Elements : Put(e)

Spec == Init /\ [][Next]_<<queue, out>>
==============================================================================
