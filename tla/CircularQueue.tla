---------------------------- MODULE CircularQueue ----------------------------
(***************************************************************************)
(* The lock-free circular queue (src/base/lockfree_circular_queue.hpp).    *)
(* Two cursors count elements for ever; a slot is the cursor modulo the    *)
(* capacity.  A producer claims the slot of the produce cursor by setting  *)
(* the block flag of the slot's cursor word, stores its element, and sets  *)
(* the word to the cursor of the next lap.  A consumer reads the element   *)
(* and then takes it by advancing the consume cursor.                      *)
(*                                                                         *)
(* Every load, store and compare-and-swap of shared memory is a step.  A   *)
(* store of an element passes through a torn value, since m_data is not    *)
(* atomic.  Cursors are 64 bits wide and do not wrap in practice.          *)
(***************************************************************************)
EXTENDS Integers, Sequences

CONSTANTS
  Producers, Consumers,   \* threads; one may be both
  Elements,
  ElementsOf,   \* for each producer, the elements it may bring
  Torn,         \* what a load may see while an element is being stored
  Capacity,     \* m_capacity, a power of 2
  MaxCursor     \* bound: the number of elements that are produced

ASSUME CircularQueueAssumption ==
  /\ Capacity \in Nat \ {0}
  /\ MaxCursor \in Nat
  /\ Torn \notin Elements
  /\ \A t \in Producers : ElementsOf[t] \subseteq Elements

VARIABLES
  m_produce_cursor, m_consume_cursor,
  m_blocked_cursors,   \* for each slot, [cursor, flag]
  m_data,
  at,                  \* where each thread is
  pc, cc, did_block, element,   \* locals of produce and consume
  taken,               \* history: the elements in the order of their slots
  consumed             \* history: what consume returned, in cursor order

shared == <<m_produce_cursor, m_consume_cursor, m_blocked_cursors, m_data>>
locals == <<pc, cc, did_block, element>>
history == <<taken, consumed>>
vars == <<shared, at, locals, history>>

Threads == Producers \cup Consumers
Index(c) == c % Capacity
Slots == 0 .. (Capacity - 1)
Goto(t, label) == at' = [at EXCEPT ![t] = label]

\* The call returns; its locals are gone.
Return(t) ==
  /\ Goto(t, "idle")
  /\ pc' = [pc EXCEPT ![t] = 0] /\ cc' = [cc EXCEPT ![t] = 0]
  /\ did_block' = [did_block EXCEPT ![t] = FALSE] /\ element' = [element EXCEPT ![t] = Torn]

\* The constructor and init_blocked_cursors.
Init ==
  /\ m_produce_cursor = 0 /\ m_consume_cursor = 0
  /\ m_blocked_cursors = [s \in Slots |-> [cursor |-> s, flag |-> FALSE]]
  /\ m_data = [s \in Slots |-> Torn]
  /\ at = [t \in Threads |-> "idle"]
  /\ pc = [t \in Threads |-> 0]
  /\ cc = [t \in Threads |-> 0]
  /\ did_block = [t \in Threads |-> FALSE]
  /\ element = [t \in Threads |-> Torn]
  /\ taken = <<>> /\ consumed = <<>>

(***************************************************************************)
(* produce.                                                                *)
(***************************************************************************)
Produce(t) ==
  /\ at[t] = "idle" /\ Len(taken) < MaxCursor
  /\ \E e \in ElementsOf[t] : element' = [element EXCEPT ![t] = e]
  /\ Goto(t, "load_produce")
  /\ UNCHANGED <<shared, pc, cc, did_block, history>>

LoadProduceCursor(t) ==
  /\ at[t] = "load_produce"
  /\ pc' = [pc EXCEPT ![t] = m_produce_cursor]
  /\ Goto(t, "test_full")
  /\ UNCHANGED <<shared, cc, did_block, element, history>>

\* A bug: the queue is taken for full one element late.
TestFullLate(t) ==
  /\ at[t] = "test_full"
  /\ IF m_consume_cursor + Capacity < pc[t] THEN Return(t) ELSE Goto(t, "block") /\ UNCHANGED locals
  /\ UNCHANGED <<shared, history>>

\* If the queue is full, produce returns false (force_produce calls it again).
TestFull(t) ==
  /\ at[t] = "test_full"
  /\ IF m_consume_cursor + Capacity <= pc[t] THEN Return(t) ELSE Goto(t, "block") /\ UNCHANGED locals
  /\ UNCHANGED <<shared, history>>

\* block: compare-and-swap of the slot's word from the cursor to the cursor
\* with the flag.
Block(t) ==
  LET slot == Index(pc[t])
      free == m_blocked_cursors[slot] = [cursor |-> pc[t], flag |-> FALSE]
  IN /\ at[t] = "block"
     /\ m_blocked_cursors' =
          IF free THEN [m_blocked_cursors EXCEPT ![slot] = [cursor |-> pc[t], flag |-> TRUE]] ELSE m_blocked_cursors
     /\ did_block' = [did_block EXCEPT ![t] = free]
     /\ taken' = IF free THEN Append(taken, element[t]) ELSE taken
     /\ Goto(t, "advance_produce")
     /\ UNCHANGED <<m_produce_cursor, m_consume_cursor, m_data, pc, cc, element, consumed>>

\* The cursor is advanced whether the slot was claimed or not.
AdvanceProduce(t) ==
  /\ at[t] = "advance_produce"
  /\ m_produce_cursor' = IF m_produce_cursor = pc[t] THEN pc[t] + 1 ELSE m_produce_cursor
  /\ Goto(t, IF did_block[t] THEN "store" ELSE "load_produce")
  /\ pc' = IF did_block[t] THEN pc ELSE [pc EXCEPT ![t] = 0]
  /\ UNCHANGED <<m_consume_cursor, m_blocked_cursors, m_data, cc, did_block, element, history>>

StoreData(t) ==
  /\ at[t] = "store"
  /\ m_data' = [m_data EXCEPT ![Index(pc[t])] = Torn]
  /\ Goto(t, "storing")
  /\ UNCHANGED <<m_produce_cursor, m_consume_cursor, m_blocked_cursors, locals, history>>

DataStored(t) ==
  /\ at[t] = "storing"
  /\ m_data' = [m_data EXCEPT ![Index(pc[t])] = element[t]]
  /\ Goto(t, "unblock")
  /\ UNCHANGED <<m_produce_cursor, m_consume_cursor, m_blocked_cursors, locals, history>>

\* A bug: the flag is carried over to the next lap.
UnblockKeepsFlag(t) ==
  /\ at[t] = "unblock"
  /\ m_blocked_cursors' = [m_blocked_cursors EXCEPT ![Index(pc[t])].cursor = @ + Capacity]
  /\ Return(t)
  /\ UNCHANGED <<m_produce_cursor, m_consume_cursor, m_data, history>>

\* unblock: the flag is cleared and the slot expects its next lap.  The word
\* is loaded and stored, but nobody else changes it while the flag is set.
Unblock(t) ==
  /\ at[t] = "unblock"
  /\ m_blocked_cursors' =
       [m_blocked_cursors EXCEPT ![Index(pc[t])] = [cursor |-> @.cursor + Capacity, flag |-> FALSE]]
  /\ Return(t)
  /\ UNCHANGED <<m_produce_cursor, m_consume_cursor, m_data, history>>

(***************************************************************************)
(* consume.                                                                *)
(***************************************************************************)
Consume(t) ==
  /\ at[t] = "idle"
  /\ Goto(t, "load_consume")
  /\ UNCHANGED <<shared, locals, history>>

LoadConsumeCursor(t) ==
  /\ at[t] = "load_consume"
  /\ cc' = [cc EXCEPT ![t] = m_consume_cursor]
  /\ Goto(t, "test_empty")
  /\ UNCHANGED <<shared, pc, did_block, element, history>>

\* If the queue is empty, consume returns false.
TestEmpty(t) ==
  /\ at[t] = "test_empty"
  /\ IF m_produce_cursor <= cc[t] THEN Return(t) ELSE Goto(t, "test_blocked") /\ UNCHANGED locals
  /\ UNCHANGED <<shared, history>>

\* If the first element is not stored yet, consume returns false too.
TestBlocked(t) ==
  /\ at[t] = "test_blocked"
  /\ IF m_blocked_cursors[Index(cc[t])].flag THEN Return(t) ELSE Goto(t, "load_data") /\ UNCHANGED locals
  /\ UNCHANGED <<shared, history>>

LoadData(t) ==
  /\ at[t] = "load_data"
  /\ element' = [element EXCEPT ![t] = m_data[Index(cc[t])]]
  /\ Goto(t, "advance_consume")
  /\ UNCHANGED <<shared, pc, cc, did_block, history>>

\* A bug: the cursor is stored, not compared and swapped.
AdvanceConsumeByStore(t) ==
  /\ at[t] = "advance_consume"
  /\ m_consume_cursor' = cc[t] + 1
  /\ consumed' = Append(consumed, element[t])
  /\ Return(t)
  /\ UNCHANGED <<m_produce_cursor, m_blocked_cursors, m_data, taken>>

\* The element is consumed if the cursor has not moved; else try again.
AdvanceConsume(t) ==
  /\ at[t] = "advance_consume"
  /\ \/ /\ m_consume_cursor = cc[t]
        /\ m_consume_cursor' = cc[t] + 1
        /\ consumed' = Append(consumed, element[t])
        /\ Return(t)
     \/ /\ m_consume_cursor # cc[t]
        /\ Goto(t, "load_consume")
        /\ cc' = [cc EXCEPT ![t] = 0] /\ element' = [element EXCEPT ![t] = Torn]
        /\ UNCHANGED <<m_consume_cursor, consumed, pc, did_block>>
  /\ UNCHANGED <<m_produce_cursor, m_blocked_cursors, m_data, taken>>

ProduceStep(t) ==
  LoadProduceCursor(t) \/ TestFull(t) \/ Block(t) \/ AdvanceProduce(t) \/ StoreData(t) \/ DataStored(t) \/ Unblock(t)

ConsumeStep(t) ==
  LoadConsumeCursor(t) \/ TestEmpty(t) \/ TestBlocked(t) \/ LoadData(t) \/ AdvanceConsume(t)

Next ==
  \/ \E t \in Producers : Produce(t) \/ ProduceStep(t)
  \/ \E t \in Consumers : Consume(t) \/ ConsumeStep(t)

Spec == Init /\ [][Next]_vars

\* Threads run to the end of a call, and consumers come back for more.
FairSpec ==
  /\ Spec
  /\ \A t \in Producers : WF_vars(ProduceStep(t))
  /\ \A t \in Consumers : WF_vars(Consume(t) \/ ConsumeStep(t))
------------------------------------------------------------------------------
Labels ==
  {"idle", "load_produce", "test_full", "block", "advance_produce", "store", "storing", "unblock",
   "load_consume", "test_empty", "test_blocked", "load_data", "advance_consume"}

\* Type invariant.  What is consumed is an element, never a torn one: consume
\* does not return what it loads while a producer stores to the slot.
TypeOK ==
  /\ m_produce_cursor \in Nat /\ m_consume_cursor \in Nat
  /\ m_blocked_cursors \in [Slots -> [cursor : Nat, flag : BOOLEAN]]
  /\ m_data \in [Slots -> Elements \cup {Torn}]
  /\ at \in [Threads -> Labels]
  /\ pc \in [Threads -> Nat] /\ cc \in [Threads -> Nat] /\ did_block \in [Threads -> BOOLEAN]
  /\ element \in [Threads -> Elements \cup {Torn}]
  /\ taken \in Seq(Elements) /\ consumed \in Seq(Elements)

\* "every produced entry must be consumed once and only once": the n-th
\* element that is consumed is the n-th that was given a slot, however the
\* producers and consumers race.
ConsumedOnceInOrder ==
  /\ Len(consumed) = m_consume_cursor
  /\ Len(consumed) <= Len(taken)
  /\ \A n \in 1 .. Len(consumed) : consumed[n] = taken[n]

\* "each thread saving its data in a data array unique slot": two producers
\* never store to the same slot at the same time.
SlotsAreExclusive ==
  \A t, u \in Threads :
    (t # u /\ {at[t], at[u]} \subseteq {"store", "storing", "unblock"}) => Index(pc[t]) # Index(pc[u])

Queued == [n \in 1 .. (Len(taken) - Len(consumed)) |-> taken[Len(consumed) + n]]

Fifo == INSTANCE BoundedFifo WITH queue <- Queued, out <- consumed

\* The queue implements a bounded first-in first-out queue: produce takes
\* effect when it claims its slot, consume when it advances the cursor.
ImplementsFifo == Fifo!Spec

\* Every element that was given a slot is consumed in the end: while some
\* element waits, a consume succeeds again and again.
EveryElementIsConsumed ==
  []<>(Len(consumed) = Len(taken)) \/ []<><<consumed' # consumed>>_vars
==============================================================================
