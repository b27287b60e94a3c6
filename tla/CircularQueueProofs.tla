------------------------- MODULE CircularQueueProofs -------------------------
(***************************************************************************)
(* Proofs about CircularQueue, for any number of threads and any capacity. *)
(*                                                                         *)
(* The inductive invariant says where the cursor word of each slot can be. *)
(* With N elements claimed, a free slot expects a cursor of the lap that   *)
(* starts at N, and a blocked one holds a cursor between the consume       *)
(* cursor and N, which exactly one producer owns.                          *)
(***************************************************************************)
EXTENDS CircularQueue, TLAPS

N == Len(taken)
Free(s) == ~m_blocked_cursors[s].flag

Producing ==
  {"load_produce", "test_full", "block", "advance_produce", "store", "storing", "unblock"}

Owner(t) ==
  \/ at[t] \in {"store", "storing", "unblock"}
  \/ at[t] = "advance_produce" /\ did_block[t]

\* The cursors are in order, and the claims are at most a lap ahead.
Cursors ==
  /\ m_consume_cursor <= m_produce_cursor
  /\ m_produce_cursor <= N /\ N <= m_produce_cursor + 1
  /\ N <= m_consume_cursor + Capacity

\* Where the cursor word of each slot can be.
Words ==
  \A s \in Slots :
    /\ Index(m_blocked_cursors[s].cursor) = s
    /\ ~Free(s) => m_consume_cursor <= m_blocked_cursors[s].cursor /\ m_blocked_cursors[s].cursor < N
    /\ Free(s) => N <= m_blocked_cursors[s].cursor /\ m_blocked_cursors[s].cursor < N + Capacity

\* A producer that claimed a slot is the only owner of its cursor.
Owners ==
  \A t \in Threads : Owner(t) =>
    /\ m_blocked_cursors[Index(pc[t])] = [cursor |-> pc[t], flag |-> TRUE]
    /\ element[t] = taken[pc[t] + 1]
    /\ \A u \in Threads : Owner(u) /\ pc[u] = pc[t] => u = t

\* A free slot whose element is not consumed holds that element.
Data ==
  \A n \in Nat : m_consume_cursor <= n /\ n < N /\ Free(Index(n)) => m_data[Index(n)] = taken[n + 1]

ProducerLocals ==
  \A t \in Threads :
    /\ at[t] \in Producing => element[t] \in Elements
    /\ at[t] = "test_full" => pc[t] <= m_produce_cursor
    /\ at[t] = "block" => pc[t] <= m_produce_cursor /\ pc[t] < m_consume_cursor + Capacity
    /\ at[t] = "advance_produce" => pc[t] < N
    /\ at[t] = "unblock" => m_data[Index(pc[t])] = element[t]

ConsumerLocals ==
  \A t \in Threads :
    /\ at[t] \in {"test_empty", "test_blocked", "load_data", "advance_consume"} => cc[t] <= m_consume_cursor
    /\ at[t] \in {"test_blocked", "load_data", "advance_consume"} => cc[t] < m_produce_cursor
    /\ at[t] \in {"load_data", "advance_consume"} /\ cc[t] = m_consume_cursor => Free(Index(cc[t]))
    /\ at[t] = "advance_consume" /\ cc[t] = m_consume_cursor => element[t] = taken[cc[t] + 1]

IInv ==
  TypeOK /\ ConsumedOnceInOrder /\ Cursors /\ Words /\ Owners /\ Data /\ ProducerLocals /\ ConsumerLocals
------------------------------------------------------------------------------
(***************************************************************************)
(* The slot of a cursor.                                                   *)
(***************************************************************************)

\* A quotient and a remainder that fit are the ones % computes.
LEMMA Remainder ==
  ASSUME NEW a \in Int, NEW c \in Int, c > 0, NEW q \in Int, NEW r \in Int,
         a = c * q + r, r >= 0, r < c
  PROVE  r = a % c
  BY Z3T(30)

\* Adding the divisor does not change the remainder.
LEMMA Lap ==
  ASSUME NEW a \in Int, NEW c \in Int, c > 0, NEW r \in Int, r = a % c,
         NEW q \in Int, q = a \div c, NEW b \in Int, b = a + c
  PROVE  r = b % c
<1>1. a = c * q + r BY Z3T(30)
<1>2. r >= 0 /\ r < c BY Z3T(30)
<1>3. b = c * (q + 1) + r BY <1>1, Z3T(30)
<1>4. PICK p \in Int : p = q + 1 OBVIOUS
<1>5. b = c * p + r BY <1>3, <1>4, Zenon
<1> QED BY <1>2, <1>5, Remainder, Zenon

\* Multiples of c that differ are at least c apart.
LEMMA Multiples ==
  ASSUME NEW a \in Int, NEW b \in Int, a < b, NEW c \in Int, c > 0, NEW r \in Int,
         NEW q \in Int, NEW p \in Int, a = c * q + r, b = c * p + r
  PROVE  a + c <= b
<1>1. c * (p - q) = b - a OBVIOUS
<1>2. CASE p > q
  <2>1. c * (p - q) >= c BY <1>2
  <2> QED BY <1>1, <2>1
<1>3. CASE p <= q
  <2>1. c * (q - p) >= 0 BY <1>3
  <2> QED BY <1>1, <2>1
<1> QED BY <1>2, <1>3

\* Numbers with the same remainder are at least the divisor apart.
LEMMA Gap ==
  ASSUME NEW a \in Int, NEW b \in Int, a < b, NEW c \in Int, c > 0,
         NEW r \in Int, r = a % c, r = b % c,
         NEW q \in Int, q = a \div c, NEW p \in Int, p = b \div c
  PROVE  a + c <= b
<1>1. a = c * q + r BY Z3T(30)
<1>2. b = c * p + r BY Z3T(30)
<1> QED BY <1>1, <1>2, Multiples, Zenon

\* get_cursor_index gives a slot of the array.
LEMMA IndexIsSlot == ASSUME NEW a \in Nat PROVE Index(a) \in Slots
  BY CircularQueueAssumption DEF Index, Slots

\* The constructor gives slot s the cursor s.
LEMMA FirstLap == ASSUME NEW s \in Slots PROVE s \in Nat /\ Index(s) = s /\ s < Capacity
  BY CircularQueueAssumption DEF Index, Slots

\* unblock adds the capacity and stays in its slot.
LEMMA NextLap == ASSUME NEW a \in Nat PROVE Index(a + Capacity) = Index(a)
<1>1. a \in Int /\ Capacity \in Int /\ Capacity > 0 /\ a + Capacity \in Int BY CircularQueueAssumption
<1>2. a % Capacity \in Int /\ a \div Capacity \in Int BY CircularQueueAssumption
<1> QED BY <1>1, <1>2, Lap, Zenon DEF Index

\* Two cursors that share a slot are a lap apart.
LEMMA SameSlot ==
  ASSUME NEW a \in Nat, NEW b \in Nat, Index(a) = Index(b), a < b
  PROVE  a + Capacity <= b
<1>1. a \in Int /\ b \in Int /\ Capacity \in Int /\ Capacity > 0 BY CircularQueueAssumption
<1>2. a % Capacity \in Int /\ a \div Capacity \in Int /\ b \div Capacity \in Int BY CircularQueueAssumption
<1> QED BY <1>1, <1>2, Gap, Zenon DEF Index

\* Cursors within a lap of each other that share a slot are equal.
LEMMA OneLap ==
  ASSUME NEW a \in Nat, NEW b \in Nat, Index(a) = Index(b), a < b + Capacity, b < a + Capacity
  PROVE  a = b
<1>1. CASE a < b BY <1>1, SameSlot, CircularQueueAssumption
<1>2. CASE b < a BY <1>2, SameSlot, CircularQueueAssumption
<1> QED BY <1>1, <1>2
------------------------------------------------------------------------------
(***************************************************************************)
(* The initial states, the steps that change no shared memory, and the     *)
(* claim of a slot.                                                        *)
(***************************************************************************)

\* The constructor establishes the invariant.
LEMMA InitInv == Init => IInv
<1> SUFFICES ASSUME Init PROVE IInv BY Zenon
<1>1. TypeOK BY FirstLap, CircularQueueAssumption DEF Init, TypeOK, Labels
<1>2. ConsumedOnceInOrder /\ Cursors BY CircularQueueAssumption DEF Init, ConsumedOnceInOrder, Cursors, N
<1>3. Words
  <2> SUFFICES ASSUME NEW s \in Slots
               PROVE  /\ Index(m_blocked_cursors[s].cursor) = s /\ Free(s)
                      /\ N <= m_blocked_cursors[s].cursor /\ m_blocked_cursors[s].cursor < N + Capacity
    BY Zenon DEF Words
  <2>1. m_blocked_cursors[s] = [cursor |-> s, flag |-> FALSE] /\ N = 0 BY Zenon DEF Init, N
  <2> QED BY <2>1, FirstLap, CircularQueueAssumption DEF Free
<1>4. Data BY DEF Init, Data, N
<1>5. Owners /\ ProducerLocals /\ ConsumerLocals
  BY Zenon DEF Init, Owners, Owner, ProducerLocals, ConsumerLocals, Producing
<1> QED BY <1>1, <1>2, <1>3, <1>4, <1>5, Zenon DEF IInv

\* A step that changes no shared memory keeps what is said of it.
LEMMA SharedFrame ==
  ASSUME IInv, UNCHANGED <<shared, history>>
  PROVE  ConsumedOnceInOrder' /\ Cursors' /\ Words' /\ Data'
<1>1. ConsumedOnceInOrder' /\ Cursors' BY Zenon DEF IInv, ConsumedOnceInOrder, Cursors, N, shared, history
<1>2. Words' BY Zenon DEF IInv, Words, Free, N, shared, history
<1>3. Data' BY Zenon DEF IInv, Data, Free, N, shared, history
<1> QED BY <1>1, <1>2, <1>3, Zenon

\* The locals after a call.
LEMMA ReturnType ==
  ASSUME TypeOK, NEW t \in Threads, Return(t)
  PROVE  /\ at' \in [Threads -> Labels] /\ pc' \in [Threads -> Nat] /\ cc' \in [Threads -> Nat]
         /\ did_block' \in [Threads -> BOOLEAN] /\ element' \in [Threads -> Elements \cup {Torn}]
         /\ at'[t] = "idle"
         /\ \A u \in Threads : u # t => /\ at'[u] = at[u] /\ pc'[u] = pc[u] /\ cc'[u] = cc[u]
                                         /\ did_block'[u] = did_block[u] /\ element'[u] = element[u]
  BY Zenon DEF TypeOK, Return, Goto, Labels

\* A call returns.
LEMMA ReturnInv == ASSUME IInv, NEW t \in Threads, Return(t), UNCHANGED <<shared, history>> PROVE IInv'
<1>1. TypeOK' BY IndexIsSlot, CircularQueueAssumption, Zenon DEF Return, Goto, IInv, TypeOK, Labels, shared, locals, history
<1>2. UNCHANGED <<shared, history>> BY Zenon DEF Return, shared, locals, history
<1>3. Owners'
  <2>1. \A u \in Threads : Owner(u)' => u # t /\ Owner(u) /\ pc'[u] = pc[u] /\ element'[u] = element[u]
    BY Zenon DEF Return, Goto, IInv, TypeOK, Owner, locals
  <2> QED BY <1>2, <2>1, Zenon DEF IInv, Owners, shared, history
<1>4. ProducerLocals'
  BY <1>2, CircularQueueAssumption, Zenon DEF Return, Goto, IInv, TypeOK, ProducerLocals, Producing, Cursors, N, shared, locals, history
<1>5. ConsumerLocals'
  BY <1>2, CircularQueueAssumption DEF Return, Goto, IInv, TypeOK, ConsumerLocals, Cursors, Data, Free, N, shared, locals, history
<1> QED BY <1>1, <1>2, <1>3, <1>4, <1>5, SharedFrame, Zenon DEF IInv

\* Produce is called.
LEMMA ProduceInv == ASSUME IInv, NEW t \in Producers, Produce(t) PROVE IInv'
<1>1. t \in Threads BY Zenon DEF Threads
<1>2. PICK e \in Elements : element' = [element EXCEPT ![t] = e] BY CircularQueueAssumption, Zenon DEF Produce
<1>3. /\ at[t] = "idle" /\ at' = [at EXCEPT ![t] = "load_produce"]
      /\ UNCHANGED <<shared, history>> /\ pc' = pc /\ cc' = cc /\ did_block' = did_block
  BY Zenon DEF Produce, Goto
<1>4. TypeOK' BY <1>1, <1>2, <1>3, IndexIsSlot, CircularQueueAssumption, Zenon DEF IInv, TypeOK, Labels, shared, history
<1>5. \A u \in Threads : u # t => at'[u] = at[u] /\ element'[u] = element[u]
  BY <1>1, <1>2, <1>3, Zenon DEF IInv, TypeOK
<1>6. at'[t] = "load_produce" /\ element'[t] \in Elements BY <1>1, <1>2, <1>3, Zenon DEF IInv, TypeOK
<1>7. Owners'
  <2>1. \A u \in Threads : Owner(u)' => u # t /\ Owner(u) /\ pc'[u] = pc[u] /\ element'[u] = element[u]
    BY <1>3, <1>5, <1>6, Zenon DEF Owner
  <2> QED BY <1>3, <2>1, Zenon DEF IInv, Owners, shared, history
<1>8. ProducerLocals'
  BY <1>3, <1>5, <1>6, CircularQueueAssumption, Zenon DEF IInv, TypeOK, ProducerLocals, Producing, Cursors, N, shared, history
<1>9. ConsumerLocals'
  BY <1>3, <1>5, <1>6, CircularQueueAssumption, Zenon DEF IInv, TypeOK, ConsumerLocals, Cursors, Data, Free, N, shared, history
<1> QED BY <1>3, <1>4, <1>7, <1>8, <1>9, SharedFrame, Zenon DEF IInv

\* Produce loads its cursor.
LEMMA LoadProduceCursorInv == ASSUME IInv, NEW t \in Threads, LoadProduceCursor(t) PROVE IInv'
<1>1. TypeOK' BY IndexIsSlot, CircularQueueAssumption, Zenon DEF LoadProduceCursor, Goto, IInv, TypeOK, Labels, shared, locals, history
<1>2. UNCHANGED <<shared, history>> BY Zenon DEF LoadProduceCursor, shared, locals, history
<1>3. Owners'
  <2>1. \A u \in Threads : Owner(u)' => u # t /\ Owner(u) /\ pc'[u] = pc[u] /\ element'[u] = element[u]
    BY Zenon DEF LoadProduceCursor, Goto, IInv, TypeOK, Owner, locals
  <2> QED BY <1>2, <2>1, Zenon DEF IInv, Owners, shared, history
<1>4. ProducerLocals'
  BY <1>2, CircularQueueAssumption DEF LoadProduceCursor, Goto, IInv, TypeOK, ProducerLocals, Producing, Cursors, N, shared, locals, history
<1>5. ConsumerLocals'
  BY <1>2, CircularQueueAssumption, Zenon DEF LoadProduceCursor, Goto, IInv, TypeOK, ConsumerLocals, Cursors, Data, Free, N, shared, locals, history
<1> QED BY <1>1, <1>2, <1>3, <1>4, <1>5, SharedFrame, Zenon DEF IInv

\* Produce tests for room.
LEMMA TestFullInv == ASSUME IInv, NEW t \in Threads, TestFull(t) PROVE IInv'
<1>1. CASE Return(t) BY <1>1, ReturnInv, Zenon DEF TestFull
<1>2. CASE ~Return(t)
  <2> USE <1>2
  <2>1. TypeOK' BY IndexIsSlot, CircularQueueAssumption, Zenon DEF TestFull, Goto, IInv, TypeOK, Labels, shared, locals, history
  <2>2. UNCHANGED <<shared, history>> BY Zenon DEF TestFull, shared, locals, history
  <2>3. Owners'
    <3>1. \A u \in Threads : Owner(u)' => u # t /\ Owner(u) /\ pc'[u] = pc[u] /\ element'[u] = element[u]
      BY Zenon DEF TestFull, Goto, IInv, TypeOK, Owner, locals
    <3> QED BY <2>2, <3>1, Zenon DEF IInv, Owners, shared, history
  <2>4. ProducerLocals'
    BY <2>2, CircularQueueAssumption DEF TestFull, Goto, IInv, TypeOK, ProducerLocals, Producing, Cursors, N, shared, locals, history
  <2>5. ConsumerLocals'
    BY <2>2, CircularQueueAssumption DEF TestFull, Goto, IInv, TypeOK, ConsumerLocals, Cursors, Data, Free, N, shared, locals, history
  <2> QED BY <2>1, <2>2, <2>3, <2>4, <2>5, SharedFrame, Zenon DEF IInv
<1> QED BY <1>1, <1>2, Zenon

\* Consume is called.
LEMMA ConsumeInv == ASSUME IInv, NEW t \in Threads, Consume(t) PROVE IInv'
<1>1. TypeOK' BY IndexIsSlot, CircularQueueAssumption, Zenon DEF Consume, Goto, IInv, TypeOK, Labels, shared, locals, history
<1>2. UNCHANGED <<shared, history>> BY Zenon DEF Consume, shared, locals, history
<1>3. Owners'
  <2>1. \A u \in Threads : Owner(u)' => u # t /\ Owner(u) /\ pc'[u] = pc[u] /\ element'[u] = element[u]
    BY Zenon DEF Consume, Goto, IInv, TypeOK, Owner, locals
  <2> QED BY <1>2, <2>1, Zenon DEF IInv, Owners, shared, history
<1>4. ProducerLocals'
  BY <1>2, CircularQueueAssumption, Zenon DEF Consume, Goto, IInv, TypeOK, ProducerLocals, Producing, Cursors, N, shared, locals, history
<1>5. ConsumerLocals'
  BY <1>2, CircularQueueAssumption, Zenon DEF Consume, Goto, IInv, TypeOK, ConsumerLocals, Cursors, Data, Free, N, shared, locals, history
<1> QED BY <1>1, <1>2, <1>3, <1>4, <1>5, SharedFrame, Zenon DEF IInv

\* Consume loads its cursor.
LEMMA LoadConsumeCursorInv == ASSUME IInv, NEW t \in Threads, LoadConsumeCursor(t) PROVE IInv'
<1>1. TypeOK' BY IndexIsSlot, CircularQueueAssumption, Zenon DEF LoadConsumeCursor, Goto, IInv, TypeOK, Labels, shared, locals, history
<1>2. UNCHANGED <<shared, history>> BY Zenon DEF LoadConsumeCursor, shared, locals, history
<1>3. Owners'
  <2>1. \A u \in Threads : Owner(u)' => u # t /\ Owner(u) /\ pc'[u] = pc[u] /\ element'[u] = element[u]
    BY Zenon DEF LoadConsumeCursor, Goto, IInv, TypeOK, Owner, locals
  <2> QED BY <1>2, <2>1, Zenon DEF IInv, Owners, shared, history
<1>4. ProducerLocals'
  BY <1>2, CircularQueueAssumption, Zenon DEF LoadConsumeCursor, Goto, IInv, TypeOK, ProducerLocals, Producing, Cursors, N, shared, locals, history
<1>5. ConsumerLocals'
  BY <1>2, CircularQueueAssumption DEF LoadConsumeCursor, Goto, IInv, TypeOK, ConsumerLocals, Cursors, Data, Free, N, shared, locals, history
<1> QED BY <1>1, <1>2, <1>3, <1>4, <1>5, SharedFrame, Zenon DEF IInv

\* Consume tests for an element.
LEMMA TestEmptyInv == ASSUME IInv, NEW t \in Threads, TestEmpty(t) PROVE IInv'
<1>1. CASE Return(t) BY <1>1, ReturnInv, Zenon DEF TestEmpty
<1>2. CASE ~Return(t)
  <2> USE <1>2
  <2>1. TypeOK' BY IndexIsSlot, CircularQueueAssumption, Zenon DEF TestEmpty, Goto, IInv, TypeOK, Labels, shared, locals, history
  <2>2. UNCHANGED <<shared, history>> BY Zenon DEF TestEmpty, shared, locals, history
  <2>3. Owners'
    <3>1. \A u \in Threads : Owner(u)' => u # t /\ Owner(u) /\ pc'[u] = pc[u] /\ element'[u] = element[u]
      BY Zenon DEF TestEmpty, Goto, IInv, TypeOK, Owner, locals
    <3> QED BY <2>2, <3>1, Zenon DEF IInv, Owners, shared, history
  <2>4. ProducerLocals'
    BY <2>2, CircularQueueAssumption, Zenon DEF TestEmpty, Goto, IInv, TypeOK, ProducerLocals, Producing, Cursors, N, shared, locals, history
  <2>5. ConsumerLocals'
    BY <2>2, CircularQueueAssumption DEF TestEmpty, Goto, IInv, TypeOK, ConsumerLocals, Cursors, Data, Free, N, shared, locals, history
  <2> QED BY <2>1, <2>2, <2>3, <2>4, <2>5, SharedFrame, Zenon DEF IInv
<1> QED BY <1>1, <1>2, Zenon

\* Consume tests the block flag.
LEMMA TestBlockedInv == ASSUME IInv, NEW t \in Threads, TestBlocked(t) PROVE IInv'
<1>1. CASE Return(t) BY <1>1, ReturnInv, Zenon DEF TestBlocked
<1>2. CASE ~Return(t)
  <2> USE <1>2
  <2>1. TypeOK' BY IndexIsSlot, CircularQueueAssumption, Zenon DEF TestBlocked, Goto, IInv, TypeOK, Labels, shared, locals, history
  <2>2. UNCHANGED <<shared, history>> BY Zenon DEF TestBlocked, shared, locals, history
  <2>3. Owners'
    <3>1. \A u \in Threads : Owner(u)' => u # t /\ Owner(u) /\ pc'[u] = pc[u] /\ element'[u] = element[u]
      BY Zenon DEF TestBlocked, Goto, IInv, TypeOK, Owner, locals
    <3> QED BY <2>2, <3>1, Zenon DEF IInv, Owners, shared, history
  <2>4. ProducerLocals'
    BY <2>2, CircularQueueAssumption, Zenon DEF TestBlocked, Goto, IInv, TypeOK, ProducerLocals, Producing, Cursors, N, shared, locals, history
  <2>5. ConsumerLocals'
    BY <2>2, CircularQueueAssumption DEF TestBlocked, Goto, IInv, TypeOK, ConsumerLocals, Cursors, Data, Free, N, shared, locals, history
  <2> QED BY <2>1, <2>2, <2>3, <2>4, <2>5, SharedFrame, Zenon DEF IInv
<1> QED BY <1>1, <1>2, Zenon

\* Consume loads the element.
LEMMA LoadDataInv == ASSUME IInv, NEW t \in Threads, LoadData(t) PROVE IInv'
<1>1. TypeOK' BY IndexIsSlot, CircularQueueAssumption, Zenon DEF LoadData, Goto, IInv, TypeOK, Labels, shared, locals, history
<1>2. UNCHANGED <<shared, history>> BY Zenon DEF LoadData, shared, locals, history
<1>3. Owners'
  <2>1. \A u \in Threads : Owner(u)' => u # t /\ Owner(u) /\ pc'[u] = pc[u] /\ element'[u] = element[u]
    BY Zenon DEF LoadData, Goto, IInv, TypeOK, Owner, locals
  <2> QED BY <1>2, <2>1, Zenon DEF IInv, Owners, shared, history
<1>4. ProducerLocals'
  BY <1>2, CircularQueueAssumption, Zenon DEF LoadData, Goto, IInv, TypeOK, ProducerLocals, Producing, Cursors, N, shared, locals, history
<1>5. ConsumerLocals'
  BY <1>2, CircularQueueAssumption DEF LoadData, Goto, IInv, TypeOK, ConsumerLocals, Cursors, Data, Free, N, shared, locals, history
<1> QED BY <1>1, <1>2, <1>3, <1>4, <1>5, SharedFrame, Zenon DEF IInv

\* A producer at its compare-and-swap finds the slot free exactly when nobody
\* has claimed the cursor, and then the cursor is the next one to claim.
LEMMA ClaimIsNext ==
  ASSUME IInv, NEW t \in Threads, at[t] = "block"
  PROVE  IF m_blocked_cursors[Index(pc[t])] = [cursor |-> pc[t], flag |-> FALSE]
         THEN pc[t] = N /\ m_produce_cursor = N
         ELSE pc[t] < N
<1> DEFINE s == Index(pc[t])
<1> DEFINE b == m_blocked_cursors[s]
<1>1. pc[t] \in Nat /\ s \in Slots /\ N \in Nat /\ m_produce_cursor \in Nat /\ m_consume_cursor \in Nat
  BY IndexIsSlot DEF IInv, TypeOK, N
<1>2. b = [cursor |-> b.cursor, flag |-> b.flag] /\ b.cursor \in Nat /\ b.flag \in BOOLEAN
  BY <1>1, Zenon DEF IInv, TypeOK
<1>3. pc[t] <= m_produce_cursor /\ pc[t] < m_consume_cursor + Capacity BY Zenon DEF IInv, ProducerLocals
<1>4. m_produce_cursor <= N /\ N <= m_consume_cursor + Capacity BY Zenon DEF IInv, Cursors
<1>5. Index(b.cursor) = s BY <1>1, Zenon DEF IInv, Words
<1>6. b.flag => m_consume_cursor <= b.cursor /\ b.cursor < N BY <1>1, Zenon DEF IInv, Words, Free
<1>7. ~b.flag => N <= b.cursor /\ b.cursor < N + Capacity BY <1>1, Zenon DEF IInv, Words, Free
<1> HIDE DEF b, s
<1>8. CASE b = [cursor |-> pc[t], flag |-> FALSE]
  <2>1. b.cursor = pc[t] /\ ~b.flag BY <1>8, Zenon
  <2>2. pc[t] = N /\ m_produce_cursor = N BY <1>1, <1>3, <1>4, <1>7, <2>1
  <2> QED BY <1>8, <2>2, Zenon DEF b, s
<1>9. CASE b # [cursor |-> pc[t], flag |-> FALSE]
  <2> SUFFICES ASSUME pc[t] = N PROVE FALSE BY <1>1, <1>3, <1>4, <1>9 DEF b, s
  <2>1. Index(b.cursor) = Index(pc[t]) BY <1>5, Zenon DEF s
  <2>2. CASE b.flag
    <3>1. b.cursor < pc[t] BY <1>6, <2>2, Zenon
    <3>2. b.cursor + Capacity <= pc[t] BY <1>1, <1>2, <2>1, <3>1, SameSlot, Zenon
    <3> QED BY <1>1, <1>2, <1>3, <1>6, <2>2, <3>2, CircularQueueAssumption
  <2>3. CASE ~b.flag
    <3>1. b.cursor = pc[t] BY <1>1, <1>2, <1>7, <2>1, <2>3, OneLap, CircularQueueAssumption
    <3> QED BY <1>2, <1>9, <2>3, <3>1, Zenon
  <2> QED BY <2>2, <2>3, Zenon
<1> QED BY <1>8, <1>9, Zenon DEF b, s

\* A producer fails to claim its slot.
LEMMA BlockFailsInv ==
  ASSUME IInv, NEW t \in Threads, Block(t),
         m_blocked_cursors[Index(pc[t])] # [cursor |-> pc[t], flag |-> FALSE]
  PROVE  IInv'
<1>1. TypeOK' BY Zenon DEF Block, Goto, IInv, TypeOK, Labels
<1>2. UNCHANGED <<shared, history>> BY Zenon DEF Block, shared, history
<1>3. Owners'
  <2>1. \A u \in Threads : Owner(u)' => u # t /\ Owner(u) /\ pc'[u] = pc[u] /\ element'[u] = element[u]
    BY Zenon DEF Block, Goto, IInv, TypeOK, Owner
  <2> QED BY <1>2, <2>1, ZenonT(30) DEF IInv, Owners, shared, history
<1>4. ProducerLocals'
  <2>1. pc[t] < N BY ClaimIsNext, Zenon DEF Block
  <2> QED BY <1>2, <2>1, Zenon DEF Block, Goto, IInv, TypeOK, ProducerLocals, Producing, N, shared, history
<1>5. ConsumerLocals' BY <1>2, Zenon DEF Block, Goto, IInv, TypeOK, ConsumerLocals, Free, shared, history
<1> QED BY <1>1, <1>2, <1>3, <1>4, <1>5, SharedFrame, Zenon DEF IInv

\* A producer claims its slot.
LEMMA BlockSucceedsInv ==
  ASSUME IInv, NEW t \in Threads, Block(t),
         m_blocked_cursors[Index(pc[t])] = [cursor |-> pc[t], flag |-> FALSE]
  PROVE  IInv'
<1> DEFINE s == Index(N)
<1>1. /\ pc[t] = N /\ m_produce_cursor = N /\ N \in Nat /\ s \in Slots
      /\ N < m_consume_cursor + Capacity /\ element[t] \in Elements /\ m_consume_cursor \in Nat
  BY ClaimIsNext, IndexIsSlot, Zenon DEF Block, IInv, TypeOK, N, ProducerLocals, Producing
<1>2. /\ m_blocked_cursors' = [m_blocked_cursors EXCEPT ![s] = [cursor |-> N, flag |-> TRUE]]
      /\ taken' = Append(taken, element[t]) /\ did_block' = [did_block EXCEPT ![t] = TRUE]
      /\ at' = [at EXCEPT ![t] = "advance_produce"]
      /\ UNCHANGED <<m_produce_cursor, m_consume_cursor, m_data, pc, cc, element, consumed>>
  BY <1>1, Zenon DEF Block, Goto
<1> HIDE DEF s
<1>3. N' = N + 1 /\ N' \in Nat BY <1>1, <1>2 DEF IInv, TypeOK, N
<1>4. taken'[N + 1] = element[t] /\ \A n \in 1 .. N : taken'[n] = taken[n]
  BY <1>1, <1>2 DEF IInv, TypeOK, N
<1>5. m_blocked_cursors[s] = [cursor |-> N, flag |-> FALSE] BY <1>1, Zenon DEF s
<1>6. TypeOK' BY <1>1, <1>2 DEF IInv, TypeOK, Labels
<1>7. ConsumedOnceInOrder' BY <1>1, <1>2, <1>3, <1>4 DEF IInv, TypeOK, ConsumedOnceInOrder, N
<1>8. Cursors' BY <1>1, <1>2, <1>3, CircularQueueAssumption DEF IInv, TypeOK, Cursors
<1>9. Words'
  <2> SUFFICES ASSUME NEW r \in Slots
               PROVE  /\ Index(m_blocked_cursors'[r].cursor) = r
                      /\ ~Free(r)' => m_consume_cursor <= m_blocked_cursors'[r].cursor /\ m_blocked_cursors'[r].cursor < N'
                      /\ Free(r)' => N' <= m_blocked_cursors'[r].cursor /\ m_blocked_cursors'[r].cursor < N' + Capacity
    BY <1>2, Zenon DEF Words
  <2>1. CASE r = s
    <3>1. m_blocked_cursors'[r] = [cursor |-> N, flag |-> TRUE] BY <1>1, <1>2, <2>1, Zenon DEF IInv, TypeOK
    <3>2. m_consume_cursor <= N BY <1>1, Zenon DEF IInv, Cursors
    <3> QED BY <1>1, <1>3, <2>1, <3>1, <3>2 DEF Free, s
  <2>2. CASE r # s
    <3>1. m_blocked_cursors'[r] = m_blocked_cursors[r] /\ m_blocked_cursors[r].cursor \in Nat
      BY <1>2, <2>2, Zenon DEF IInv, TypeOK
    <3>2. m_blocked_cursors[r].cursor # N BY <1>1, <2>2, Zenon DEF IInv, Words, s
    <3> QED BY <1>1, <1>3, <3>1, <3>2, CircularQueueAssumption DEF IInv, Words, Free
  <2> QED BY <2>1, <2>2, Zenon
<1>10. Owners'
  <2>1. \A u \in Threads : Owner(u)' <=> u = t \/ Owner(u) BY <1>2, Zenon DEF IInv, TypeOK, Owner, Block
  <2>2. \A u \in Threads : Owner(u) => pc[u] \in Nat /\ pc[u] < N /\ Index(pc[u]) # s /\ Index(pc[u]) \in Slots
    <3> SUFFICES ASSUME NEW u \in Threads, Owner(u)
                 PROVE  pc[u] \in Nat /\ pc[u] < N /\ Index(pc[u]) # s /\ Index(pc[u]) \in Slots
      BY Zenon
    <3>1. pc[u] \in Nat /\ Index(pc[u]) \in Slots BY IndexIsSlot, Zenon DEF IInv, TypeOK
    <3>2. m_blocked_cursors[Index(pc[u])] = [cursor |-> pc[u], flag |-> TRUE] BY Zenon DEF IInv, Owners
    <3>3. pc[u] < N BY <3>1, <3>2 DEF IInv, Words, Free
    <3> QED BY <1>5, <3>1, <3>2, <3>3
  <2> SUFFICES ASSUME NEW u \in Threads, Owner(u)'
               PROVE  /\ m_blocked_cursors'[Index(pc[u])] = [cursor |-> pc[u], flag |-> TRUE]
                      /\ element[u] = taken'[pc[u] + 1]
                      /\ \A v \in Threads : Owner(v)' /\ pc[v] = pc[u] => v = u
    BY <1>2, Zenon DEF Owners
  <2>3. CASE u = t
    <3>1. m_blocked_cursors'[s] = [cursor |-> N, flag |-> TRUE] BY <1>1, <1>2, Zenon DEF IInv, TypeOK
    <3>2. \A v \in Threads : Owner(v)' /\ pc[v] = pc[u] => v = u BY <1>1, <2>1, <2>2, <2>3
    <3> QED BY <1>1, <1>4, <2>3, <3>1, <3>2, Zenon DEF s
  <2>4. CASE u # t
    <3>1. Owner(u) BY <2>1, <2>4, Zenon
    <3>2. m_blocked_cursors'[Index(pc[u])] = m_blocked_cursors[Index(pc[u])] BY <1>2, <2>2, <3>1, Zenon DEF IInv, TypeOK
    <3>3. taken'[pc[u] + 1] = taken[pc[u] + 1] BY <1>1, <1>4, <2>2, <3>1
    <3>4. \A v \in Threads : Owner(v)' /\ pc[v] = pc[u] => v = u
      <4> SUFFICES ASSUME NEW v \in Threads, Owner(v)', pc[v] = pc[u] PROVE v = u BY Zenon
      <4>1. pc[v] # N BY <1>1, <2>2, <3>1
      <4>2. Owner(v) BY <1>1, <2>1, <4>1, Zenon
      <4> QED BY <3>1, <4>2, Zenon DEF IInv, Owners
    <3> QED BY <3>1, <3>2, <3>3, <3>4, Zenon DEF IInv, Owners
  <2> QED BY <2>3, <2>4, Zenon
<1>11. Data'
  <2> SUFFICES ASSUME NEW n \in Nat, m_consume_cursor <= n, n < N', Free(Index(n))'
               PROVE  m_data[Index(n)] = taken'[n + 1]
    BY <1>2, Zenon DEF Data
  <2>1. Index(n) # s
    BY <1>1, <1>2, Zenon DEF IInv, TypeOK, Free
  <2>2. n # N BY <2>1, Zenon DEF s
  <2>3. Free(Index(n)) BY <1>2, <2>1, IndexIsSlot, Zenon DEF IInv, TypeOK, Free
  <2>4. n < N /\ taken'[n + 1] = taken[n + 1] BY <1>1, <1>3, <1>4, <2>2
  <2> QED BY <2>3, <2>4, Zenon DEF IInv, Data
<1>12. ProducerLocals' BY <1>1, <1>2, <1>3 DEF IInv, TypeOK, ProducerLocals, Producing
<1>13. ConsumerLocals'
  <2>1. \A u \in Threads : at'[u] \in {"test_empty", "test_blocked", "load_data", "advance_consume"} => at'[u] = at[u]
    BY <1>2, Zenon DEF IInv, TypeOK
  <2>2. \A u \in Threads : at[u] \in {"load_data", "advance_consume"} /\ cc[u] = m_consume_cursor =>
                             Free(Index(cc[u]))' /\ taken'[cc[u] + 1] = taken[cc[u] + 1]
    <3> SUFFICES ASSUME NEW u \in Threads, at[u] \in {"load_data", "advance_consume"}, cc[u] = m_consume_cursor
                 PROVE  Free(Index(cc[u]))' /\ taken'[cc[u] + 1] = taken[cc[u] + 1]
      BY Zenon
    <3>1. cc[u] \in Nat /\ cc[u] < N /\ Free(Index(cc[u])) BY <1>1, Zenon DEF IInv, TypeOK, ConsumerLocals
    <3>2. Index(cc[u]) # s
      <4> SUFFICES ASSUME Index(cc[u]) = Index(N) PROVE FALSE BY Zenon DEF s
      <4>1. cc[u] + Capacity <= N BY <1>1, <3>1, SameSlot, Zenon
      <4> QED BY <1>1, <4>1, CircularQueueAssumption
    <3>3. Free(Index(cc[u]))' BY <1>2, <3>1, <3>2, IndexIsSlot, Zenon DEF IInv, TypeOK, Free
    <3>4. cc[u] + 1 \in 1 .. N BY <1>1, <3>1
    <3> QED BY <1>4, <3>3, <3>4, Zenon
  <2> QED BY <1>2, <2>1, <2>2, ZenonT(60) DEF IInv, ConsumerLocals
<1> QED BY <1>6, <1>7, <1>8, <1>9, <1>10, <1>11, <1>12, <1>13, Zenon DEF IInv
------------------------------------------------------------------------------
\* The producer advances the cursor past a slot that is claimed.
LEMMA AdvanceProduceInv == ASSUME IInv, NEW t \in Threads, AdvanceProduce(t) PROVE IInv'
<1>1. /\ UNCHANGED <<m_consume_cursor, m_blocked_cursors, m_data, cc, did_block, element, taken, consumed>>
      /\ N' = N /\ N \in Nat /\ m_produce_cursor \in Nat /\ pc[t] \in Nat
  BY DEF AdvanceProduce, history, IInv, TypeOK, N
<1>2. pc[t] < N BY Zenon DEF AdvanceProduce, IInv, ProducerLocals
<1>3. m_produce_cursor <= m_produce_cursor' /\ m_produce_cursor' \in Nat /\ m_produce_cursor' <= N /\ N <= m_produce_cursor' + 1
  BY <1>1, <1>2 DEF AdvanceProduce, IInv, Cursors
<1>4. TypeOK' BY <1>1, <1>3, Zenon DEF AdvanceProduce, Goto, IInv, TypeOK, Labels
<1>5. ConsumedOnceInOrder' BY <1>1, Zenon DEF IInv, ConsumedOnceInOrder
<1>6. Cursors'
  <2>1. m_consume_cursor \in Nat /\ m_consume_cursor <= m_produce_cursor /\ N <= m_consume_cursor + Capacity
    BY Zenon DEF IInv, TypeOK, Cursors
  <2>2. m_consume_cursor <= m_produce_cursor' BY <1>1, <1>3, <2>1
  <2> QED BY <1>1, <1>3, <2>1, <2>2, Zenon DEF Cursors
<1>7. Words' BY <1>1, Zenon DEF IInv, Words, Free
<1>8. Owners'
  <2>1. \A u \in Threads : Owner(u)' => Owner(u) /\ pc'[u] = pc[u]
    BY Zenon DEF AdvanceProduce, Goto, IInv, TypeOK, Owner
  <2> QED BY <1>1, <2>1, Zenon DEF IInv, Owners
<1>9. Data' BY <1>1, Zenon DEF IInv, Data, Free
<1>10. \A u \in Threads : /\ u # t => at'[u] = at[u] /\ pc'[u] = pc[u] /\ pc[u] \in Nat
                          /\ u = t => at'[u] \in {"store", "load_produce"} /\ at[u] \in Producing
  BY DEF AdvanceProduce, Goto, Producing, IInv, TypeOK
<1>11. ProducerLocals'
  <2>1. ProducerLocals  BY DEF IInv
  <2> QED BY ONLY <1>1, <1>3, <1>10, <2>1, CircularQueueAssumption DEF ProducerLocals, Producing
<1>12. ConsumerLocals'
  <2>1. ConsumerLocals /\ \A u \in Threads : cc[u] \in Nat  BY DEF IInv, TypeOK
  <2>2. \A x : Free(x)' <=> Free(x) BY ONLY <1>1, Zenon DEF Free
  <2> QED BY ONLY <1>1, <1>3, <1>10, <2>1, <2>2 DEF ConsumerLocals
<1> QED BY <1>4, <1>5, <1>6, <1>7, <1>8, <1>9, <1>11, <1>12, Zenon DEF IInv

\* The slot an owner stores to is blocked, and no other owner's.
LEMMA OwnSlot ==
  ASSUME IInv, NEW t \in Threads, Owner(t)
  PROVE  /\ pc[t] \in Nat /\ Index(pc[t]) \in Slots /\ ~Free(Index(pc[t]))
         /\ m_blocked_cursors[Index(pc[t])] = [cursor |-> pc[t], flag |-> TRUE]
         /\ m_consume_cursor <= pc[t] /\ pc[t] < N
         /\ \A u \in Threads : Owner(u) /\ Index(pc[u]) = Index(pc[t]) => u = t
<1>1. pc[t] \in Nat /\ Index(pc[t]) \in Slots BY IndexIsSlot, Zenon DEF IInv, TypeOK
<1>2. m_blocked_cursors[Index(pc[t])] = [cursor |-> pc[t], flag |-> TRUE] BY Zenon DEF IInv, Owners
<1>3. ~Free(Index(pc[t])) BY <1>2 DEF Free
<1>4. m_consume_cursor <= pc[t] /\ pc[t] < N BY <1>1, <1>2, <1>3, SMTT(30) DEF IInv, Words
<1>5. ASSUME NEW u \in Threads, Owner(u), Index(pc[u]) = Index(pc[t]) PROVE u = t
  <2>1. m_blocked_cursors[Index(pc[u])] = [cursor |-> pc[u], flag |-> TRUE] BY <1>5, Zenon DEF IInv, Owners
  <2>2. pc[u] = pc[t] BY <1>2, <1>5, <2>1
  <2> QED BY <1>5, <2>2, Zenon DEF IInv, Owners
<1> QED BY <1>1, <1>2, <1>3, <1>4, <1>5, Zenon

\* A store to a blocked slot, torn or whole.
LEMMA StoreInv ==
  ASSUME IInv, NEW t \in Threads, at[t] \in {"store", "storing"}, NEW e \in Elements \cup {Torn},
         m_data' = [m_data EXCEPT ![Index(pc[t])] = e],
         at' = [at EXCEPT ![t] = IF at[t] = "store" THEN "storing" ELSE "unblock"],
         at[t] = "storing" => e = element[t],
         UNCHANGED <<m_produce_cursor, m_consume_cursor, m_blocked_cursors, locals, history>>
  PROVE  IInv'
<1>1. UNCHANGED <<m_produce_cursor, m_consume_cursor, m_blocked_cursors, pc, cc, did_block, element, taken, consumed>>
  BY Zenon DEF locals, history
<1>2. Owner(t) BY Zenon DEF Owner
<1>3. /\ pc[t] \in Nat /\ Index(pc[t]) \in Slots /\ ~Free(Index(pc[t]))
      /\ \A u \in Threads : Owner(u) /\ Index(pc[u]) = Index(pc[t]) => u = t
  BY <1>2, OwnSlot, Zenon
<1>4. TypeOK'
  <2>1. at' \in [Threads -> Labels] /\ m_data' \in [Slots -> Elements \cup {Torn}] BY <1>3, Zenon DEF IInv, TypeOK, Labels
  <2> QED BY <1>1, <2>1, Zenon DEF IInv, TypeOK
<1>5. ConsumedOnceInOrder' /\ Cursors' BY <1>1, Zenon DEF IInv, ConsumedOnceInOrder, Cursors, N
<1>6. Words' BY <1>1, Zenon DEF IInv, Words, Free, N
<1>7. Owners'
  <2>1. \A u \in Threads : Owner(u)' <=> Owner(u) BY <1>1, Zenon DEF IInv, TypeOK, Owner
  <2> QED BY <1>1, <2>1, Zenon DEF IInv, Owners
<1>8. Data'
  <2>1. \A n \in Nat : Free(Index(n)) => m_data'[Index(n)] = m_data[Index(n)]
    BY <1>3, IndexIsSlot, Zenon DEF IInv, TypeOK
  <2> QED BY <1>1, <2>1, Zenon DEF IInv, Data, Free, N
<1>9. ProducerLocals'
  <2>1. \A u \in Threads : u # t => at'[u] = at[u] BY Zenon DEF IInv, TypeOK
  <2>2. \A u \in Threads : u # t /\ at[u] = "unblock" => m_data'[Index(pc[u])] = m_data[Index(pc[u])]
    <3> SUFFICES ASSUME NEW u \in Threads, u # t, at[u] = "unblock"
                 PROVE  m_data'[Index(pc[u])] = m_data[Index(pc[u])]
      BY Zenon
    <3>1. Owner(u) BY Zenon DEF Owner
    <3>2. Index(pc[u]) # Index(pc[t]) /\ Index(pc[u]) \in Slots BY <1>3, <3>1, OwnSlot, Zenon
    <3> QED BY <3>2, Zenon DEF IInv, TypeOK
  <2>3. at'[t] = "unblock" => m_data'[Index(pc[t])] = element[t] BY <1>3, Zenon DEF IInv, TypeOK
  <2>4. at'[t] \in {"storing", "unblock"} BY Zenon DEF IInv, TypeOK
  <2> QED BY <1>1, <2>1, <2>2, <2>3, <2>4 DEF IInv, ProducerLocals, Producing, N
<1>10. ConsumerLocals' BY <1>1, Zenon DEF IInv, TypeOK, ConsumerLocals, Free
<1> QED BY <1>4, <1>5, <1>6, <1>7, <1>8, <1>9, <1>10, Zenon DEF IInv

\* The producer starts to store its element.
LEMMA StoreDataInv == ASSUME IInv, NEW t \in Threads, StoreData(t) PROVE IInv'
  BY StoreInv, Zenon DEF StoreData, Goto

\* The producer has stored its element.
LEMMA DataStoredInv == ASSUME IInv, NEW t \in Threads, DataStored(t) PROVE IInv'
<1>1. element[t] \in Elements BY Zenon DEF DataStored, IInv, ProducerLocals, Producing
<1> QED BY <1>1, StoreInv, Zenon DEF DataStored, Goto

\* The producer frees its slot for the next lap and returns.
LEMMA UnblockInv == ASSUME IInv, NEW t \in Threads, Unblock(t) PROVE IInv'
<1> DEFINE s == Index(pc[t])
<1>1. at[t] = "unblock" /\ Owner(t) BY Zenon DEF Unblock, Owner
<1>2. /\ pc[t] \in Nat /\ s \in Slots /\ m_blocked_cursors[s] = [cursor |-> pc[t], flag |-> TRUE]
      /\ m_consume_cursor <= pc[t] /\ pc[t] < N
      /\ \A u \in Threads : Owner(u) /\ Index(pc[u]) = s => u = t
  BY <1>1, OwnSlot, Zenon
<1>3. UNCHANGED <<m_produce_cursor, m_consume_cursor, m_data, taken, consumed>> /\ N' = N
  BY Zenon DEF Unblock, history, N
<1>4. m_blocked_cursors' = [m_blocked_cursors EXCEPT ![s] = [cursor |-> pc[t] + Capacity, flag |-> FALSE]]
  BY <1>2 DEF Unblock
<1>5. at' = [at EXCEPT ![t] = "idle"] BY Zenon DEF Unblock, Return, Goto
<1>6. \A u \in Threads : u # t => /\ at'[u] = at[u] /\ pc'[u] = pc[u] /\ cc'[u] = cc[u]
                                  /\ did_block'[u] = did_block[u] /\ element'[u] = element[u]
  BY ReturnType, Zenon DEF Unblock, IInv
<1>7. m_data[s] = taken[pc[t] + 1]
  <2>1. m_data[s] = element[t] BY <1>1, Zenon DEF IInv, ProducerLocals
  <2> QED BY <1>1, <2>1, Zenon DEF IInv, Owners
<1>8. N \in Nat /\ m_consume_cursor \in Nat /\ N <= m_consume_cursor + Capacity /\ pc[t] + Capacity \in Nat
  BY <1>2, CircularQueueAssumption DEF IInv, TypeOK, N, Cursors
<1>9. Index(pc[t] + Capacity) = s BY <1>2, NextLap, Zenon
<1> HIDE DEF s
<1>10. TypeOK'
  <2>1. m_blocked_cursors' \in [Slots -> [cursor : Nat, flag : BOOLEAN]] BY <1>4, <1>8, Zenon DEF IInv, TypeOK
  <2>2. Return(t) /\ TypeOK BY Zenon DEF Unblock, IInv
  <2> QED BY <1>3, <2>1, <2>2, ReturnType, Zenon DEF TypeOK
<1>11. ConsumedOnceInOrder' /\ Cursors' BY <1>3, Zenon DEF IInv, ConsumedOnceInOrder, Cursors
<1>12. Words'
  <2> SUFFICES ASSUME NEW r \in Slots
               PROVE  /\ Index(m_blocked_cursors'[r].cursor) = r
                      /\ ~Free(r)' => m_consume_cursor <= m_blocked_cursors'[r].cursor /\ m_blocked_cursors'[r].cursor < N
                      /\ Free(r)' => N <= m_blocked_cursors'[r].cursor /\ m_blocked_cursors'[r].cursor < N + Capacity
    BY <1>3, Zenon DEF Words
  <2>1. CASE r = s
    <3>1. m_blocked_cursors'[r] = [cursor |-> pc[t] + Capacity, flag |-> FALSE]
      BY <1>2, <1>4, <2>1, Zenon DEF IInv, TypeOK
    <3>2. N <= pc[t] + Capacity /\ pc[t] + Capacity < N + Capacity BY <1>2, <1>8, CircularQueueAssumption, SMTT(30)
    <3> QED BY <1>9, <2>1, <3>1, <3>2 DEF Free
  <2>2. CASE r # s
    <3>1. m_blocked_cursors'[r] = m_blocked_cursors[r] BY <1>4, <2>2, Zenon DEF IInv, TypeOK
    <3> QED BY <3>1, Zenon DEF IInv, Words, Free
  <2> QED BY <2>1, <2>2, Zenon
<1>13. Owners'
  <2>1. \A u \in Threads : Owner(u)' => u # t /\ Owner(u) BY <1>5, <1>6, Zenon DEF Owner, IInv, TypeOK
  <2> SUFFICES ASSUME NEW u \in Threads, Owner(u)'
               PROVE  /\ m_blocked_cursors'[Index(pc[u])] = [cursor |-> pc[u], flag |-> TRUE]
                      /\ element[u] = taken[pc[u] + 1]
                      /\ \A v \in Threads : Owner(v)' /\ pc[v] = pc[u] => v = u
    BY <1>3, <1>6, <2>1, ZenonT(30) DEF Owners
  <2>2. Owner(u) /\ u # t BY <2>1, Zenon
  <2>3. Index(pc[u]) \in Slots /\ Index(pc[u]) # s BY <1>2, <2>2, OwnSlot, Zenon
  <2>4. m_blocked_cursors'[Index(pc[u])] = m_blocked_cursors[Index(pc[u])] BY <1>4, <2>3, Zenon DEF IInv, TypeOK
  <2> QED BY <2>1, <2>2, <2>4, Zenon DEF IInv, Owners
<1>14. Data'
  <2> SUFFICES ASSUME NEW n \in Nat, m_consume_cursor <= n, n < N, Free(Index(n))'
               PROVE  m_data[Index(n)] = taken[n + 1]
    BY <1>3, Zenon DEF Data
  <2>1. CASE Index(n) = s
    <3>1. n < pc[t] + Capacity /\ pc[t] < n + Capacity BY <1>2, <1>8, CircularQueueAssumption
    <3>2. n = pc[t] BY <1>2, <2>1, <3>1, OneLap, Zenon DEF s
    <3> QED BY <1>7, <2>1, <3>2, Zenon
  <2>2. CASE Index(n) # s
    <3>1. Free(Index(n)) BY <1>4, <2>2, IndexIsSlot, Zenon DEF IInv, TypeOK, Free
    <3> QED BY <3>1, Zenon DEF IInv, Data
  <2> QED BY <2>1, <2>2, Zenon
<1>15. ProducerLocals' BY <1>3, <1>5, <1>6 DEF IInv, TypeOK, ProducerLocals, Producing
<1>16. ConsumerLocals'
  <2>1. \A r \in Slots : Free(r) => Free(r)' BY <1>2, <1>4, Zenon DEF IInv, TypeOK, Free
  <2>2. \A u \in Threads : Index(cc[u]) \in Slots BY IndexIsSlot, Zenon DEF IInv, TypeOK
  <2>3. at'[t] = "idle" BY <1>5, Zenon DEF IInv, TypeOK
  <2> SUFFICES ASSUME NEW u \in Threads, u # t
               PROVE  /\ at[u] \in {"test_empty", "test_blocked", "load_data", "advance_consume"} => cc[u] <= m_consume_cursor
                      /\ at[u] \in {"test_blocked", "load_data", "advance_consume"} => cc[u] < m_produce_cursor
                      /\ at[u] \in {"load_data", "advance_consume"} /\ cc[u] = m_consume_cursor => ~m_blocked_cursors'[Index(cc[u])].flag
                      /\ at[u] = "advance_consume" /\ cc[u] = m_consume_cursor => element[u] = taken[cc[u] + 1]
    BY <1>3, <1>6, <2>3 DEF ConsumerLocals, Free
  <2>4. Free(Index(cc[u])) => ~m_blocked_cursors'[Index(cc[u])].flag BY <2>1, <2>2, Zenon DEF Free
  <2> QED BY <2>4, Zenon DEF IInv, ConsumerLocals
<1> QED BY <1>10, <1>11, <1>12, <1>13, <1>14, <1>15, <1>16, Zenon DEF IInv

\* A consumer takes the element it has loaded.
LEMMA ConsumeSucceedsInv ==
  ASSUME IInv, NEW t \in Threads, AdvanceConsume(t), m_consume_cursor = cc[t]
  PROVE  IInv'
<1> DEFINE C == m_consume_cursor
<1>1. /\ C \in Nat /\ m_produce_cursor \in Nat /\ N \in Nat /\ C < m_produce_cursor /\ m_produce_cursor <= N
      /\ N <= C + Capacity /\ Free(Index(C)) /\ element[t] = taken[C + 1]
  BY DEF AdvanceConsume, IInv, TypeOK, N, Cursors, ConsumerLocals
<1>2. /\ m_consume_cursor' = C + 1 /\ consumed' = Append(consumed, element[t])
      /\ UNCHANGED <<m_produce_cursor, m_blocked_cursors, m_data, taken>> /\ N' = N
  BY Zenon DEF AdvanceConsume, N
<1>3. at' = [at EXCEPT ![t] = "idle"] BY Zenon DEF AdvanceConsume, Return, Goto
<1>4. \A u \in Threads : u # t => /\ at'[u] = at[u] /\ pc'[u] = pc[u] /\ cc'[u] = cc[u]
                                  /\ did_block'[u] = did_block[u] /\ element'[u] = element[u]
  BY ReturnType, Zenon DEF AdvanceConsume, IInv
<1>5. element[t] \in Elements BY <1>1 DEF IInv, TypeOK, N
<1>6. TypeOK'
  <2>1. m_consume_cursor' \in Nat /\ consumed' \in Seq(Elements) BY <1>1, <1>2, <1>5 DEF IInv, TypeOK
  <2>2. Return(t) /\ TypeOK BY Zenon DEF AdvanceConsume, IInv
  <2> QED BY <1>2, <2>1, <2>2, ReturnType, Zenon DEF TypeOK
<1>7. ConsumedOnceInOrder'
  <2>1. consumed \in Seq(Elements) /\ Len(consumed) = C BY Zenon DEF IInv, TypeOK, ConsumedOnceInOrder
  <2>2. Len(consumed') = C + 1 /\ consumed'[C + 1] = element[t] /\ \A n \in 1 .. C : consumed'[n] = consumed[n]
    <3> DEFINE e == element[t]
    <3>1. e \in Elements /\ consumed' = Append(consumed, e) /\ C \in Nat BY <1>1, <1>2, <1>5, Zenon
    <3> HIDE DEF e, C
    <3>2. Len(consumed') = C + 1 /\ consumed'[C + 1] = e /\ \A n \in 1 .. C : consumed'[n] = consumed[n]
      BY <2>1, <3>1
    <3> QED BY <3>2, Zenon DEF e
  <2>3. \A n \in 1 .. C : consumed[n] = taken[n] BY <2>1, Zenon DEF IInv, ConsumedOnceInOrder
  <2>4. \A n \in 1 .. (C + 1) : consumed'[n] = taken[n]
    <3>1. \A n \in 1 .. (C + 1) : n = C + 1 \/ n \in 1 .. C BY <1>1
    <3> QED BY <1>1, <2>2, <2>3, <3>1, Zenon
  <2>5. C + 1 <= Len(taken') BY <1>1, <1>2 DEF N
  <2> QED BY <1>2, <2>2, <2>4, <2>5, Zenon DEF ConsumedOnceInOrder
<1>8. Cursors' BY <1>1, <1>2, CircularQueueAssumption, SMTT(30) DEF IInv, Cursors
<1>9. Words'
  <2> SUFFICES ASSUME NEW r \in Slots, ~Free(r) PROVE C + 1 <= m_blocked_cursors[r].cursor
    BY <1>2, Zenon DEF IInv, Words, Free
  <2>1. m_blocked_cursors[r].cursor \in Nat BY Zenon DEF IInv, TypeOK
  <2>2. C <= m_blocked_cursors[r].cursor /\ Index(m_blocked_cursors[r].cursor) = r BY Zenon DEF IInv, Words
  <2>3. m_blocked_cursors[r].cursor # C BY <1>1, <2>2, Zenon
  <2> QED BY <1>1, <2>1, <2>2, <2>3
<1>10. Owners'
  <2>1. \A u \in Threads : Owner(u)' => u # t /\ Owner(u) BY <1>3, <1>4, Zenon DEF Owner, IInv, TypeOK
  <2>2. Owners BY Zenon DEF IInv
  <2> QED BY <1>2, <1>4, <2>1, <2>2, ZenonT(30) DEF Owners
<1>11. Data' BY <1>1, <1>2, SMTT(30) DEF IInv, Data, Free
<1>12. ProducerLocals'
  <2>1. at'[t] = "idle" BY <1>3, Zenon DEF IInv, TypeOK
  <2>2. \A u \in Threads : pc[u] \in Nat /\ (pc[u] < C + Capacity => pc[u] < C + 1 + Capacity)
    BY <1>1, CircularQueueAssumption DEF IInv, TypeOK
  <2> QED BY <1>2, <1>4, <2>1, <2>2, ZenonT(60) DEF IInv, ProducerLocals, Producing
<1>13. ConsumerLocals'
  <2>1. at'[t] = "idle" BY <1>3, Zenon DEF IInv, TypeOK
  <2>2. \A u \in Threads : at[u] \in {"load_data", "advance_consume"} => cc[u] # C + 1
    BY <1>1 DEF IInv, TypeOK, ConsumerLocals
  <2>3. \A u \in Threads : cc[u] <= C => cc[u] <= C + 1 BY <1>1 DEF IInv, TypeOK
  <2> QED BY <1>2, <1>4, <2>1, <2>2, <2>3, Zenon DEF IInv, ConsumerLocals, Free
<1> QED BY <1>6, <1>7, <1>8, <1>9, <1>10, <1>11, <1>12, <1>13, Zenon DEF IInv

\* A consumer that lost the race starts again.
LEMMA ConsumeFailsInv ==
  ASSUME IInv, NEW t \in Threads, AdvanceConsume(t), m_consume_cursor # cc[t]
  PROVE  IInv'
<1>1. UNCHANGED <<shared, history>> /\ UNCHANGED <<pc, did_block>>
  BY Zenon DEF AdvanceConsume, shared, history
<1>2. /\ at' = [at EXCEPT ![t] = "load_consume"] /\ cc' = [cc EXCEPT ![t] = 0]
      /\ element' = [element EXCEPT ![t] = Torn] /\ at[t] = "advance_consume"
  BY Zenon DEF AdvanceConsume, Goto
<1>3. TypeOK' BY <1>1, <1>2, Zenon DEF IInv, TypeOK, Labels, shared, history
<1>4. Owners'
  <2>1. \A u \in Threads : Owner(u)' => u # t /\ Owner(u) /\ element'[u] = element[u]
    BY <1>1, <1>2, Zenon DEF IInv, TypeOK, Owner
  <2> QED BY <1>1, <2>1, Zenon DEF IInv, Owners, shared, history
<1>5. ProducerLocals' BY <1>1, <1>2, Zenon DEF IInv, TypeOK, ProducerLocals, Producing, N, shared, history
<1>6. ConsumerLocals' BY <1>1, <1>2, Zenon DEF IInv, TypeOK, ConsumerLocals, Free, shared, history
<1> QED BY <1>1, <1>3, <1>4, <1>5, <1>6, SharedFrame, Zenon DEF IInv

\* Every step of every thread keeps the invariant.
LEMMA NextInv == IInv /\ [Next]_vars => IInv'
<1> SUFFICES ASSUME IInv, [Next]_vars PROVE IInv' BY Zenon
<1>1. ASSUME NEW t \in Producers, Produce(t) \/ ProduceStep(t) PROVE IInv'
  <2> t \in Threads BY Zenon DEF Threads
  <2>1. CASE Produce(t) BY <2>1, ProduceInv, Zenon
  <2>2. CASE LoadProduceCursor(t) BY <2>2, LoadProduceCursorInv, Zenon
  <2>3. CASE TestFull(t) BY <2>3, TestFullInv, Zenon
  <2>4. CASE Block(t) BY <2>4, BlockFailsInv, BlockSucceedsInv, Zenon
  <2>5. CASE AdvanceProduce(t) BY <2>5, AdvanceProduceInv, Zenon
  <2>6. CASE StoreData(t) BY <2>6, StoreDataInv, Zenon
  <2>7. CASE DataStored(t) BY <2>7, DataStoredInv, Zenon
  <2>8. CASE Unblock(t) BY <2>8, UnblockInv, Zenon
  <2> QED BY <1>1, <2>1, <2>2, <2>3, <2>4, <2>5, <2>6, <2>7, <2>8, Zenon DEF ProduceStep
<1>2. ASSUME NEW t \in Consumers, Consume(t) \/ ConsumeStep(t) PROVE IInv'
  <2> t \in Threads BY Zenon DEF Threads
  <2>1. CASE Consume(t) BY <2>1, ConsumeInv, Zenon
  <2>2. CASE LoadConsumeCursor(t) BY <2>2, LoadConsumeCursorInv, Zenon
  <2>3. CASE TestEmpty(t) BY <2>3, TestEmptyInv, Zenon
  <2>4. CASE TestBlocked(t) BY <2>4, TestBlockedInv, Zenon
  <2>5. CASE LoadData(t) BY <2>5, LoadDataInv, Zenon
  <2>6. CASE AdvanceConsume(t) BY <2>6, ConsumeSucceedsInv, ConsumeFailsInv, Zenon
  <2> QED BY <1>2, <2>1, <2>2, <2>3, <2>4, <2>5, <2>6, Zenon DEF ConsumeStep
<1>3. ASSUME UNCHANGED vars PROVE IInv'
  <2>1. UNCHANGED <<shared, history>> /\ UNCHANGED <<at, pc, cc, did_block, element>>
    BY <1>3, Zenon DEF vars, shared, locals, history
  <2>2. TypeOK' BY <2>1, Zenon DEF IInv, TypeOK, shared, history
  <2>3. Owners' BY <2>1, Zenon DEF IInv, Owners, Owner, shared, history
  <2>4. ProducerLocals' BY <2>1, Zenon DEF IInv, ProducerLocals, N, shared, history
  <2>5. ConsumerLocals' BY <2>1, Zenon DEF IInv, ConsumerLocals, Free, shared, history
  <2> QED BY <2>1, <2>2, <2>3, <2>4, <2>5, SharedFrame, Zenon DEF IInv
<1> QED BY <1>1, <1>2, <1>3, Zenon DEF Next

\* The invariant holds in every reachable state.
LEMMA Invariance == Spec => []IInv
  BY InitInv, NextInv, PTL DEF Spec
------------------------------------------------------------------------------
(***************************************************************************)
(* The theorems.                                                           *)
(***************************************************************************)

\* consume never returns what it loaded while a producer was storing.
THEOREM TypeCorrect == Spec => []TypeOK
<1>1. IInv => TypeOK BY Zenon DEF IInv
<1> QED BY <1>1, Invariance, PTL

\* Every produced entry is consumed once and only once, in the order in which
\* the producers claimed their slots.
THEOREM OnceInOrder == Spec => []ConsumedOnceInOrder
<1>1. IInv => ConsumedOnceInOrder BY Zenon DEF IInv
<1> QED BY <1>1, Invariance, PTL

\* Two producers never store to the same slot.
THEOREM Exclusion == Spec => []SlotsAreExclusive
<1>1. ASSUME IInv PROVE SlotsAreExclusive
  <2> SUFFICES ASSUME NEW t \in Threads, NEW u \in Threads, t # u,
                      {at[t], at[u]} \subseteq {"store", "storing", "unblock"}
               PROVE  Index(pc[t]) # Index(pc[u])
    BY Zenon DEF SlotsAreExclusive
  <2>1. Owner(t) /\ Owner(u) BY Zenon DEF Owner
  <2> QED BY <1>1, <2>1, OwnSlot, Zenon
<1> QED BY <1>1, Invariance, PTL

------------------------------------------------------------------------------
(***************************************************************************)
(* The queue implements BoundedFifo.                                       *)
(***************************************************************************)

\* What is claimed and not yet consumed.
QueuedShape ==
  /\ Queued \in Seq(Elements) /\ Len(Queued) = N - m_consume_cursor
  /\ N \in Nat /\ m_consume_cursor \in Nat /\ m_consume_cursor <= N
  /\ \A n \in 1 .. Len(Queued) : Queued[n] = taken[m_consume_cursor + n]

\* The mapped queue holds the claimed elements from the consume cursor on.
LEMMA QueuedType == IInv => QueuedShape
<1> SUFFICES ASSUME IInv PROVE QueuedShape BY Zenon
<1>1. N \in Nat /\ m_consume_cursor \in Nat /\ m_consume_cursor <= N /\ Len(consumed) = m_consume_cursor
  BY DEF IInv, TypeOK, ConsumedOnceInOrder, N
<1> DEFINE k == N - m_consume_cursor
<1>2. k \in Nat /\ Queued = [n \in 1 .. k |-> taken[m_consume_cursor + n]] BY <1>1 DEF Queued, N
<1>3. \A n \in 1 .. k : taken[m_consume_cursor + n] \in Elements BY <1>1 DEF IInv, TypeOK, N
<1> HIDE DEF k
<1>4. Queued \in Seq(Elements) /\ Len(Queued) = k BY <1>2, <1>3
<1> QED BY <1>1, <1>2, <1>4, Zenon DEF k, QueuedShape

\* And so it does after a step.
LEMMA QueuedTypeNext == IInv' => QueuedShape'
  BY QueuedType, PTL

\* Sequences of the same length with the same elements are equal.
LEMMA SameSequence ==
  ASSUME NEW S, NEW a \in Seq(S), NEW b \in Seq(S), Len(a) = Len(b),
         \A n \in 1 .. Len(a) : a[n] = b[n]
  PROVE  a = b
  OBVIOUS

\* Claiming a slot puts the element at the end of the queue.
LEMMA ClaimPuts ==
  ASSUME IInv, IInv', NEW t \in Threads, Block(t), taken' # taken
  PROVE  Fifo!Put(element[t]) /\ element[t] \in Elements
<1> DEFINE e == element[t]
<1>1. taken' = Append(taken, e) /\ e \in Elements /\ UNCHANGED <<consumed, m_consume_cursor>>
  BY Zenon DEF Block, IInv, ProducerLocals, Producing
<1>2. N' = N + 1 /\ taken'[N + 1] = e /\ \A n \in 1 .. N : taken'[n] = taken[n]
  BY <1>1 DEF IInv, TypeOK, N
<1>3. Len(Queued) < Capacity
  <2>1. N' <= m_consume_cursor + Capacity BY <1>1, Zenon DEF IInv, Cursors
  <2> QED BY <1>2, <2>1, QueuedType, CircularQueueAssumption DEF QueuedShape
<1>4. Queued' = Append(Queued, e)
  <2> DEFINE q == Queued k == N - m_consume_cursor c == m_consume_cursor qq == Queued'
  <2>1. q \in Seq(Elements) /\ Len(q) = k /\ k \in Nat /\ c \in Nat /\ N = c + k /\ N \in Nat
        /\ \A n \in 1 .. k : q[n] = taken[c + n]
    BY QueuedType DEF QueuedShape
  <2>2. qq \in Seq(Elements) /\ Len(qq) = k + 1 /\ \A n \in 1 .. (k + 1) : qq[n] = taken'[c + n]
    <3>1. qq \in Seq(Elements) /\ Len(qq) = (N + 1) - c /\ \A n \in 1 .. Len(qq) : qq[n] = taken'[c + n]
      BY <1>1, <1>2, QueuedTypeNext, Zenon DEF QueuedShape
    <3> QED BY <2>1, <3>1
  <2> HIDE DEF q, k, c, qq, e
  <2>3. Append(q, e) \in Seq(Elements) /\ Len(Append(q, e)) = k + 1 BY <1>1, <2>1
  <2>4. ASSUME NEW n \in 1 .. (k + 1) PROVE qq[n] = Append(q, e)[n]
    <3>1. CASE n = k + 1 BY <1>2, <2>1, <2>2, <3>1
    <3>2. CASE n \in 1 .. k
      <4>1. c + n \in 1 .. N BY <2>1, <3>2
      <4> QED BY <1>2, <2>1, <2>2, <3>2, <4>1
    <3> QED BY <2>1, <3>1, <3>2
  <2>5. qq = Append(q, e) BY <2>2, <2>3, <2>4, SameSequence, Zenon
  <2> QED BY <2>5, Zenon DEF q, qq
<1> QED BY <1>1, <1>3, <1>4, Zenon DEF Fifo!Put

\* Advancing the consume cursor takes the first element of the queue.
LEMMA AdvanceTakes ==
  ASSUME IInv, IInv', NEW t \in Threads, AdvanceConsume(t), consumed' # consumed
  PROVE  Fifo!Take
<1> DEFINE q == Queued qq == Queued' c == m_consume_cursor k == N - c
<1>1. cc[t] = c /\ consumed' = Append(consumed, element[t]) /\ m_consume_cursor' = c + 1 /\ taken' = taken /\ N' = N
  BY Zenon DEF AdvanceConsume, N
<1>2. c < N /\ element[t] = taken[c + 1]
  <2>1. at[t] = "advance_consume" BY Zenon DEF AdvanceConsume
  <2>2. c < m_produce_cursor /\ element[t] = taken[c + 1] BY <1>1, <2>1, Zenon DEF IInv, ConsumerLocals
  <2>3. m_produce_cursor <= N /\ c \in Nat /\ m_produce_cursor \in Nat /\ N \in Nat BY DEF IInv, TypeOK, Cursors, N
  <2> QED BY <2>2, <2>3
<1>3. q \in Seq(Elements) /\ Len(q) = k /\ k \in Nat /\ c \in Nat /\ N \in Nat /\ k >= 1
      /\ \A n \in 1 .. k : q[n] = taken[c + n]
  BY <1>2, QueuedType DEF QueuedShape
<1>4. qq \in Seq(Elements) /\ Len(qq) = k - 1 /\ \A n \in 1 .. (k - 1) : qq[n] = taken[c + 1 + n]
  <2>1. /\ qq \in Seq(Elements) /\ Len(qq) = N - (c + 1)
        /\ \A n \in 1 .. Len(qq) : qq[n] = taken[c + 1 + n]
    BY <1>1, QueuedTypeNext, Zenon DEF QueuedShape
  <2> QED BY <1>3, <2>1
<1>5. Queued # <<>> /\ Head(Queued) = element[t]
  <2> HIDE DEF k, q, c
  <2>1. q # <<>> /\ Head(q) = q[1] BY <1>3
  <2>2. q[1] = taken[c + 1] BY <1>3
  <2> QED BY <1>2, <2>1, <2>2, Zenon DEF q
<1>6. Queued' = Tail(Queued)
  <2> HIDE DEF k, q, qq, c
  <2>1. Tail(q) \in Seq(Elements) /\ Len(Tail(q)) = k - 1 /\ \A n \in 1 .. (k - 1) : Tail(q)[n] = q[n + 1]
    BY <1>3
  <2>2. ASSUME NEW n \in 1 .. (k - 1) PROVE qq[n] = Tail(q)[n]
    <3>1. n + 1 \in 1 .. k /\ c + 1 + n = c + (n + 1) BY <1>3
    <3> QED BY <1>3, <1>4, <2>1, <3>1, Zenon
  <2>3. qq = Tail(q) BY <1>4, <2>1, <2>2, SameSequence, Zenon
  <2> QED BY <2>3, Zenon DEF q, qq
<1> QED BY <1>1, <1>5, <1>6, Zenon DEF Fifo!Take

\* Every step of the queue is a step of the abstract queue, or none.
LEMMA StepRefines == IInv /\ IInv' /\ [Next]_vars => [Fifo!Next]_<<Queued, consumed>>
<1> SUFFICES ASSUME IInv, IInv', [Next]_vars PROVE [Fifo!Next]_<<Queued, consumed>> BY Zenon
<1>1. UNCHANGED <<taken, consumed>> => UNCHANGED <<Queued, consumed>> BY Zenon DEF Queued
<1>2. ASSUME NEW t \in Threads, Block(t) PROVE [Fifo!Next]_<<Queued, consumed>>
  <2>1. UNCHANGED consumed BY <1>2, Zenon DEF Block
  <2> QED BY <1>1, <1>2, <2>1, ClaimPuts, Zenon DEF Fifo!Next
<1>3. ASSUME NEW t \in Threads, AdvanceConsume(t) PROVE [Fifo!Next]_<<Queued, consumed>>
  <2>1. UNCHANGED taken BY <1>3, Zenon DEF AdvanceConsume
  <2> QED BY <1>1, <1>3, <2>1, AdvanceTakes, Zenon DEF Fifo!Next
<1>4. ASSUME NEW t \in Threads, Produce(t) \/ LoadProduceCursor(t) \/ TestFull(t) \/ AdvanceProduce(t) \/ StoreData(t) \/ DataStored(t) \/ Unblock(t)
      PROVE  UNCHANGED <<taken, consumed>>
  BY <1>4, Zenon DEF Produce, LoadProduceCursor, TestFull, AdvanceProduce, StoreData, DataStored, Unblock, history
<1>5. ASSUME NEW t \in Threads, Consume(t) \/ LoadConsumeCursor(t) \/ TestEmpty(t) \/ TestBlocked(t) \/ LoadData(t)
      PROVE  UNCHANGED <<taken, consumed>>
  BY <1>5, Zenon DEF Consume, LoadConsumeCursor, TestEmpty, TestBlocked, LoadData, history
<1>6. UNCHANGED vars => UNCHANGED <<taken, consumed>> BY Zenon DEF vars, history
<1> QED BY <1>1, <1>2, <1>3, <1>4, <1>5, <1>6, Zenon DEF Next, ProduceStep, ConsumeStep, Threads

\* The lock-free queue implements the bounded first-in first-out queue.
THEOREM Refinement == Spec => ImplementsFifo
<1>1. Init => Fifo!Init BY DEF Init, Fifo!Init, Queued
<1> QED BY <1>1, Invariance, StepRefines, PTL DEF Spec, ImplementsFifo, Fifo!Spec
==============================================================================
