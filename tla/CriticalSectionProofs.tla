------------------------ MODULE CriticalSectionProofs ------------------------
(***************************************************************************)
(* Proofs about CriticalSection, for any number of threads and any depth:  *)
(* type correctness, that a writer is alone inside, and that a free        *)
(* section never forgets a waiter it promised to wake.                     *)
(*                                                                         *)
(* The inductive invariant says what the fields of a section stand for:    *)
(* rwlock is the depth of the writer or the number of reads, and           *)
(* waiting_writers the number of threads that wait in either queue or were *)
(* taken off it and have not run yet.  The steps assume what they need to  *)
(* know about counting; the facts follow, from the theorems on finite sets. *)
(***************************************************************************)
EXTENDS CriticalSection, FiniteSetTheorems, TLAPS

\* The reads that are inside, one for each level of a thread; a thread that
\* waits to be promoted has given up its own.
ReadsOf(a, c) == {p \in Threads \X (1 .. MaxDepth) : p[2] <= c[p[1]] /\ a[p[1]] # "promoter"}

WaitingOf(a) == {t \in Threads : a[t] \in {"writer", "promoter"}}

Distinct(q) == \A i, j \in DOMAIN q : q[i] = q[j] => i = j

\* How the tracker's view of a thread agrees with rwlock and owner.
Tracked(t) ==
  /\ mode[t] = "out" <=> enter_count[t] = 0
  /\ at[t] \in {"writer", "reader"} => mode[t] = "out"
  /\ mode[t] \in {"writer", "demoted"} <=> owner = t
  /\ mode[t] = "writer" => rwlock < 0
  /\ mode[t] = "demoted" => 1 <= demoted_at[t] /\ demoted_at[t] <= enter_count[t]
  /\ mode[t] = "demoted" => (rwlock >= 0 <=> demoted_at[t] = 1)
  /\ mode[t] # "demoted" => demoted_at[t] = 0
  /\ at[t] = "promoter" => mode[t] = "demoted" /\ enter_count[t] = 1
  /\ rwlock < 0 /\ owner = t => rwlock + enter_count[t] = 0
  /\ rwlock < 0 /\ owner # t => enter_count[t] = 0

Counted ==
  /\ rwlock < 0 => owner # None
  /\ rwlock >= 0 => rwlock = Cardinality(ReadsOf(at, enter_count))
  /\ waiting_writers = Cardinality(WaitingOf(at))

\* A thread is in a queue unless it was woken.
Queued(q, kind) ==
  /\ Distinct(q)
  /\ \A t \in Threads : InQueue(t, q) => at[t] = kind /\ resume_status[t] \in {"suspended", "interrupt"}
  /\ \A t \in Threads : at[t] = kind /\ resume_status[t] = "suspended" => InQueue(t, q)

IInv ==
  /\ TypeOK
  /\ \A t \in Threads : Tracked(t)
  /\ Counted
  /\ Queued(waiting_writers_queue, "writer")
  /\ Queued(waiting_promoters_queue, "promoter")
  /\ NoForgottenWaiter
------------------------------------------------------------------------------
(***************************************************************************)
(* What is needed of the counts: hypotheses here, and proved from the      *)
(* theorems on finite sets in CriticalSectionProofs.                       *)
(***************************************************************************)

\* There are no reads when every thread is out or waits to be promoted.
ReadsNone ==
  \A a, c : c \in [Threads -> 0 .. MaxDepth] =>
    /\ Cardinality(ReadsOf(a, c)) \in Nat
    /\ Cardinality(ReadsOf(a, c)) = 0 <=> \A u \in Threads : c[u] = 0 \/ a[u] = "promoter"

\* An enter adds one read.
ReadsAdd ==
  \A t \in Threads : \A a, b, c, d :
    /\ c \in [Threads -> 0 .. MaxDepth]
    /\ a[t] # "promoter" /\ b[t] # "promoter" /\ (\A u \in Threads \ {t} : b[u] = a[u])
    /\ c[t] < MaxDepth /\ d[t] = c[t] + 1 /\ (\A u \in Threads \ {t} : d[u] = c[u])
    => Cardinality(ReadsOf(b, d)) = Cardinality(ReadsOf(a, c)) + 1

\* An exit takes one read away.
ReadsRemove ==
  \A t \in Threads : \A a, c, d :
    /\ c \in [Threads -> 0 .. MaxDepth]
    /\ a[t] # "promoter" /\ c[t] > 0 /\ d[t] = c[t] - 1 /\ (\A u \in Threads \ {t} : d[u] = c[u])
    => Cardinality(ReadsOf(a, d)) = Cardinality(ReadsOf(a, c)) - 1

\* A thread at depth 1 that waits to be promoted gives up one read.
ReadsGiveUp ==
  \A t \in Threads : \A a, b, c :
    /\ c \in [Threads -> 0 .. MaxDepth] /\ c[t] = 1
    /\ a[t] # "promoter" /\ b[t] = "promoter" /\ (\A u \in Threads \ {t} : b[u] = a[u])
    => Cardinality(ReadsOf(b, c)) = Cardinality(ReadsOf(a, c)) - 1

\* One thread inside, at depth 1, is one read.
ReadsOne ==
  \A t \in Threads : \A a, c :
    /\ c \in [Threads -> 0 .. MaxDepth]
    /\ a[t] # "promoter" /\ c[t] = 1 /\ (\A u \in Threads \ {t} : c[u] = 0)
    => Cardinality(ReadsOf(a, c)) = 1

\* Waiting threads are counted one by one.
WaitingCount ==
  \A a : /\ Cardinality(WaitingOf(a)) \in Nat
         /\ Cardinality(WaitingOf(a)) = 0 <=> \A u \in Threads : a[u] \notin {"writer", "promoter"}

\* A thread that starts to wait is one more.
WaitingAdd ==
  \A t \in Threads : \A a, b :
    /\ \A u \in Threads \ {t} : b[u] = a[u]
    /\ a[t] \notin {"writer", "promoter"} /\ b[t] \in {"writer", "promoter"}
    => Cardinality(WaitingOf(b)) = Cardinality(WaitingOf(a)) + 1

\* A thread that waits no more is one less.
WaitingRemove ==
  \A t \in Threads : \A a, b :
    /\ \A u \in Threads \ {t} : b[u] = a[u]
    /\ a[t] \in {"writer", "promoter"} /\ b[t] \notin {"writer", "promoter"}
    => Cardinality(WaitingOf(b)) = Cardinality(WaitingOf(a)) - 1

Counting ==
  /\ ReadsNone /\ ReadsAdd /\ ReadsRemove /\ ReadsGiveUp /\ ReadsOne
  /\ WaitingCount /\ WaitingAdd /\ WaitingRemove
------------------------------------------------------------------------------
\* What a thread that waits at the rear does to a queue.
LEMMA QueueAppend ==
  ASSUME NEW q \in Seq(Threads), NEW t \in Threads, Distinct(q), ~InQueue(t, q)
  PROVE  /\ Append(q, t) \in Seq(Threads) /\ Distinct(Append(q, t))
         /\ \A u \in Threads : InQueue(u, Append(q, t)) <=> u = t \/ InQueue(u, q)
<1>1. /\ Append(q, t) \in Seq(Threads) /\ Len(q) \in Nat
      /\ DOMAIN q = 1 .. Len(q) /\ DOMAIN Append(q, t) = 1 .. Len(q) + 1
      /\ \A i \in 1 .. Len(q) : Append(q, t)[i] = q[i]
      /\ Append(q, t)[Len(q) + 1] = t
  OBVIOUS
<1>2. \A i \in 1 .. Len(q) + 1 : i \in 1 .. Len(q) \/ i = Len(q) + 1  BY <1>1
<1>3. Distinct(Append(q, t))  BY <1>1, <1>2, Zenon DEF Distinct, InQueue
<1>4. ASSUME NEW u \in Threads
      PROVE  InQueue(u, Append(q, t)) <=> u = t \/ InQueue(u, q)
  BY <1>1, <1>2 DEF InQueue
<1>. QED  BY <1>1, <1>3, <1>4, Zenon

\* What a wakeup does to a queue.
LEMMA QueueTail ==
  ASSUME NEW q \in Seq(Threads), q # <<>>, Distinct(q)
  PROVE  /\ Tail(q) \in Seq(Threads) /\ Distinct(Tail(q))
         /\ Head(q) \in Threads /\ InQueue(Head(q), q)
         /\ \A u \in Threads : InQueue(u, Tail(q)) <=> InQueue(u, q) /\ u # Head(q)
<1>1. /\ Tail(q) \in Seq(Threads) /\ Head(q) \in Threads /\ Head(q) = q[1]
      /\ Len(q) \in Nat /\ Len(q) >= 1 /\ DOMAIN q = 1 .. Len(q) /\ DOMAIN Tail(q) = 1 .. Len(q) - 1
      /\ \A i \in 1 .. Len(q) - 1 : Tail(q)[i] = q[i + 1]
  OBVIOUS
<1>2. \A i \in 1 .. Len(q) - 1 : i + 1 \in 1 .. Len(q) /\ i + 1 # 1  BY <1>1
<1>3. \A i \in 1 .. Len(q) : i = 1 \/ (i - 1 \in 1 .. Len(q) - 1 /\ (i - 1) + 1 = i)  BY <1>1
<1>4. 1 \in DOMAIN q  BY <1>1
<1>5. Distinct(Tail(q))
  <2>1. ASSUME NEW i \in 1 .. Len(q) - 1, NEW j \in 1 .. Len(q) - 1, Tail(q)[i] = Tail(q)[j]
        PROVE  i = j
    <3>1. q[i + 1] = q[j + 1]  BY <1>1, <2>1, Zenon
    <3>2. i + 1 = j + 1  BY <3>1, <1>1, <1>2, Zenon DEF Distinct
    <3>. QED  BY <3>2, <1>1
  <2>. QED  BY <2>1, <1>1, Zenon DEF Distinct
<1>6. ASSUME NEW u \in Threads, InQueue(u, Tail(q))
      PROVE  InQueue(u, q) /\ u # Head(q)
  BY <1>1, <1>2, <1>4, <1>6 DEF InQueue, Distinct
<1>7. ASSUME NEW u \in Threads, InQueue(u, q), u # Head(q)
      PROVE  InQueue(u, Tail(q))
  <2>1. PICK i \in 1 .. Len(q) : q[i] = u  BY <1>1, <1>7, Zenon DEF InQueue
  <2>2. i - 1 \in 1 .. Len(q) - 1 /\ (i - 1) + 1 = i  BY <1>1, <1>3, <1>7, <2>1, Zenon
  <2>3. Tail(q)[i - 1] = u  BY <1>1, <2>1, <2>2, Zenon
  <2>. QED  BY <1>1, <2>2, <2>3, Zenon DEF InQueue
<1>. QED  BY <1>1, <1>4, <1>5, <1>6, <1>7, Zenon DEF InQueue
------------------------------------------------------------------------------
\* The counts depend on at only through the threads that wait.
LEMMA SameCounts ==
  ASSUME NEW a, NEW b, NEW c
  PROVE  /\ (\A u \in Threads : a[u] = "promoter" <=> b[u] = "promoter") => ReadsOf(a, c) = ReadsOf(b, c)
         /\ (\A u \in Threads : a[u] \in {"writer", "promoter"} <=> b[u] \in {"writer", "promoter"})
              => WaitingOf(a) = WaitingOf(b)
<1>1. ASSUME \A u \in Threads : a[u] = "promoter" <=> b[u] = "promoter"
      PROVE  ReadsOf(a, c) = ReadsOf(b, c)
  BY <1>1, Zenon DEF ReadsOf
<1>. QED  BY <1>1, Zenon DEF WaitingOf

\* A call is one of the calls that a thread may make.
LEMMA CallCounts ==
  ASSUME TypeOK, NEW t \in Threads, Call(t)
  PROVE  calls' \in [Threads -> 0 .. MaxCalls]
BY CriticalSectionAssumption, SMTT(20) DEF TypeOK, Call

\* The counting lemmas, for the state the program is in.
LEMMA CountedNow ==
  ASSUME Counting, IInv
  PROVE  /\ rwlock = 0 => \A v \in Threads : enter_count[v] = 0 \/ at[v] = "promoter"
         /\ waiting_writers = 0 <=> \A v \in Threads : at[v] \notin {"writer", "promoter"}
         /\ rwlock \in Int /\ waiting_writers \in Nat
         /\ \A v \in Threads : enter_count[v] \in Nat /\ demoted_at[v] \in Nat
<1>1. enter_count \in [Threads -> 0 .. MaxDepth] /\ demoted_at \in [Threads -> 0 .. MaxDepth]
      /\ rwlock \in Int /\ waiting_writers \in Nat  BY Zenon DEF IInv, TypeOK
<1>2. rwlock = 0 => Cardinality(ReadsOf(at, enter_count)) = 0  BY DEF IInv, Counted
<1>3. waiting_writers = Cardinality(WaitingOf(at))  BY Zenon DEF IInv, Counted
<1>4. Cardinality(ReadsOf(at, enter_count)) = 0 <=> \A v \in Threads : enter_count[v] = 0 \/ at[v] = "promoter"
  BY <1>1, Zenon DEF Counting, ReadsNone
<1>5. Cardinality(WaitingOf(at)) = 0 <=> \A v \in Threads : at[v] \notin {"writer", "promoter"}
  BY Zenon DEF Counting, WaitingCount
<1>6. \A v \in Threads : enter_count[v] \in Nat /\ demoted_at[v] \in Nat  BY <1>1, CriticalSectionAssumption
<1>. QED  BY <1>1, <1>2, <1>3, <1>4, <1>5, <1>6, Zenon

\* A thread that enters as the writer, or once more while it holds the
\* section: csect_enter, and csect_enter_as_reader of a writer.
LEMMA EnterGrantStep ==
  ASSUME Counting, IInv, NEW t \in Threads, WriterMayEnter(t), at[t] \in {"run", "writer"},
         at[t] = "run" => enter_count[t] < MaxDepth /\ (enter_count[t] > 0 => Holds(t)),
         at[t] = "writer" => ~InQueue(t, waiting_writers_queue),
         rwlock' = rwlock - 1, owner' = t,
         waiting_writers' = IF at[t] = "writer" THEN waiting_writers - 1 ELSE waiting_writers,
         Entered(t, "writer"), calls' \in [Threads -> 0 .. MaxCalls],
         UNCHANGED <<waiting_writers_queue, waiting_promoters_queue, readers_ok, resume_status>>
  PROVE  IInv'
<1>1. TypeOK /\ Counted /\ \A u \in Threads : Tracked(u)  BY Zenon DEF IInv
<1>2. /\ at' = [at EXCEPT ![t] = "run"] /\ enter_count' = [enter_count EXCEPT ![t] = @ + 1]
      /\ mode' = IF enter_count[t] = 0 THEN [mode EXCEPT ![t] = "writer"] ELSE mode
      /\ demoted_at' = demoted_at
  BY Zenon DEF Entered
<1>3. rwlock <= 0 /\ rwlock \in Int /\ (rwlock = 0 => owner = None) /\ (rwlock < 0 => owner = t)
  BY <1>1 DEF WriterMayEnter, Holds, TypeOK
<1>4. rwlock = 0 => \A v \in Threads : enter_count[v] = 0 \/ at[v] = "promoter"
  BY CountedNow, Zenon
<1>5. ASSUME NEW u \in Threads, u # t
      PROVE  enter_count[u] = 0 /\ mode[u] = "out" /\ at[u] # "promoter" /\ demoted_at[u] = 0
  <2>1. owner # u  BY <1>3, <1>5, CriticalSectionAssumption
  <2>2. mode[u] # "demoted" /\ at[u] # "promoter" /\ demoted_at[u] = 0  BY <1>1, <2>1, Zenon DEF Tracked
  <2>3. enter_count[u] = 0  BY <1>1, <1>3, <1>4, <2>1, <2>2 DEF Tracked
  <2>. QED  BY <1>1, <2>2, <2>3, Zenon DEF Tracked
<1>6. /\ rwlock + enter_count[t] = 0 /\ enter_count[t] < MaxDepth
      /\ rwlock = 0 => demoted_at[t] = 0 /\ mode[t] = "out"
      /\ rwlock < 0 => mode[t] \in {"writer", "demoted"} /\ at[t] = "run"
  <2>1. CASE rwlock = 0
    <3>1. owner # t  BY <1>3, <2>1, CriticalSectionAssumption, Zenon
    <3>2. enter_count[t] = 0  BY <1>1, <1>4, <2>1, <3>1, Zenon DEF Tracked
    <3>3. mode[t] = "out" /\ demoted_at[t] = 0  BY <1>1, <3>2, Zenon DEF Tracked
    <3>4. rwlock + 0 = 0  BY <2>1
    <3>. QED  BY <2>1, <3>2, <3>3, <3>4, CriticalSectionAssumption
  <2>2. CASE rwlock < 0
    <3>0. Tracked(t) /\ enter_count[t] \in Nat  BY <1>1, CountedNow, Zenon
    <3>1. mode[t] \in {"writer", "demoted"} /\ rwlock + enter_count[t] = 0  BY <3>0, <1>3, <2>2, Zenon DEF Tracked
    <3>2. at[t] = "run"  BY <1>1, <3>1, Zenon DEF Tracked
    <3>. QED  BY <2>2, <3>1, <3>2
  <2>. QED  BY <1>3, <2>1, <2>2
<1>7. TypeOK'
  <2>0. enter_count[t] + 1 \in 0 .. MaxDepth  BY <1>6, CountedNow, CriticalSectionAssumption
  <2>1. enter_count' \in [Threads -> 0 .. MaxDepth]  BY <1>1, <1>2, <2>0, Zenon DEF TypeOK
  <2>2. at[t] = "writer" => waiting_writers - 1 \in Nat
    BY CountedNow
  <2>3. waiting_writers' \in Nat  BY <1>1, <2>2, Zenon DEF TypeOK
  <2>. QED  BY <1>1, <1>2, <1>3, <2>1, <2>3 DEF TypeOK
<1>8. ASSUME NEW u \in Threads PROVE Tracked(u)'
  <2>1. CASE u = t
    <3>1. /\ rwlock' + enter_count'[t] = 0 /\ enter_count'[t] > 0 /\ at'[t] = "run" /\ demoted_at'[t] = demoted_at[t]
          /\ mode'[t] = IF rwlock = 0 THEN "writer" ELSE mode[t]
      BY <1>1, <1>2, <1>3, <1>6 DEF TypeOK
    <3>2. CASE rwlock = 0  BY <1>3, <1>6, <2>1, <3>1, <3>2 DEF Tracked
    <3>3. CASE rwlock < 0
      <4>1. Tracked(t) /\ enter_count[t] \in Nat /\ enter_count'[t] = enter_count[t] + 1 /\ demoted_at[t] \in Nat
        BY <1>1, <1>2 DEF TypeOK
      <4>. QED  BY <1>3, <1>6, <2>1, <3>1, <3>3, <4>1 DEF Tracked
    <3>. QED  BY <1>3, <3>2, <3>3
  <2>2. CASE u # t
    <3>1. enter_count'[u] = 0 /\ mode'[u] = "out" /\ at'[u] = at[u] /\ at[u] # "promoter" /\ demoted_at'[u] = 0
      BY <1>1, <1>2, <1>5, <2>2, Zenon DEF TypeOK
    <3>. QED  BY <1>3, <2>2, <3>1, Zenon DEF Tracked
  <2>. QED  BY <2>1, <2>2, Zenon
<1>9. Counted'
  <2>1. owner' # None /\ rwlock' < 0 /\ ~(rwlock' >= 0)  BY <1>3, CriticalSectionAssumption
  <2>2. CASE at[t] = "writer"
    <3>0. at'[t] = "run" /\ \A u \in Threads \ {t} : at'[u] = at[u]  BY <1>1, <1>2, Zenon DEF TypeOK
    <3>1. Cardinality(WaitingOf(at')) = Cardinality(WaitingOf(at)) - 1
      BY <2>2, <3>0, Zenon DEF Counting, WaitingRemove
    <3>. QED  BY <1>1, <2>1, <2>2, <3>1, Zenon DEF Counted
  <2>3. CASE at[t] = "run"
    <3>0. at' = at  BY <1>1, <1>2, <2>3, Zenon DEF TypeOK
    <3>1. WaitingOf(at') = WaitingOf(at)  BY <3>0, Zenon
    <3>2. waiting_writers' = waiting_writers  BY <2>3, Zenon
    <3>. QED  BY <1>1, <1>3, <2>1, <3>1, <3>2 DEF Counted
  <2>. QED  BY <2>2, <2>3, Zenon
<1>10. Queued(waiting_writers_queue, "writer")' /\ Queued(waiting_promoters_queue, "promoter")'
  <2>1. \A u \in Threads : u # t => at'[u] = at[u]  BY <1>1, <1>2, Zenon DEF TypeOK
  <2>2. at'[t] = "run"  BY <1>1, <1>2, Zenon DEF TypeOK
  <2>3. Queued(waiting_writers_queue, "writer") /\ Queued(waiting_promoters_queue, "promoter")  BY Zenon DEF IInv
  <2>4. ~InQueue(t, waiting_writers_queue) /\ ~InQueue(t, waiting_promoters_queue)  BY <2>3, Zenon DEF Queued
  <2>. QED  BY <2>1, <2>2, <2>3, <2>4, Zenon DEF Queued
<1>11. NoForgottenWaiter'  BY <1>3 DEF NoForgottenWaiter
<1>. QED  BY <1>7, <1>8, <1>9, <1>10, <1>11, Zenon DEF IInv

\* A thread that has to wait in csect_wait_on_writer_queue, for the first time
\* or again; it may have woken the head of the promoters.
LEMMA EnterWaitStep ==
  ASSUME Counting, IInv, NEW t \in Threads, ~WriterMayEnter(t), at[t] \in {"run", "writer"},
         at[t] = "run" => (enter_count[t] > 0 => mode[t] = "writer"),
         ~InQueue(t, waiting_writers_queue),
         waiting_writers' = IF at[t] = "writer" THEN waiting_writers ELSE waiting_writers + 1,
         waiting_writers_queue' = Append(waiting_writers_queue, t),
         at' = [at EXCEPT ![t] = "writer"], calls' \in [Threads -> 0 .. MaxCalls],
         UNCHANGED <<rwlock, owner, mode, enter_count, demoted_at, readers_ok>>,
         \/ waiting_promoters_queue' = waiting_promoters_queue
            /\ resume_status' = [resume_status EXCEPT ![t] = "suspended"]
         \/ /\ waiting_promoters_queue # <<>>
            /\ waiting_promoters_queue' = Tail(waiting_promoters_queue)
            /\ resume_status' = [[resume_status EXCEPT ![Head(waiting_promoters_queue)] = "resumed"]
                                   EXCEPT ![t] = "suspended"]
  PROVE  IInv'
<1>1. TypeOK /\ Counted /\ NoForgottenWaiter /\ \A u \in Threads : Tracked(u)  BY Zenon DEF IInv
<1>2. /\ Queued(waiting_writers_queue, "writer") /\ Queued(waiting_promoters_queue, "promoter")
      /\ waiting_writers_queue \in Seq(Threads) /\ waiting_promoters_queue \in Seq(Threads)
  BY Zenon DEF IInv, TypeOK
<1>3. mode[t] = "out"
  <2>1. Tracked(t) /\ enter_count[t] \in Nat  BY <1>1, CountedNow, Zenon
  <2>2. mode[t] # "writer"  BY <2>1, Zenon DEF Tracked, WriterMayEnter, Holds
  <2>. QED  BY <2>1, <2>2 DEF Tracked
<1>4. at'[t] = "writer" /\ \A u \in Threads \ {t} : at'[u] = at[u]  BY <1>1, Zenon DEF TypeOK
<1>5. /\ waiting_writers_queue' \in Seq(Threads) /\ Distinct(waiting_writers_queue')
      /\ \A u \in Threads : InQueue(u, waiting_writers_queue') <=> u = t \/ InQueue(u, waiting_writers_queue)
  BY <1>2, QueueAppend, Zenon DEF Queued
<1>6. /\ waiting_promoters_queue' \in Seq(Threads) /\ Distinct(waiting_promoters_queue')
      /\ resume_status' \in [Threads -> {"none", "suspended", "resumed", "interrupt"}]
      /\ resume_status'[t] = "suspended"
      /\ \A u \in Threads : InQueue(u, waiting_promoters_queue') => InQueue(u, waiting_promoters_queue)
      /\ \A u \in Threads \ {t} :
           \/ resume_status'[u] = resume_status[u]
              /\ (InQueue(u, waiting_promoters_queue) => InQueue(u, waiting_promoters_queue'))
           \/ resume_status'[u] = "resumed" /\ at[u] = "promoter" /\ ~InQueue(u, waiting_promoters_queue')
  <2>1. CASE /\ waiting_promoters_queue' = waiting_promoters_queue
             /\ resume_status' = [resume_status EXCEPT ![t] = "suspended"]
    <3>1. Distinct(waiting_promoters_queue)  BY <1>2, Zenon DEF Queued
    <3>. QED  BY <1>1, <2>1, <3>1, Zenon DEF TypeOK
  <2>2. CASE /\ waiting_promoters_queue # <<>>
             /\ waiting_promoters_queue' = Tail(waiting_promoters_queue)
             /\ resume_status' = [[resume_status EXCEPT ![Head(waiting_promoters_queue)] = "resumed"]
                                    EXCEPT ![t] = "suspended"]
    <3>1. /\ waiting_promoters_queue' \in Seq(Threads) /\ Distinct(waiting_promoters_queue')
          /\ Head(waiting_promoters_queue) \in Threads
          /\ InQueue(Head(waiting_promoters_queue), waiting_promoters_queue)
          /\ \A u \in Threads : InQueue(u, waiting_promoters_queue')
               <=> InQueue(u, waiting_promoters_queue) /\ u # Head(waiting_promoters_queue)
      BY <1>2, <2>2, QueueTail, Zenon DEF Queued
    <3>2. at[Head(waiting_promoters_queue)] = "promoter"  BY <1>2, <3>1, Zenon DEF Queued
    <3>. QED  BY <1>1, <2>2, <3>1, <3>2, Zenon DEF TypeOK
  <2>. QED  BY <2>1, <2>2, Zenon
<1>7. TypeOK'
  <2>1. waiting_writers' \in Nat  BY CountedNow
  <2>. QED  BY <1>1, <1>5, <1>6, <2>1, Zenon DEF TypeOK
<1>8. ASSUME NEW u \in Threads PROVE Tracked(u)'
  <2>1. Tracked(u) /\ (u = t => mode[u] = "out" /\ at'[u] = "writer") /\ (u # t => at'[u] = at[u])
    BY <1>1, <1>3, <1>4, Zenon
  <2>. QED  BY <2>1, Zenon DEF Tracked
<1>9. Counted'
  <2>1. \A u \in Threads : at'[u] = "promoter" <=> at[u] = "promoter"  BY <1>4, Zenon
  <2>2. ReadsOf(at', enter_count') = ReadsOf(at, enter_count)
    <3>1. enter_count' = enter_count  BY Zenon
    <3>2. ReadsOf(at', enter_count) = ReadsOf(at, enter_count)  BY <2>1, Zenon DEF ReadsOf
    <3>. QED  BY <3>1, <3>2, Zenon
  <2>3. waiting_writers' = Cardinality(WaitingOf(at'))
    <3>1. CASE at[t] = "writer"
      <4>1. \A u \in Threads : at'[u] \in {"writer", "promoter"} <=> at[u] \in {"writer", "promoter"}  BY <1>4, <3>1, Zenon
      <4>2. WaitingOf(at') = WaitingOf(at)  BY <4>1, SameCounts, Zenon
      <4>. QED  BY <1>1, <3>1, <4>2, Zenon DEF Counted
    <3>2. CASE at[t] = "run"
      <4>1. Cardinality(WaitingOf(at')) = Cardinality(WaitingOf(at)) + 1  BY <1>4, <3>2, Zenon DEF Counting, WaitingAdd
      <4>. QED  BY <1>1, <3>2, <4>1, Zenon DEF Counted
    <3>. QED  BY <3>1, <3>2, Zenon
  <2>. QED  BY <1>1, <2>2, <2>3, Zenon DEF Counted
<1>10. Queued(waiting_writers_queue, "writer")'
  <2>1. ASSUME NEW u \in Threads, InQueue(u, waiting_writers_queue')
        PROVE  at'[u] = "writer" /\ resume_status'[u] \in {"suspended", "interrupt"}
    <3>1. u # t => InQueue(u, waiting_writers_queue)  BY <1>5, <2>1, Zenon
    <3>2. u # t => at[u] = "writer" /\ resume_status[u] \in {"suspended", "interrupt"}  BY <1>2, <3>1, Zenon DEF Queued
    <3>. QED  BY <1>4, <1>6, <3>2, Zenon
  <2>2. ASSUME NEW u \in Threads, at'[u] = "writer", resume_status'[u] = "suspended"
        PROVE  InQueue(u, waiting_writers_queue')
    <3>1. u # t => at[u] = "writer" /\ resume_status[u] = "suspended"  BY <1>4, <1>6, <2>2, Zenon
    <3>2. u # t => InQueue(u, waiting_writers_queue)  BY <1>2, <3>1, Zenon DEF Queued
    <3>. QED  BY <1>5, <3>2, Zenon
  <2>. QED  BY ONLY <1>5, <2>1, <2>2, Zenon DEF Queued
<1>11. Queued(waiting_promoters_queue, "promoter")'
  <2>1. ~InQueue(t, waiting_promoters_queue)  BY <1>2, Zenon DEF Queued
  <2>2. ASSUME NEW u \in Threads, InQueue(u, waiting_promoters_queue')
        PROVE  at'[u] = "promoter" /\ resume_status'[u] \in {"suspended", "interrupt"}
    <3>1. InQueue(u, waiting_promoters_queue) /\ u # t  BY <1>6, <2>1, <2>2, Zenon
    <3>2. at[u] = "promoter" /\ resume_status[u] \in {"suspended", "interrupt"}  BY <1>2, <3>1, Zenon DEF Queued
    <3>. QED  BY <1>4, <1>6, <2>2, <3>1, <3>2, Zenon
  <2>3. ASSUME NEW u \in Threads, at'[u] = "promoter", resume_status'[u] = "suspended"
        PROVE  InQueue(u, waiting_promoters_queue')
    <3>1. u # t /\ at[u] = "promoter" /\ resume_status[u] = "suspended"
          /\ (InQueue(u, waiting_promoters_queue) => InQueue(u, waiting_promoters_queue'))
      BY <1>4, <1>6, <2>3, Zenon
    <3>2. InQueue(u, waiting_promoters_queue)  BY <1>2, <3>1, Zenon DEF Queued
    <3>. QED  BY <3>1, <3>2, Zenon
  <2>. QED  BY <1>6, <2>2, <2>3, Zenon DEF Queued
<1>12. NoForgottenWaiter'
  <2>1. ~(rwlock = 0 /\ owner = None)  BY Zenon DEF WriterMayEnter
  <2>2. rwlock = 0 => owner \in Threads /\ at[owner] = "promoter" /\ ~InQueue(owner, waiting_promoters_queue)
    BY <1>1, <2>1, Zenon DEF NoForgottenWaiter, TypeOK
  <2>3. rwlock = 0 => at'[owner] = "promoter" /\ ~InQueue(owner, waiting_promoters_queue')
    BY <1>4, <1>6, <2>2, Zenon
  <2>4. readers_ok # {} => rwlock < 0 \/ owner = None  BY <1>1, Zenon DEF NoForgottenWaiter
  <2>. QED  BY <1>4, <2>1, <2>3, <2>4, Zenon DEF NoForgottenWaiter
<1>. QED  BY <1>7, <1>8, <1>9, <1>10, <1>11, <1>12, Zenon DEF IInv

\* A thread that enters as a reader: csect_enter_as_reader.
LEMMA ReaderGrantStep ==
  ASSUME Counting, IInv, NEW t \in Threads, ReaderMayEnter, at[t] \in {"run", "reader"},
         at[t] = "run" => enter_count[t] < MaxDepth,
         rwlock' = rwlock + 1, Entered(t, "reader"), calls' \in [Threads -> 0 .. MaxCalls],
         UNCHANGED <<owner, waiting_writers, waiting_writers_queue, waiting_promoters_queue,
                     readers_ok, resume_status>>
  PROVE  IInv'
<1>0. /\ rwlock' = rwlock + 1 /\ owner' = owner /\ waiting_writers' = waiting_writers
      /\ waiting_writers_queue' = waiting_writers_queue /\ waiting_promoters_queue' = waiting_promoters_queue
      /\ readers_ok' = readers_ok /\ resume_status' = resume_status
  BY Zenon
<1>1. TypeOK /\ Counted /\ NoForgottenWaiter /\ \A u \in Threads : Tracked(u)  BY Zenon DEF IInv
<1>2. /\ at' = [at EXCEPT ![t] = "run"] /\ enter_count' = [enter_count EXCEPT ![t] = @ + 1]
      /\ mode' = IF enter_count[t] = 0 THEN [mode EXCEPT ![t] = "reader"] ELSE mode
      /\ demoted_at' = demoted_at
  BY Zenon DEF Entered
<1>3. rwlock >= 0 /\ rwlock \in Int /\ enter_count[t] \in Nat  BY CountedNow, Zenon DEF ReaderMayEnter
<1>4. enter_count[t] < MaxDepth
  <2>1. Tracked(t)  BY <1>1, Zenon
  <2>2. at[t] = "reader" => enter_count[t] = 0  BY <2>1, Zenon DEF Tracked
  <2>. QED  BY <2>2, CriticalSectionAssumption
<1>5. /\ at'[t] = "run" /\ \A u \in Threads \ {t} : at'[u] = at[u]
      /\ enter_count'[t] = enter_count[t] + 1 /\ \A u \in Threads \ {t} : enter_count'[u] = enter_count[u]
      /\ mode'[t] = (IF enter_count[t] = 0 THEN "reader" ELSE mode[t])
      /\ \A u \in Threads \ {t} : mode'[u] = mode[u]
  BY <1>1, <1>2, Zenon DEF TypeOK
<1>6. TypeOK'
  <2>1. enter_count[t] + 1 \in 0 .. MaxDepth  BY <1>3, <1>4, CriticalSectionAssumption
  <2>2. enter_count' \in [Threads -> 0 .. MaxDepth]  BY ONLY <1>1, <1>2, <2>1, Zenon DEF TypeOK
  <2>3. /\ at' \in [Threads -> {"run", "writer", "reader", "promoter"}]
        /\ mode' \in [Threads -> {"out", "reader", "writer", "demoted"}]
    BY ONLY <1>1, <1>2, Zenon DEF TypeOK
  <2>4. calls' \in [Threads -> 0 .. MaxCalls] /\ demoted_at' = demoted_at  BY <1>2, Zenon
  <2>5. rwlock' \in Int  BY <1>3
  <2>. QED  BY ONLY <1>0, <1>1, <2>2, <2>3, <2>4, <2>5, Zenon DEF TypeOK
<1>7. ASSUME NEW u \in Threads PROVE Tracked(u)'
  <2>1. Tracked(u) /\ rwlock' >= 0 /\ rwlock' \in Int /\ demoted_at[u] \in Nat  BY <1>1, <1>3, CountedNow
  <2>2. CASE u # t
    <3>1. at'[u] = at[u] /\ enter_count'[u] = enter_count[u] /\ mode'[u] = mode[u]  BY <1>5, <2>2, Zenon
    <3>2. demoted_at' = demoted_at /\ owner' = owner  BY <1>2, Zenon
    <3>. QED  BY ONLY <1>3, <2>1, <3>1, <3>2 DEF Tracked
  <2>3. CASE u = t
    <3>1. demoted_at' = demoted_at /\ owner' = owner  BY <1>2, Zenon
    <3>. QED  BY ONLY <1>3, <1>5, <2>1, <2>3, <3>1 DEF Tracked
  <2>. QED  BY <2>2, <2>3, Zenon
<1>8. Counted'
  <2>1. at[t] # "promoter" /\ at'[t] # "promoter" /\ at[t] \notin {"writer", "promoter"}  BY <1>5, Zenon
  <2>2. Cardinality(ReadsOf(at', enter_count')) = Cardinality(ReadsOf(at, enter_count)) + 1
    <3>1. enter_count \in [Threads -> 0 .. MaxDepth]  BY ONLY <1>1, Zenon DEF TypeOK
    <3>2. \A u \in Threads \ {t} : at'[u] = at[u]  BY <1>5, Zenon
    <3>3. enter_count'[t] = enter_count[t] + 1 /\ \A u \in Threads \ {t} : enter_count'[u] = enter_count[u]
      BY <1>5, Zenon
    <3>. QED  BY <1>4, <2>1, <3>1, <3>2, <3>3 DEF Counting, ReadsAdd
  <2>3. \A u \in Threads : at'[u] \in {"writer", "promoter"} <=> at[u] \in {"writer", "promoter"}  BY <1>5, <2>1, Zenon
  <2>4. WaitingOf(at') = WaitingOf(at)  BY ONLY <2>3, SameCounts, Zenon
  <2>. QED  BY ONLY <1>0, <1>1, <1>3, <2>2, <2>4 DEF Counted
<1>9. Queued(waiting_writers_queue, "writer")' /\ Queued(waiting_promoters_queue, "promoter")'
  <2>1. Queued(waiting_writers_queue, "writer") /\ Queued(waiting_promoters_queue, "promoter")  BY Zenon DEF IInv
  <2>2. at[t] \in {"run", "reader"}  BY Zenon
  <2>. QED  BY ONLY <1>0, <1>5, <2>1, <2>2 DEF Queued
<1>10. NoForgottenWaiter'
  <2>1. readers_ok = {}
    <3>1. \A u \in Threads : at[u] = "writer" => waiting_writers > 0  BY CountedNow
    <3>2. waiting_writers > 0 => owner # None  BY Zenon DEF ReaderMayEnter
    <3>. QED  BY ONLY <1>1, <1>3, <3>1, <3>2 DEF NoForgottenWaiter
  <2>. QED  BY ONLY <1>0, <1>3, <2>1 DEF NoForgottenWaiter
<1>. QED  BY <1>6, <1>7, <1>8, <1>9, <1>10, Zenon DEF IInv

\* A thread that waits on the condition variable of the readers.
LEMMA ReaderWaitStep ==
  ASSUME Counting, IInv, NEW t \in Threads, ~ReaderMayEnter, ~Holds(t), at[t] \in {"run", "reader"},
         mode[t] # "reader", at' = [at EXCEPT ![t] = "reader"],
         readers_ok' = readers_ok \cup {t}, calls' \in [Threads -> 0 .. MaxCalls],
         UNCHANGED <<rwlock, owner, waiting_writers, waiting_writers_queue, waiting_promoters_queue,
                     resume_status, mode, enter_count, demoted_at>>
  PROVE  IInv'
<1>1. TypeOK /\ Counted /\ NoForgottenWaiter /\ \A u \in Threads : Tracked(u)  BY Zenon DEF IInv
<1>2. at'[t] = "reader" /\ \A u \in Threads \ {t} : at'[u] = at[u]  BY <1>1, Zenon DEF TypeOK
<1>3. rwlock < 0 \/ (waiting_writers > 0 /\ owner = None)  BY CountedNow DEF ReaderMayEnter
<1>4. mode[t] = "out"
  <2>1. Tracked(t) /\ t # None /\ mode[t] \in {"out", "reader", "writer", "demoted"}
    BY <1>1, CriticalSectionAssumption, Zenon DEF TypeOK
  <2>. QED  BY <1>3, <2>1, Zenon DEF Tracked, Holds
<1>5. TypeOK'  BY <1>1, Zenon DEF TypeOK
<1>6. ASSUME NEW u \in Threads PROVE Tracked(u)'
  <2>1. Tracked(u) /\ (u = t => mode[u] = "out" /\ at'[u] = "reader") /\ (u # t => at'[u] = at[u])
    BY <1>1, <1>2, <1>4, Zenon
  <2>. QED  BY <2>1, Zenon DEF Tracked
<1>7. Counted'
  <2>1. \A u \in Threads : at'[u] = "promoter" <=> at[u] = "promoter"  BY <1>2, Zenon
  <2>2. ReadsOf(at', enter_count') = ReadsOf(at, enter_count)
    <3>1. enter_count' = enter_count  BY Zenon
    <3>2. ReadsOf(at', enter_count) = ReadsOf(at, enter_count)  BY <2>1, Zenon DEF ReadsOf
    <3>. QED  BY <3>1, <3>2, Zenon
  <2>3. \A u \in Threads : at'[u] \in {"writer", "promoter"} <=> at[u] \in {"writer", "promoter"}  BY <1>2, Zenon
  <2>4. WaitingOf(at') = WaitingOf(at)  BY ONLY <2>3, SameCounts, Zenon
  <2>. QED  BY <1>1, <2>2, <2>4, Zenon DEF Counted
<1>8. Queued(waiting_writers_queue, "writer")' /\ Queued(waiting_promoters_queue, "promoter")'
  BY <1>2 DEF IInv, Queued
<1>9. NoForgottenWaiter'
  <2>1. rwlock < 0 \/ \E u \in Threads : at[u] = "writer"
    <3>1. waiting_writers > 0 => \E u \in Threads : at[u] \in {"writer", "promoter"}  BY CountedNow
    <3>2. owner = None => \A u \in Threads : at[u] # "promoter"  BY <1>1, CriticalSectionAssumption, Zenon DEF Tracked
    <3>. QED  BY <1>3, <3>1, <3>2, Zenon
  <2>2. rwlock < 0 \/ \E u \in Threads : at'[u] = "writer"  BY <1>2, <2>1, Zenon
  <2>3. ~(rwlock = 0 /\ owner # None)  BY <1>3, CountedNow
  <2>4. rwlock = 0 /\ owner = None /\ waiting_writers_queue # <<>> =>
          \E u \in Threads : at[u] = "writer" /\ ~InQueue(u, waiting_writers_queue)
    BY <1>1, Zenon DEF NoForgottenWaiter
  <2>5. rwlock = 0 /\ owner = None /\ waiting_writers_queue # <<>> =>
          \E u \in Threads : at'[u] = "writer" /\ ~InQueue(u, waiting_writers_queue)
    BY <1>2, <2>4, Zenon
  <2>. QED  BY <1>3, <2>2, <2>3, <2>5, Zenon DEF NoForgottenWaiter
<1>. QED  BY <1>5, <1>6, <1>7, <1>8, <1>9, Zenon DEF IInv

\* csect_demote.
LEMMA DemoteStep ==
  ASSUME Counting, IInv, NEW t \in Threads, Demote(t)
  PROVE  IInv'
<1>1. TypeOK /\ Counted /\ NoForgottenWaiter /\ \A u \in Threads : Tracked(u)  BY Zenon DEF IInv
<1>2. /\ at[t] = "run" /\ mode[t] = "writer" /\ rwlock < 0 /\ owner = t
      /\ owner' = owner /\ at' = at /\ enter_count' = enter_count /\ readers_ok' = {}
  BY Zenon DEF Demote, Call, Holds
<1>3. rwlock \in Int /\ enter_count[t] \in Nat /\ rwlock + enter_count[t] = 0
  BY <1>1, <1>2, CountedNow, Zenon DEF Tracked
<1>4. \A u \in Threads \ {t} : enter_count[u] = 0 /\ owner # u  BY <1>1, <1>2, Zenon DEF Tracked
<1>5. /\ mode' = [mode EXCEPT ![t] = "demoted"]
      /\ demoted_at' = [demoted_at EXCEPT ![t] = enter_count[t]]
  BY Zenon DEF Demote
<1>6. /\ mode'[t] = "demoted" /\ demoted_at'[t] = enter_count[t]
      /\ \A u \in Threads \ {t} : mode'[u] = mode[u] /\ demoted_at'[u] = demoted_at[u]
  BY <1>1, <1>5, Zenon DEF TypeOK
<1>7. rwlock' = (IF rwlock = -1 THEN 1 ELSE rwlock) /\ rwlock' \in Int
  BY <1>3 DEF Demote
<1>8. /\ waiting_writers' = waiting_writers /\ resume_status' = resume_status
      /\ waiting_writers_queue' = waiting_writers_queue /\ waiting_promoters_queue' = waiting_promoters_queue
  BY Zenon DEF Demote
<1>9. TypeOK'
  <2>1. calls' \in [Threads -> 0 .. MaxCalls]  BY <1>1, CallCounts, Zenon DEF Demote
  <2>2. enter_count[t] \in 0 .. MaxDepth  BY <1>1, Zenon DEF TypeOK
  <2>3. /\ mode' \in [Threads -> {"out", "reader", "writer", "demoted"}]
        /\ demoted_at' \in [Threads -> 0 .. MaxDepth]
    BY <1>1, <1>5, <2>2, Zenon DEF TypeOK
  <2>. QED  BY <1>1, <1>2, <1>7, <1>8, <2>1, <2>3, Zenon DEF TypeOK
<1>10. ASSUME NEW u \in Threads PROVE Tracked(u)'
  <2>1. Tracked(u)  BY <1>1, Zenon
  <2>2. CASE u = t
    <3>1. enter_count[t] # 0 /\ (rwlock = -1 <=> enter_count[t] = 1) /\ (rwlock' >= 0 <=> rwlock = -1)
      BY <1>2, <1>3, <1>7
    <3>2. rwlock' < 0 => rwlock' = rwlock  BY <1>7
    <3>. QED  BY <1>2, <1>3, <1>6, <2>2, <3>1, <3>2 DEF Tracked
  <2>3. CASE u # t
    <3>1. mode'[u] = mode[u] /\ demoted_at'[u] = demoted_at[u] /\ enter_count[u] = 0 /\ owner # u
      BY ONLY <1>4, <1>6, <2>3, Zenon
    <3>2. mode[u] = "out"  BY <2>1, <3>1, Zenon DEF Tracked
    <3>. QED  BY <1>2, <2>1, <3>1, <3>2, Zenon DEF Tracked
  <2>. QED  BY <2>2, <2>3, Zenon
<1>11. Counted'
  <2>1. rwlock = -1 => Cardinality(ReadsOf(at, enter_count)) = 1
    <3>1. enter_count \in [Threads -> 0 .. MaxDepth] /\ at[t] # "promoter"  BY <1>1, <1>2, Zenon DEF TypeOK
    <3>2. rwlock = -1 => enter_count[t] = 1  BY <1>3
    <3>. QED  BY <1>4, <3>1, <3>2, Zenon DEF Counting, ReadsOne
  <2>2. owner' # None  BY <1>2, CriticalSectionAssumption, Zenon
  <2>3. waiting_writers' = Cardinality(WaitingOf(at'))  BY ONLY <1>1, <1>2, <1>8, Zenon DEF Counted
  <2>4. rwlock' >= 0 => rwlock' = 1 /\ rwlock = -1  BY ONLY <1>2, <1>7
  <2>5. rwlock' >= 0 => rwlock' = Cardinality(ReadsOf(at', enter_count'))  BY ONLY <1>2, <2>1, <2>4, Zenon
  <2>. QED  BY ONLY <2>2, <2>3, <2>5, Zenon DEF Counted
<1>12. Queued(waiting_writers_queue, "writer")' /\ Queued(waiting_promoters_queue, "promoter")'
  <2>1. Queued(waiting_writers_queue, "writer") /\ Queued(waiting_promoters_queue, "promoter")  BY Zenon DEF IInv
  <2>. QED  BY <1>2, <1>8, <2>1, Zenon DEF Queued
<1>13. NoForgottenWaiter'  BY <1>2, <1>7 DEF NoForgottenWaiter
<1>. QED  BY <1>9, <1>10, <1>11, <1>12, <1>13, Zenon DEF IInv

\* A thread that stays where it is in a queue, or is interrupted there.
LEMMA SuspendedStep ==
  ASSUME Counting, IInv, NEW t \in Threads, NEW r \in {"suspended", "interrupt"},
         at[t] \in {"writer", "promoter"},
         r = "suspended" => (at[t] = "writer" => InQueue(t, waiting_writers_queue))
                            /\ (at[t] = "promoter" => InQueue(t, waiting_promoters_queue)),
         resume_status' = [resume_status EXCEPT ![t] = r], UNCHANGED <<csect, at, tracker>>
  PROVE  IInv'
<1>1. TypeOK /\ Counted /\ NoForgottenWaiter /\ \A u \in Threads : Tracked(u)  BY Zenon DEF IInv
<1>2. /\ rwlock' = rwlock /\ owner' = owner /\ waiting_writers' = waiting_writers
      /\ waiting_writers_queue' = waiting_writers_queue /\ waiting_promoters_queue' = waiting_promoters_queue
      /\ readers_ok' = readers_ok /\ at' = at /\ mode' = mode /\ enter_count' = enter_count
      /\ demoted_at' = demoted_at /\ calls' = calls
  BY Zenon DEF csect, tracker
<1>3. /\ resume_status'[t] = r /\ \A u \in Threads \ {t} : resume_status'[u] = resume_status[u]
      /\ resume_status' \in [Threads -> {"none", "suspended", "resumed", "interrupt"}]
  BY <1>1, Zenon DEF TypeOK
<1>4. TypeOK'  BY ONLY <1>1, <1>2, <1>3, Zenon DEF TypeOK
<1>5. Counted'  BY ONLY <1>1, <1>2, Zenon DEF Counted
<1>6. \A u \in Threads : Tracked(u)'  BY ONLY <1>1, <1>2, Zenon DEF Tracked
<1>7. Queued(waiting_writers_queue, "writer")'
  <2>1. Queued(waiting_writers_queue, "writer")  BY Zenon DEF IInv
  <2>. QED  BY <1>2, <1>3, <2>1, Zenon DEF Queued
<1>8. Queued(waiting_promoters_queue, "promoter")'
  <2>1. Queued(waiting_promoters_queue, "promoter")  BY Zenon DEF IInv
  <2>. QED  BY <1>2, <1>3, <2>1, Zenon DEF Queued
<1>9. NoForgottenWaiter'  BY ONLY <1>1, <1>2, Zenon DEF NoForgottenWaiter
<1>. QED  BY <1>4, <1>5, <1>6, <1>7, <1>8, <1>9, Zenon DEF IInv

\* A demoted thread that holds the only read, or gave it up and finds no other,
\* is alone in the section.
LEMMA DemotedAlone ==
  ASSUME Counting, IInv, NEW t \in Threads, mode[t] = "demoted",
         (at[t] = "run" /\ rwlock = 1 /\ enter_count[t] = 1) \/ (at[t] = "promoter" /\ rwlock = 0) \/ rwlock < 0
  PROVE  \A u \in Threads \ {t} : enter_count[u] = 0 /\ mode[u] = "out" /\ at[u] # "promoter"
                                    /\ owner # u /\ demoted_at[u] = 0
<1>1. TypeOK /\ Counted /\ \A u \in Threads : Tracked(u)  BY Zenon DEF IInv
<1>2. owner = t  BY <1>1, Zenon DEF Tracked
<1>3. \A u \in Threads \ {t} : owner # u /\ at[u] # "promoter" /\ mode[u] # "demoted" /\ demoted_at[u] = 0
  BY <1>1, <1>2, Zenon DEF Tracked
<1>4. \A u \in Threads \ {t} : enter_count[u] = 0
  <2>1. CASE rwlock < 0  BY <1>1, <1>3, <2>1, Zenon DEF Tracked
  <2>2. CASE at[t] = "promoter" /\ rwlock = 0  BY <1>3, <2>2, CountedNow, Zenon
  <2>3. CASE at[t] = "run" /\ rwlock = 1 /\ enter_count[t] = 1
    <3>. DEFINE b == [at EXCEPT ![t] = "promoter"]
    <3>1. b[t] = "promoter" /\ \A u \in Threads \ {t} : b[u] = at[u]  BY <1>1, Zenon DEF TypeOK
    <3>2. enter_count \in [Threads -> 0 .. MaxDepth]  BY <1>1, Zenon DEF TypeOK
    <3>3. Cardinality(ReadsOf(at, enter_count)) = 1  BY <1>1, <2>3 DEF Counted
    <3>. HIDE DEF b
    <3>4. Cardinality(ReadsOf(b, enter_count)) = 0  BY <2>3, <3>1, <3>2, <3>3 DEF Counting, ReadsGiveUp
    <3>5. \A u \in Threads : enter_count[u] = 0 \/ b[u] = "promoter"  BY <3>2, <3>4, Zenon DEF Counting, ReadsNone
    <3>. QED  BY <1>3, <3>1, <3>5, Zenon
  <2>. QED  BY <2>1, <2>2, <2>3, Zenon
<1>. QED  BY <1>1, <1>3, <1>4, Zenon DEF Tracked
------------------------------------------------------------------------------

\* csect_promote is granted.
LEMMA PromoteGrantStep ==
  ASSUME Counting, IInv, NEW t \in Threads, mode[t] = "demoted", enter_count[t] = demoted_at[t],
         \/ at[t] = "run" /\ rwlock \in {1} /\ enter_count[t] = 1
         \/ at[t] = "run" /\ rwlock < 0
         \/ at[t] = "promoter" /\ rwlock = 0 /\ ~InQueue(t, waiting_promoters_queue),
         rwlock' = IF rwlock < 0 THEN rwlock ELSE 0 - 1, owner' = t,
         waiting_writers' = IF at[t] = "promoter" THEN waiting_writers - 1 ELSE waiting_writers,
         at' = [at EXCEPT ![t] = "run"], mode' = [mode EXCEPT ![t] = "writer"],
         demoted_at' = [demoted_at EXCEPT ![t] = 0],
         UNCHANGED <<waiting_writers_queue, waiting_promoters_queue, readers_ok, resume_status,
                     enter_count, calls>>
  PROVE  IInv'
<1>1. TypeOK /\ Counted /\ NoForgottenWaiter /\ \A u \in Threads : Tracked(u)  BY Zenon DEF IInv
<1>2. \A u \in Threads \ {t} : enter_count[u] = 0 /\ mode[u] = "out" /\ at[u] # "promoter"
                                 /\ owner # u /\ demoted_at[u] = 0
  BY DemotedAlone, Zenon
<1>3. /\ rwlock \in Int /\ rwlock' \in Int /\ rwlock' < 0 /\ owner = t /\ enter_count[t] \in Nat
      /\ rwlock' + enter_count[t] = 0
  <2>1. rwlock \in Int /\ enter_count[t] \in Nat /\ Tracked(t)  BY <1>1, CountedNow, Zenon
  <2>2. owner = t /\ (rwlock < 0 => rwlock + enter_count[t] = 0) /\ (at[t] = "promoter" => enter_count[t] = 1)
    BY <2>1, Zenon DEF Tracked
  <2>. QED  BY <2>1, <2>2
<1>4. /\ at'[t] = "run" /\ mode'[t] = "writer" /\ demoted_at'[t] = 0
      /\ \A u \in Threads \ {t} : at'[u] = at[u] /\ mode'[u] = mode[u] /\ demoted_at'[u] = demoted_at[u]
  BY <1>1, Zenon DEF TypeOK
<1>5. TypeOK'
  <2>1. waiting_writers' \in Nat  BY CountedNow
  <2>2. demoted_at' \in [Threads -> 0 .. MaxDepth]  BY <1>1, CriticalSectionAssumption DEF TypeOK
  <2>. QED  BY <1>1, <1>3, <2>1, <2>2, Zenon DEF TypeOK
<1>6. ASSUME NEW u \in Threads PROVE Tracked(u)'
  <2>1. Tracked(u)  BY <1>1, Zenon
  <2>2. CASE u = t
    <3>1. enter_count[t] # 0  BY <1>3
    <3>. QED  BY <1>3, <1>4, <2>2, <3>1, Zenon DEF Tracked
  <2>3. CASE u # t
    <3>1. /\ at'[u] = at[u] /\ mode'[u] = "out" /\ demoted_at'[u] = 0 /\ enter_count[u] = 0
          /\ at[u] # "promoter" /\ owner' # u
      BY <1>2, <1>4, <2>3
    <3>. QED  BY <1>3, <3>1, Zenon DEF Tracked
  <2>. QED  BY <2>2, <2>3, Zenon
<1>7. Counted'
  <2>1. owner' # None  BY CriticalSectionAssumption, Zenon
  <2>2. \A u \in Threads \ {t} : at'[u] = at[u]  BY <1>4, Zenon
  <2>3. at[t] = "promoter" => Cardinality(WaitingOf(at')) = Cardinality(WaitingOf(at)) - 1
    <3>1. at'[t] \notin {"writer", "promoter"}  BY <1>4, Zenon
    <3>2. ASSUME at[t] \in {"writer", "promoter"}
          PROVE  Cardinality(WaitingOf(at')) = Cardinality(WaitingOf(at)) - 1
      BY <2>2, <3>1, <3>2, Zenon DEF Counting, WaitingRemove
    <3>. QED  BY <3>2, Zenon
  <2>4. at[t] = "run" => WaitingOf(at') = WaitingOf(at)
    <3>1. at[t] = "run" => at' = at  BY <1>1, Zenon DEF TypeOK
    <3>. QED  BY <3>1, Zenon
  <2>5. waiting_writers' = Cardinality(WaitingOf(at'))  BY <1>1, <2>3, <2>4, Zenon DEF Counted
  <2>. QED  BY <1>3, <2>1, <2>5 DEF Counted
<1>8. Queued(waiting_writers_queue, "writer")' /\ Queued(waiting_promoters_queue, "promoter")'
  <2>1. ~InQueue(t, waiting_writers_queue) /\ ~InQueue(t, waiting_promoters_queue)  BY Zenon DEF IInv, Queued
  <2>. QED  BY <1>4, <2>1 DEF IInv, Queued
<1>9. NoForgottenWaiter'  BY <1>3 DEF NoForgottenWaiter
<1>. QED  BY <1>5, <1>6, <1>7, <1>8, <1>9, Zenon DEF IInv

\* csect_promote has to wait for readers, for the first time or again.
LEMMA PromoteWaitStep ==
  ASSUME Counting, IInv, NEW t \in Threads, mode[t] = "demoted", enter_count[t] = 1,
         at[t] \in {"run", "promoter"}, ~InQueue(t, waiting_promoters_queue),
         rwlock' = IF at[t] = "promoter" THEN rwlock ELSE rwlock - 1, rwlock' > 0,
         waiting_writers' = IF at[t] = "promoter" THEN waiting_writers ELSE waiting_writers + 1,
         waiting_promoters_queue' = Append(waiting_promoters_queue, t),
         resume_status' = [resume_status EXCEPT ![t] = "suspended"],
         at' = [at EXCEPT ![t] = "promoter"],
         UNCHANGED <<owner, mode, demoted_at, waiting_writers_queue, readers_ok, enter_count, calls>>
  PROVE  IInv'
<1>1. TypeOK /\ Counted /\ NoForgottenWaiter /\ \A u \in Threads : Tracked(u)  BY Zenon DEF IInv
<1>2. /\ at'[t] = "promoter" /\ resume_status'[t] = "suspended"
      /\ \A u \in Threads \ {t} : at'[u] = at[u] /\ resume_status'[u] = resume_status[u]
  BY <1>1, Zenon DEF TypeOK
<1>3. rwlock \in Int /\ rwlock > 0 /\ rwlock' \in Int /\ owner = t  BY <1>1, CountedNow DEF Tracked
<1>4. /\ waiting_promoters_queue' \in Seq(Threads) /\ Distinct(waiting_promoters_queue')
      /\ \A u \in Threads : InQueue(u, waiting_promoters_queue') <=> u = t \/ InQueue(u, waiting_promoters_queue)
  <2>1. waiting_promoters_queue \in Seq(Threads) /\ Distinct(waiting_promoters_queue)  BY Zenon DEF IInv, TypeOK, Queued
  <2>. QED  BY <2>1, QueueAppend, Zenon
<1>5. TypeOK'
  <2>1. waiting_writers' \in Nat  BY CountedNow
  <2>. QED  BY <1>1, <1>3, <1>4, <2>1, Zenon DEF TypeOK
<1>6. ASSUME NEW u \in Threads PROVE Tracked(u)'
  <2>1. Tracked(u) /\ (u = t => at'[u] = "promoter" /\ mode[u] = "demoted" /\ enter_count[u] = 1)
        /\ (u # t => at'[u] = at[u])
    BY <1>1, <1>2, Zenon
  <2>. QED  BY <1>3, <2>1 DEF Tracked
<1>7. Counted'
  <2>1. \A u \in Threads \ {t} : at'[u] = at[u]  BY <1>2, Zenon
  <2>2. CASE at[t] = "promoter"
    <3>1. at' = at  BY <1>1, <2>2, Zenon DEF TypeOK
    <3>. QED  BY <1>1, <1>3, <2>2, <3>1, Zenon DEF Counted
  <2>3. CASE at[t] = "run"
    <3>1. enter_count \in [Threads -> 0 .. MaxDepth] /\ enter_count' = enter_count  BY <1>1, Zenon DEF TypeOK
    <3>2. Cardinality(ReadsOf(at', enter_count)) = Cardinality(ReadsOf(at, enter_count)) - 1
      <4>1. at[t] # "promoter" /\ at'[t] = "promoter" /\ enter_count \in [Threads -> 0 .. MaxDepth]
        BY <1>2, <2>3, <3>1, Zenon
      <4>2. enter_count[t] = 1  BY Zenon
      <4>. QED  BY ONLY <2>1, <4>1, <4>2, Counting, t \in Threads DEF Counting, ReadsGiveUp
    <3>3. Cardinality(WaitingOf(at')) = Cardinality(WaitingOf(at)) + 1
      <4>1. at[t] \notin {"writer", "promoter"} /\ at'[t] \in {"writer", "promoter"}  BY <1>2, <2>3, Zenon
      <4>. QED  BY <2>1, <4>1, Zenon DEF Counting, WaitingAdd
    <3>. QED  BY <1>1, <1>3, <2>3, <3>1, <3>2, <3>3 DEF Counted
  <2>. QED  BY <2>2, <2>3, Zenon
<1>8. Queued(waiting_writers_queue, "writer")'  BY <1>2 DEF IInv, Queued
<1>9. Queued(waiting_promoters_queue, "promoter")'
  <2>1. Queued(waiting_promoters_queue, "promoter")  BY Zenon DEF IInv
  <2>2. ASSUME NEW u \in Threads, InQueue(u, waiting_promoters_queue')
        PROVE  at'[u] = "promoter" /\ resume_status'[u] \in {"suspended", "interrupt"}
    BY <1>2, <1>4, <2>1, <2>2 DEF Queued
  <2>3. ASSUME NEW u \in Threads, at'[u] = "promoter", resume_status'[u] = "suspended"
        PROVE  InQueue(u, waiting_promoters_queue')
    BY <1>2, <1>4, <2>1, <2>3 DEF Queued
  <2>. QED  BY <1>4, <2>2, <2>3, Zenon DEF Queued
<1>10. NoForgottenWaiter'
  <2>1. readers_ok = {}  BY <1>1, <1>3, CriticalSectionAssumption DEF NoForgottenWaiter
  <2>. QED  BY <1>3, <2>1 DEF NoForgottenWaiter
<1>. QED  BY <1>5, <1>6, <1>7, <1>8, <1>9, <1>10, Zenon DEF IInv

\* csect_exit takes the head off a queue, if there is one, and wakes it.
LEMMA WokenQueue ==
  ASSUME Counting, IInv, NEW q, NEW kind, (q = waiting_writers_queue /\ kind = "writer")
                             \/ (q = waiting_promoters_queue /\ kind = "promoter"), q # <<>>
  PROVE  /\ Tail(q) \in Seq(Threads) /\ Distinct(Tail(q)) /\ Head(q) \in Threads /\ at[Head(q)] = kind
         /\ Woken(q) \in [Threads -> {"none", "suspended", "resumed", "interrupt"}]
         /\ \A u \in Threads : InQueue(u, Tail(q)) <=> InQueue(u, q) /\ u # Head(q)
         /\ \A u \in Threads : Woken(q)[u] = IF u = Head(q) THEN "resumed" ELSE resume_status[u]
<1>1. q \in Seq(Threads) /\ Queued(q, kind)  BY Zenon DEF IInv, TypeOK
<1>2. /\ Tail(q) \in Seq(Threads) /\ Distinct(Tail(q)) /\ Head(q) \in Threads /\ InQueue(Head(q), q)
      /\ \A u \in Threads : InQueue(u, Tail(q)) <=> InQueue(u, q) /\ u # Head(q)
  BY <1>1, QueueTail, Zenon DEF Queued
<1>3. at[Head(q)] = kind  BY <1>1, <1>2, Zenon DEF Queued
<1>4. /\ Woken(q) \in [Threads -> {"none", "suspended", "resumed", "interrupt"}]
      /\ \A u \in Threads : Woken(q)[u] = IF u = Head(q) THEN "resumed" ELSE resume_status[u]
  BY <1>2, Zenon DEF Woken, IInv, TypeOK
<1>. QED  BY <1>2, <1>3, <1>4, Zenon

\* What csect_exit does to the queues.
LEMMA WakeupKeepsQueued ==
  ASSUME Counting, IInv, at' = at, WakeupWaiters
  PROVE  /\ waiting_writers_queue' \in Seq(Threads) /\ waiting_promoters_queue' \in Seq(Threads)
         /\ readers_ok' \subseteq Threads
         /\ resume_status' \in [Threads -> {"none", "suspended", "resumed", "interrupt"}]
         /\ Queued(waiting_writers_queue, "writer")' /\ Queued(waiting_promoters_queue, "promoter")'
<1>1. /\ TypeOK /\ Queued(waiting_writers_queue, "writer") /\ Queued(waiting_promoters_queue, "promoter")
  BY Zenon DEF IInv
<1>2. CASE UNCHANGED <<waiting_writers_queue, waiting_promoters_queue, resume_status>>
           /\ (readers_ok' = readers_ok \/ readers_ok' = {})
  BY <1>1, <1>2, Zenon DEF TypeOK, Queued
<1>3. CASE /\ waiting_writers_queue # <<>> /\ waiting_writers_queue' = Tail(waiting_writers_queue)
           /\ resume_status' = Woken(waiting_writers_queue)
           /\ UNCHANGED <<waiting_promoters_queue, readers_ok>>
  <2>1. /\ waiting_writers_queue' \in Seq(Threads) /\ Distinct(waiting_writers_queue')
        /\ Head(waiting_writers_queue) \in Threads /\ at[Head(waiting_writers_queue)] = "writer"
        /\ resume_status' \in [Threads -> {"none", "suspended", "resumed", "interrupt"}]
        /\ \A u \in Threads : InQueue(u, waiting_writers_queue')
             <=> InQueue(u, waiting_writers_queue) /\ u # Head(waiting_writers_queue)
        /\ \A u \in Threads : resume_status'[u] =
             IF u = Head(waiting_writers_queue) THEN "resumed" ELSE resume_status[u]
    BY <1>3, WokenQueue, Zenon
  <2>2. Queued(waiting_writers_queue, "writer")'  BY <1>1, <2>1, Zenon DEF Queued
  <2>3. Queued(waiting_promoters_queue, "promoter")'  BY <1>1, <1>3, <2>1, Zenon DEF Queued
  <2>. QED  BY ONLY <1>1, <1>3, <2>1, <2>2, <2>3, Zenon DEF TypeOK
<1>4. CASE /\ waiting_promoters_queue # <<>> /\ waiting_promoters_queue' = Tail(waiting_promoters_queue)
           /\ resume_status' = Woken(waiting_promoters_queue)
           /\ UNCHANGED <<waiting_writers_queue, readers_ok>>
  <2>1. /\ waiting_promoters_queue' \in Seq(Threads) /\ Distinct(waiting_promoters_queue')
        /\ Head(waiting_promoters_queue) \in Threads /\ at[Head(waiting_promoters_queue)] = "promoter"
        /\ resume_status' \in [Threads -> {"none", "suspended", "resumed", "interrupt"}]
        /\ \A u \in Threads : InQueue(u, waiting_promoters_queue')
             <=> InQueue(u, waiting_promoters_queue) /\ u # Head(waiting_promoters_queue)
        /\ \A u \in Threads : resume_status'[u] =
             IF u = Head(waiting_promoters_queue) THEN "resumed" ELSE resume_status[u]
    BY <1>4, WokenQueue, Zenon
  <2>2. Queued(waiting_promoters_queue, "promoter")'  BY <1>1, <2>1, Zenon DEF Queued
  <2>3. Queued(waiting_writers_queue, "writer")'  BY <1>1, <1>4, <2>1, Zenon DEF Queued
  <2>. QED  BY ONLY <1>1, <1>4, <2>1, <2>2, <2>3, Zenon DEF TypeOK
<1>. QED  BY <1>2, <1>3, <1>4, Zenon DEF WakeupWaiters, WakeupWaitingPromoter, Woken

\* csect_exit.
LEMMA ExitStep ==
  ASSUME Counting, IInv, NEW t \in Threads, Exit(t)
  PROVE  IInv'
<1>1. TypeOK /\ Counted /\ NoForgottenWaiter /\ \A u \in Threads : Tracked(u)  BY Zenon DEF IInv
<1>2. /\ at[t] = "run" /\ enter_count[t] > demoted_at[t] /\ rwlock # 0
      /\ rwlock' = (IF rwlock < 0 THEN rwlock + 1 ELSE rwlock - 1)
      /\ owner' = (IF rwlock = -1 THEN None ELSE owner)
      /\ waiting_writers' = waiting_writers /\ at' = at /\ demoted_at' = demoted_at /\ calls' = calls
  BY Zenon DEF Exit
<1>3. /\ enter_count' = [enter_count EXCEPT ![t] = @ - 1]
      /\ mode' = IF enter_count[t] = 1 THEN [mode EXCEPT ![t] = "out"] ELSE mode
  BY Zenon DEF Exit, Exited
<1>4. rwlock \in Int /\ rwlock' \in Int /\ enter_count[t] \in Nat /\ enter_count[t] > 0 /\ demoted_at[t] \in Nat
  BY <1>2, CountedNow
<1>5. rwlock < 0 => /\ owner = t /\ rwlock + enter_count[t] = 0
                    /\ \A u \in Threads \ {t} : enter_count[u] = 0 /\ mode[u] = "out"
  <2>1. rwlock < 0 => owner = t  BY <1>1, <1>4 DEF Tracked
  <2>. QED  BY <1>1, <2>1, Zenon DEF Tracked
<1>6. /\ enter_count'[t] = enter_count[t] - 1
      /\ mode'[t] = (IF enter_count[t] = 1 THEN "out" ELSE mode[t])
      /\ \A u \in Threads \ {t} : enter_count'[u] = enter_count[u] /\ mode'[u] = mode[u]
  BY <1>1, <1>3, Zenon DEF TypeOK
<1>7. rwlock' < 0 \/ WakeupWaiters  BY Zenon DEF Exit
<1>8. /\ waiting_writers_queue' \in Seq(Threads) /\ waiting_promoters_queue' \in Seq(Threads)
      /\ readers_ok' \subseteq Threads
      /\ resume_status' \in [Threads -> {"none", "suspended", "resumed", "interrupt"}]
      /\ Queued(waiting_writers_queue, "writer")' /\ Queued(waiting_promoters_queue, "promoter")'
  <2>1. CASE rwlock' < 0
    <3>1. UNCHANGED <<waiting_writers_queue, waiting_promoters_queue, readers_ok, resume_status>>
      BY <2>1, Zenon DEF Exit
    <3>. QED  BY <1>1, <1>2, <3>1, Zenon DEF IInv, TypeOK, Queued
  <2>2. CASE WakeupWaiters  BY <1>2, <2>2, WakeupKeepsQueued, Zenon
  <2>. QED  BY <1>7, <2>1, <2>2, Zenon
<1>9. TypeOK'
  <2>1. enter_count[t] - 1 \in 0 .. MaxDepth  BY ONLY <1>1, <1>4, CriticalSectionAssumption, SMTT(30) DEF TypeOK
  <2>2. enter_count' \in [Threads -> 0 .. MaxDepth]  BY <1>1, <1>3, <2>1, Zenon DEF TypeOK
  <2>3. owner' \in Threads \cup {None}  BY <1>1, <1>2, Zenon DEF TypeOK
  <2>. QED  BY <1>1, <1>2, <1>3, <1>4, <1>8, <2>2, <2>3, Zenon DEF TypeOK
<1>10. ASSUME NEW u \in Threads PROVE Tracked(u)'
  <2>1. Tracked(u) /\ enter_count[u] \in Nat /\ demoted_at[u] \in Nat /\ u # None
    BY <1>1, CountedNow, CriticalSectionAssumption, Zenon
  <2>2. CASE u # t
    <3>1. enter_count'[u] = enter_count[u] /\ mode'[u] = mode[u]  BY <1>6, <2>2, Zenon
    <3>2. CASE rwlock < 0
      <4>1. enter_count[u] = 0 /\ mode[u] = "out" /\ owner' # u  BY ONLY <1>2, <1>5, <2>1, <2>2, <3>2, Zenon
      <4>. QED  BY <1>2, <1>4, <2>1, <3>1, <4>1, Zenon DEF Tracked
    <3>3. CASE rwlock > 0
      <4>1. rwlock' >= 0 /\ owner' = owner  BY <1>2, <1>4, <3>3
      <4>. QED  BY <1>2, <1>4, <2>1, <3>1, <3>3, <4>1, SMTT(30) DEF Tracked
    <3>. QED  BY ONLY <1>2, <1>4, <3>2, <3>3
  <2>3. CASE u = t
    <3>1. CASE rwlock < 0
      <4>1. owner = t /\ rwlock + enter_count[t] = 0 /\ mode[t] \in {"writer", "demoted"}
        BY <1>5, <2>1, <2>3, <3>1, Zenon DEF Tracked
      <4>2. CASE rwlock = -1
        <5>1. enter_count[t] = 1 /\ rwlock' = 0 /\ owner' = None /\ demoted_at[t] = 0
          BY ONLY <1>2, <1>4, <4>1, <4>2
        <5>. QED  BY <1>2, <1>6, <2>1, <2>3, <5>1 DEF Tracked
      <4>3. CASE rwlock < -1
        <5>1. enter_count[t] > 1 /\ rwlock' < 0 /\ owner' = t /\ rwlock' + (enter_count[t] - 1) = 0
          BY <1>2, <1>4, <4>1, <4>3
        <5>. QED  BY ONLY <1>2, <1>4, <1>6, <2>1, <2>3, <4>1, <4>3, <5>1, SMTT(30) DEF Tracked
      <4>. QED  BY <1>4, <3>1, <4>2, <4>3
    <3>2. CASE rwlock > 0
      <4>1. rwlock' >= 0 /\ owner' = owner  BY <1>2, <1>4, <3>2
      <4>. QED  BY <1>2, <1>4, <1>6, <2>1, <2>3, <3>2, <4>1, SMTT(30) DEF Tracked
    <3>. QED  BY <1>2, <1>4, <3>1, <3>2
  <2>. QED  BY <2>2, <2>3, Zenon
<1>11. Counted'
  <2>1. rwlock' < 0 => owner' # None  BY <1>1, <1>2, <1>4 DEF Counted
  <2>2. CASE rwlock > 0
    <3>1. enter_count \in [Threads -> 0 .. MaxDepth] /\ at[t] # "promoter"  BY <1>1, <1>2, Zenon DEF TypeOK
    <3>2. enter_count'[t] = enter_count[t] - 1 /\ \A u \in Threads \ {t} : enter_count'[u] = enter_count[u]
      BY <1>6, Zenon
    <3>3. Cardinality(ReadsOf(at, enter_count')) = Cardinality(ReadsOf(at, enter_count)) - 1
      BY <1>4, <3>1, <3>2, Zenon DEF Counting, ReadsRemove
    <3>. QED  BY <1>1, <1>2, <1>4, <2>1, <2>2, <3>3 DEF Counted
  <2>3. CASE rwlock = -1
    <3>1. \A u \in Threads : enter_count'[u] = 0
      <4>1. enter_count[t] = 1  BY <1>4, <1>5, <2>3
      <4>. QED  BY <1>5, <1>6, <2>3, <4>1
    <3>2. enter_count' \in [Threads -> 0 .. MaxDepth]  BY <1>9, Zenon DEF TypeOK
    <3>3. Cardinality(ReadsOf(at, enter_count')) = 0  BY <3>1, <3>2, Zenon DEF Counting, ReadsNone
    <3>. QED  BY <1>1, <1>2, <1>4, <2>1, <2>3, <3>3 DEF Counted
  <2>4. CASE rwlock < -1  BY <1>1, <1>2, <1>4, <2>1, <2>4 DEF Counted
  <2>. QED  BY <1>2, <1>4, <2>2, <2>3, <2>4
<1>. DEFINE P == rwlock' = 0 /\ owner' # None => owner' \in Threads /\ at[owner'] = "promoter"
<1>12. P
  <2>1. SUFFICES ASSUME rwlock' = 0, owner' # None PROVE owner' \in Threads /\ at[owner'] = "promoter"  BY Zenon
  <2>2. owner' \in Threads  BY <1>9, <2>1, Zenon DEF TypeOK
  <2>. QED
    <3>1. enter_count' \in [Threads -> 0 .. MaxDepth] /\ at' = at  BY <1>2, <1>9, Zenon DEF TypeOK
    <3>2. Cardinality(ReadsOf(at, enter_count')) = 0  BY <1>11, <2>1, <3>1 DEF Counted
    <3>3. \A u \in Threads : enter_count'[u] = 0 \/ at[u] = "promoter"  BY <3>1, <3>2, Zenon DEF Counting, ReadsNone
    <3>4. ASSUME NEW u \in Threads, u = owner' PROVE enter_count'[u] # 0
      <4>1. Tracked(u)'  BY <1>10, Zenon
      <4>2. mode'[u] # "out"  BY <3>4, <4>1, Zenon DEF Tracked
      <4>. QED  BY <4>1, <4>2, Zenon DEF Tracked
    <3>. QED  BY <2>2, <3>3, <3>4, Zenon
<1>. HIDE DEF P
<1>13. NoForgottenWaiter'
  <2>1. CASE rwlock' < 0  BY <1>4, <2>1 DEF NoForgottenWaiter
  <2>2. CASE waiting_writers > 0 /\ rwlock' = 0 /\ owner' # None
    <3>1. WakeupWaitingPromoter /\ readers_ok' = readers_ok  BY <1>4, <1>7, <2>2 DEF WakeupWaiters
    <3>2. owner' = owner /\ owner \in Threads /\ at[owner] = "promoter"  BY <1>2, <1>12, <2>2, Zenon DEF P
    <3>3. readers_ok = {}
      <4>1. rwlock = 1  BY <1>2, <1>4, <2>2
      <4>. QED  BY <1>1, <2>2, <3>2, <4>1, CriticalSectionAssumption DEF NoForgottenWaiter
    <3>4. ~InQueue(owner, waiting_promoters_queue')
      <4>1. CASE waiting_promoters_queue = <<>>
        <5>1. waiting_promoters_queue' = <<>>  BY <3>1, <4>1, Zenon DEF WakeupWaitingPromoter
        <5>. QED  BY <5>1 DEF InQueue
      <4>2. CASE waiting_promoters_queue # <<>>
        <5>1. waiting_promoters_queue' = Tail(waiting_promoters_queue)  BY <3>1, <4>2, Zenon DEF WakeupWaitingPromoter
        <5>2. /\ Head(waiting_promoters_queue) \in Threads /\ at[Head(waiting_promoters_queue)] = "promoter"
              /\ ~InQueue(Head(waiting_promoters_queue), Tail(waiting_promoters_queue))
          BY <4>2, WokenQueue, Zenon
        <5>3. owner = Head(waiting_promoters_queue)  BY <1>1, <5>2, Zenon DEF Tracked
        <5>. QED  BY <5>1, <5>2, <5>3, Zenon
      <4>. QED  BY <4>1, <4>2, Zenon
    <3>. QED  BY <1>2, <2>2, <3>1, <3>2, <3>3, <3>4, Zenon DEF NoForgottenWaiter
  <2>3. CASE waiting_writers > 0 /\ rwlock' = 0 /\ owner' = None
    <3>1. waiting_writers_queue' = IF waiting_writers_queue = <<>> THEN <<>> ELSE Tail(waiting_writers_queue)
      BY <1>4, <1>7, <2>3 DEF WakeupWaiters
    <3>2. waiting_writers_queue' # <<>> =>
            \E u \in Threads : at[u] = "writer" /\ ~InQueue(u, waiting_writers_queue')
      <4>1. SUFFICES ASSUME waiting_writers_queue # <<>>
                     PROVE  \E u \in Threads : at[u] = "writer" /\ ~InQueue(u, waiting_writers_queue')
        BY <3>1, Zenon
      <4>2. /\ Head(waiting_writers_queue) \in Threads /\ at[Head(waiting_writers_queue)] = "writer"
            /\ ~InQueue(Head(waiting_writers_queue), Tail(waiting_writers_queue))
        BY <4>1, WokenQueue, Zenon
      <4>. QED  BY <3>1, <4>1, <4>2, Zenon
    <3>3. \E u \in Threads : at[u] = "writer"
      <4>1. PICK u \in Threads : at[u] \in {"writer", "promoter"}  BY <2>3, CountedNow
      <4>2. at[u] # "promoter"
        <5>1. at[u] = "promoter" => owner = u /\ u # None /\ u # t
          BY <1>1, <1>2, CriticalSectionAssumption, Zenon DEF Tracked
        <5>. QED  BY <1>2, <1>4, <1>5, <2>3, <5>1
      <4>. QED  BY <4>1, <4>2, Zenon
    <3>. QED  BY <1>2, <2>3, <3>2, <3>3, Zenon DEF NoForgottenWaiter
  <2>4. CASE rwlock' >= 0 /\ ~(waiting_writers > 0 /\ rwlock' = 0)
    <3>1. readers_ok' = {} /\ waiting_writers_queue' = waiting_writers_queue
      BY <1>4, <1>7, <2>4 DEF WakeupWaiters
    <3>2. rwlock' = 0 => \A u \in Threads : at[u] \notin {"writer", "promoter"}  BY <2>4, CountedNow
    <3>3. rwlock' = 0 => waiting_writers_queue = <<>>
      <4>1. waiting_writers_queue # <<>> =>
              Head(waiting_writers_queue) \in Threads /\ at[Head(waiting_writers_queue)] = "writer"
        BY WokenQueue, Zenon
      <4>. QED  BY <3>2, <4>1, Zenon
    <3>4. ~(rwlock' = 0 /\ owner' # None)  BY <1>12, <3>2, Zenon DEF P
    <3>. QED  BY <3>1, <3>3, <3>4, Zenon DEF NoForgottenWaiter
  <2>. QED  BY <1>4, <2>1, <2>2, <2>3, <2>4
<1>. QED  BY <1>8, <1>9, <1>10, <1>11, <1>13, Zenon DEF IInv
------------------------------------------------------------------------------
\* A thread that returns from a queue is not in it any more, unless it was
\* interrupted there.
LEMMA ResumedNotQueued ==
  ASSUME Counting, IInv, NEW t \in Threads, resume_status[t] # "suspended"
  PROVE  /\ (resume_status[t] = "interrupt" => ~InQueue(t, waiting_writers_queue))
              => ~InQueue(t, waiting_writers_queue)
         /\ (resume_status[t] = "interrupt" => ~InQueue(t, waiting_promoters_queue))
              => ~InQueue(t, waiting_promoters_queue)
BY Zenon DEF IInv, Queued

\* csect_enter keeps the invariant.
LEMMA EnterStep ==
  ASSUME Counting, IInv, NEW t \in Threads, Enter(t)
  PROVE  IInv'
<1>1. /\ at[t] = "run" /\ enter_count[t] < MaxDepth /\ (enter_count[t] > 0 => mode[t] = "writer")
      /\ EnterOrWait(t, waiting_writers, resume_status)
      /\ UNCHANGED <<waiting_promoters_queue, readers_ok>>
  BY Zenon DEF Enter, Call
<1>2. calls' \in [Threads -> 0 .. MaxCalls]
  <2>1. TypeOK /\ Call(t)  BY Zenon DEF IInv, Enter
  <2>. QED  BY <2>1, CallCounts, Zenon
<1>3. enter_count[t] > 0 => Holds(t)
  <2>1. Tracked(t)  BY Zenon DEF IInv
  <2>. QED  BY ONLY <1>1, <2>1, Zenon DEF Tracked, Holds
<1>4. ~InQueue(t, waiting_writers_queue)
  <2>1. Queued(waiting_writers_queue, "writer")  BY Zenon DEF IInv
  <2>. QED  BY <1>1, <2>1, Zenon DEF Queued
<1>5. CASE WriterMayEnter(t)
  BY <1>1, <1>2, <1>3, <1>4, <1>5, EnterGrantStep, Zenon DEF EnterOrWait
<1>6. CASE ~WriterMayEnter(t)
  BY <1>1, <1>2, <1>4, <1>6, EnterWaitStep, Zenon DEF EnterOrWait, WaitAsWriter
<1>. QED  BY <1>5, <1>6, Zenon

\* A writer that returns from its queue keeps the invariant.
LEMMA WriterResumesStep ==
  ASSUME Counting, IInv, NEW t \in Threads, WriterResumes(t)
  PROVE  IInv'
<1>1. at[t] = "writer" /\ resume_status[t] # "suspended"  BY Zenon DEF WriterResumes
<1>2. CASE StaysInQueue(t, waiting_writers_queue)  BY <1>1, <1>2, SuspendedStep, Zenon DEF StaysInQueue
<1>3. CASE ~StaysInQueue(t, waiting_writers_queue)
  <2>1. /\ resume_status[t] = "interrupt" => ~InQueue(t, waiting_writers_queue)
        /\ readers_ok' = readers_ok /\ calls' = calls
        /\ \/ /\ owner # None /\ WakeupWaitingPromoter
              /\ EnterOrWait(t, waiting_writers - 1, Woken(waiting_promoters_queue))
           \/ /\ EnterOrWait(t, waiting_writers - 1, resume_status)
              /\ UNCHANGED waiting_promoters_queue
    BY <1>3, Zenon DEF WriterResumes
  <2>2. ~InQueue(t, waiting_writers_queue)  BY <1>1, <2>1, ResumedNotQueued, Zenon
  <2>3. calls' \in [Threads -> 0 .. MaxCalls] /\ waiting_writers \in Nat /\ (waiting_writers - 1) + 1 = waiting_writers
    <3>1. TypeOK  BY Zenon DEF IInv
    <3>. QED  BY ONLY <2>1, <3>1 DEF TypeOK
  <2>4. CASE WriterMayEnter(t)
    <3>1. owner = None
      <4>1. Tracked(t)  BY Zenon DEF IInv
      <4>. QED  BY <1>1, <2>4, <4>1, Zenon DEF Tracked, WriterMayEnter, Holds
    <3>2. EnterOrWait(t, waiting_writers - 1, resume_status) /\ UNCHANGED waiting_promoters_queue  BY <2>1, <3>1, Zenon
    <3>. QED  BY <1>1, <2>1, <2>2, <2>3, <2>4, <3>2, EnterGrantStep, Zenon DEF EnterOrWait
  <2>5. CASE ~WriterMayEnter(t)
    <3>1. \/ /\ WakeupWaitingPromoter
             /\ WaitAsWriter(t, waiting_writers - 1, Woken(waiting_promoters_queue))
          \/ /\ WaitAsWriter(t, waiting_writers - 1, resume_status)
             /\ UNCHANGED waiting_promoters_queue
      BY <2>1, <2>5, Zenon DEF EnterOrWait
    <3>2. /\ waiting_writers' = waiting_writers
          /\ waiting_writers_queue' = Append(waiting_writers_queue, t)
          /\ at' = [at EXCEPT ![t] = "writer"]
          /\ UNCHANGED <<rwlock, owner, mode, enter_count, demoted_at, readers_ok>>
      BY <2>1, <2>3, <3>1, Zenon DEF WaitAsWriter
    <3>3. \/ waiting_promoters_queue' = waiting_promoters_queue
             /\ resume_status' = [resume_status EXCEPT ![t] = "suspended"]
          \/ /\ waiting_promoters_queue # <<>>
             /\ waiting_promoters_queue' = Tail(waiting_promoters_queue)
             /\ resume_status' = [[resume_status EXCEPT ![Head(waiting_promoters_queue)] = "resumed"]
                                    EXCEPT ![t] = "suspended"]
      BY <3>1, Zenon DEF WaitAsWriter, WakeupWaitingPromoter, Woken
    <3>. QED  BY <1>1, <2>2, <2>3, <2>5, <3>2, <3>3, EnterWaitStep, Zenon
  <2>. QED  BY <2>4, <2>5, Zenon
<1>. QED  BY <1>2, <1>3, Zenon

\* csect_enter_as_reader keeps the invariant.
LEMMA EnterAsReaderStep ==
  ASSUME Counting, IInv, NEW t \in Threads, EnterAsReader(t)
  PROVE  IInv'
<1>1. /\ at[t] = "run" /\ enter_count[t] < MaxDepth /\ mode[t] # "reader"
      /\ UNCHANGED <<owner, waiting_writers, waiting_writers_queue, waiting_promoters_queue, resume_status>>
  BY Zenon DEF EnterAsReader, Call
<1>2. calls' \in [Threads -> 0 .. MaxCalls]
  <2>1. TypeOK /\ Call(t)  BY Zenon DEF IInv, EnterAsReader
  <2>. QED  BY <2>1, CallCounts, Zenon
<1>3. CASE Holds(t)
  <2>1. rwlock' = rwlock - 1 /\ Entered(t, "writer") /\ readers_ok' = readers_ok  BY <1>3, Zenon DEF EnterAsReader
  <2>2. WriterMayEnter(t) /\ owner' = t  BY ONLY <1>1, <1>3, Zenon DEF WriterMayEnter, Holds
  <2>. QED  BY <1>1, <1>2, <1>3, <2>1, <2>2, EnterGrantStep, Zenon
<1>4. CASE ~Holds(t) /\ ReaderMayEnter
  BY <1>1, <1>2, <1>4, ReaderGrantStep, Zenon DEF EnterAsReader
<1>5. CASE ~Holds(t) /\ ~ReaderMayEnter
  BY <1>1, <1>2, <1>5, ReaderWaitStep, Zenon DEF EnterAsReader
<1>. QED  BY ONLY <1>3, <1>4, <1>5, Zenon

\* A reader that returns from the condition variable keeps the invariant.
LEMMA ReaderResumesStep ==
  ASSUME Counting, IInv, NEW t \in Threads, ReaderResumes(t)
  PROVE  IInv'
<1>1. /\ at[t] = "reader"
      /\ UNCHANGED <<owner, waiting_writers, waiting_writers_queue, waiting_promoters_queue, resume_status, calls>>
  BY Zenon DEF ReaderResumes
<1>2. calls' \in [Threads -> 0 .. MaxCalls]
  <2>1. TypeOK  BY Zenon DEF IInv
  <2>. QED  BY <1>1, <2>1, Zenon DEF TypeOK
<1>3. mode[t] = "out" /\ ~Holds(t)
  <2>1. Tracked(t)  BY Zenon DEF IInv
  <2>. QED  BY <1>1, <2>1, Zenon DEF Tracked, Holds
<1>4. CASE ReaderMayEnter  BY <1>1, <1>2, <1>4, ReaderGrantStep, Zenon DEF ReaderResumes
<1>5. CASE ~ReaderMayEnter
  <2>1. at' = [at EXCEPT ![t] = "reader"]  BY <1>1, <1>5, Zenon DEF ReaderResumes, IInv, TypeOK
  <2>2. /\ readers_ok' = readers_ok \cup {t}
        /\ UNCHANGED <<rwlock, mode, enter_count, demoted_at>>
    BY <1>5, Zenon DEF ReaderResumes
  <2>. QED  BY <1>1, <1>2, <1>3, <1>5, <2>1, <2>2, ReaderWaitStep, Zenon
<1>. QED  BY <1>4, <1>5, Zenon

\* csect_promote keeps the invariant.
LEMMA PromoteStep ==
  ASSUME Counting, IInv, NEW t \in Threads, Promote(t)
  PROVE  IInv'
<1>1. /\ at[t] = "run" /\ mode[t] = "demoted" /\ enter_count[t] = demoted_at[t]
      /\ PromoteOrWait(t, IF rwlock > 0 THEN rwlock - 1 ELSE rwlock + 1, waiting_writers)
      /\ UNCHANGED <<waiting_writers_queue, readers_ok, enter_count, calls>>
  BY Zenon DEF Promote
<1>2. /\ rwlock \in Int /\ enter_count[t] \in Nat /\ enter_count[t] >= 1 /\ owner = t /\ rwlock # 0
      /\ rwlock > 0 => enter_count[t] = 1
      /\ rwlock < 0 => enter_count[t] # 1 /\ rwlock + enter_count[t] = 0
  <2>1. Tracked(t) /\ rwlock \in Int /\ enter_count[t] \in Nat  BY CountedNow, Zenon DEF IInv
  <2>2. rwlock # 0  BY <1>1, <2>1, CountedNow, Zenon DEF Tracked
  <2>. QED  BY <1>1, <2>1, <2>2 DEF Tracked
<1>3. CASE rwlock < 0
  <2>1. rwlock + 1 < 0 /\ (rwlock + 1) - 1 = rwlock  BY <1>2, <1>3
  <2>2. PromoteOrWait(t, rwlock + 1, waiting_writers)  BY <1>1, <1>2, <1>3, Zenon
  <2>3. /\ rwlock' = rwlock /\ owner' = t /\ waiting_writers' = waiting_writers
        /\ at' = [at EXCEPT ![t] = "run"] /\ mode' = [mode EXCEPT ![t] = "writer"]
        /\ demoted_at' = [demoted_at EXCEPT ![t] = 0]
        /\ UNCHANGED <<waiting_promoters_queue, resume_status>>
    BY <1>2, <2>1, <2>2, Zenon DEF PromoteOrWait
  <2>. QED  BY <1>1, <1>3, <2>3, PromoteGrantStep, Zenon
<1>4. CASE rwlock = 1
  <2>1. PromoteOrWait(t, 0, waiting_writers)  BY <1>1, <1>4
  <2>2. /\ rwlock' = 0 - 1 /\ owner' = t /\ waiting_writers' = waiting_writers
        /\ at' = [at EXCEPT ![t] = "run"] /\ mode' = [mode EXCEPT ![t] = "writer"]
        /\ demoted_at' = [demoted_at EXCEPT ![t] = 0]
        /\ UNCHANGED <<waiting_promoters_queue, resume_status>>
    BY <2>1, Zenon DEF PromoteOrWait
  <2>3. rwlock' = (IF rwlock < 0 THEN rwlock ELSE 0 - 1) /\ rwlock \in {1} /\ enter_count[t] = 1
    BY <1>2, <1>4, <2>2
  <2>4. waiting_writers' = IF at[t] = "promoter" THEN waiting_writers - 1 ELSE waiting_writers  BY <1>1, <2>2, Zenon
  <2>. QED  BY <1>1, <2>2, <2>3, <2>4, PromoteGrantStep, Zenon
<1>5. CASE rwlock > 1
  <2>1. rwlock - 1 > 0 /\ rwlock - 1 # 0 /\ ~(rwlock - 1 < 0)  BY ONLY <1>2, <1>5
  <2>2. PromoteOrWait(t, rwlock - 1, waiting_writers)  BY <1>1, <1>2, <1>5
  <2>3. /\ rwlock' = rwlock - 1 /\ waiting_writers' = waiting_writers + 1
        /\ waiting_promoters_queue' = Append(waiting_promoters_queue, t)
        /\ resume_status' = [resume_status EXCEPT ![t] = "suspended"]
        /\ at' = [at EXCEPT ![t] = "promoter"] /\ UNCHANGED <<owner, mode, demoted_at>>
    BY ONLY <2>1, <2>2, Zenon DEF PromoteOrWait
  <2>4. ~InQueue(t, waiting_promoters_queue) /\ enter_count[t] = 1  BY <1>1, <1>2, <1>5, SMTT(30) DEF IInv, Queued
  <2>. QED  BY <1>1, <2>1, <2>3, <2>4, PromoteWaitStep, Zenon
<1>. QED  BY ONLY <1>2, <1>3, <1>4, <1>5

\* A promoter that returns from its queue keeps the invariant.
LEMMA PromoterResumesStep ==
  ASSUME Counting, IInv, NEW t \in Threads, PromoterResumes(t)
  PROVE  IInv'
<1>1. at[t] = "promoter" /\ resume_status[t] # "suspended"  BY Zenon DEF PromoterResumes
<1>2. CASE StaysInQueue(t, waiting_promoters_queue)  BY <1>1, <1>2, SuspendedStep, Zenon DEF StaysInQueue
<1>3. CASE ~StaysInQueue(t, waiting_promoters_queue)
  <2>1. /\ resume_status[t] = "interrupt" => ~InQueue(t, waiting_promoters_queue)
        /\ PromoteOrWait(t, rwlock, waiting_writers - 1)
        /\ UNCHANGED <<waiting_writers_queue, readers_ok, enter_count, calls>>
    BY <1>3, Zenon DEF PromoterResumes
  <2>2. ~InQueue(t, waiting_promoters_queue)  BY <1>1, <2>1, ResumedNotQueued, Zenon
  <2>3. /\ rwlock \in Int /\ waiting_writers \in Nat /\ (waiting_writers - 1) + 1 = waiting_writers
        /\ mode[t] = "demoted" /\ enter_count[t] = 1 /\ demoted_at[t] = 1 /\ rwlock >= 0
    <3>1. Tracked(t) /\ rwlock \in Int /\ waiting_writers \in Nat /\ demoted_at[t] \in Nat  BY CountedNow, Zenon DEF IInv
    <3>. QED  BY ONLY <1>1, <3>1 DEF Tracked
  <2>4. CASE rwlock = 0
    <3>1. /\ rwlock' = 0 - 1 /\ owner' = t /\ waiting_writers' = waiting_writers - 1
          /\ at' = [at EXCEPT ![t] = "run"] /\ mode' = [mode EXCEPT ![t] = "writer"]
          /\ demoted_at' = [demoted_at EXCEPT ![t] = 0]
          /\ UNCHANGED <<waiting_promoters_queue, resume_status>>
      BY <2>1, <2>4, Zenon DEF PromoteOrWait
    <3>2. rwlock' = IF rwlock < 0 THEN rwlock ELSE 0 - 1  BY <2>4, <3>1
    <3>3. waiting_writers' = IF at[t] = "promoter" THEN waiting_writers - 1 ELSE waiting_writers  BY <1>1, <3>1, Zenon
    <3>4. enter_count[t] = demoted_at[t]  BY <2>3, Zenon
    <3>. QED  BY <1>1, <2>1, <2>2, <2>3, <2>4, <3>1, <3>2, <3>3, <3>4, PromoteGrantStep, Zenon
  <2>5. CASE rwlock > 0
    <3>1. /\ rwlock' = rwlock /\ waiting_writers' = waiting_writers
          /\ waiting_promoters_queue' = Append(waiting_promoters_queue, t)
          /\ resume_status' = [resume_status EXCEPT ![t] = "suspended"]
          /\ at' = [at EXCEPT ![t] = "promoter"] /\ UNCHANGED <<owner, mode, demoted_at>>
      BY <2>1, <2>3, <2>5 DEF PromoteOrWait
    <3>. QED  BY <1>1, <2>1, <2>2, <2>3, <2>5, <3>1, PromoteWaitStep, Zenon
  <2>. QED  BY ONLY <2>3, <2>4, <2>5
<1>. QED  BY <1>2, <1>3, Zenon
------------------------------------------------------------------------------
\* A new section satisfies the invariant.
LEMMA InitIInv == ASSUME Counting, Init PROVE IInv
<1>1. TypeOK  BY CriticalSectionAssumption DEF Init, TypeOK
<1>2. \A t \in Threads : Tracked(t)
  BY CriticalSectionAssumption, Zenon DEF Init, Tracked
<1>3. Counted
  <2>1. enter_count \in [Threads -> 0 .. MaxDepth]  BY <1>1, Zenon DEF TypeOK
  <2>2. Cardinality(ReadsOf(at, enter_count)) = 0  BY <2>1, Zenon DEF Counting, ReadsNone, Init
  <2>3. Cardinality(WaitingOf(at)) = 0  BY Zenon DEF Counting, WaitingCount, Init
  <2>. QED  BY <2>2, <2>3 DEF Init, Counted
<1>4. Queued(waiting_writers_queue, "writer") /\ Queued(waiting_promoters_queue, "promoter")
  BY DEF Init, Queued, Distinct, InQueue
<1>5. NoForgottenWaiter  BY Zenon DEF Init, NoForgottenWaiter
<1>. QED  BY <1>1, <1>2, <1>3, <1>4, <1>5, Zenon DEF IInv

\* Every step of every thread keeps the invariant.
LEMMA NextIInv == ASSUME Counting, IInv, [Next]_vars PROVE IInv'
<1>1. ASSUME NEW t \in Threads, Interrupt(t) PROVE IInv'
  <2>1. at[t] \in {"writer", "promoter"} /\ resume_status' = [resume_status EXCEPT ![t] = "interrupt"]
        /\ UNCHANGED <<csect, at, tracker>>
    BY <1>1, Zenon DEF Interrupt
  <2>. QED  BY <2>1, SuspendedStep, Zenon
<1>2. CASE UNCHANGED vars
  <2>1. TypeOK /\ Counted /\ NoForgottenWaiter /\ \A u \in Threads : Tracked(u)  BY Zenon DEF IInv
  <2>2. Queued(waiting_writers_queue, "writer") /\ Queued(waiting_promoters_queue, "promoter")  BY Zenon DEF IInv
  <2>3. /\ rwlock' = rwlock /\ owner' = owner /\ waiting_writers' = waiting_writers
        /\ waiting_writers_queue' = waiting_writers_queue
        /\ waiting_promoters_queue' = waiting_promoters_queue /\ readers_ok' = readers_ok /\ at' = at
        /\ resume_status' = resume_status /\ mode' = mode /\ enter_count' = enter_count
        /\ demoted_at' = demoted_at /\ calls' = calls
    BY <1>2, Zenon DEF vars, csect, tracker
  <2>4. TypeOK' /\ Counted'  BY ONLY <2>1, <2>3, Zenon DEF TypeOK, Counted
  <2>5. NoForgottenWaiter' /\ \A u \in Threads : Tracked(u)'  BY ONLY <2>1, <2>3, Zenon DEF NoForgottenWaiter, Tracked
  <2>6. Queued(waiting_writers_queue, "writer")' /\ Queued(waiting_promoters_queue, "promoter")'
    BY ONLY <2>2, <2>3, Zenon DEF Queued
  <2>. QED  BY <2>4, <2>5, <2>6, Zenon DEF IInv
<1>3. ASSUME NEW t \in Threads, Resumes(t) PROVE IInv'
  BY <1>3, WriterResumesStep, ReaderResumesStep, PromoterResumesStep, Zenon DEF Resumes
<1>. QED  BY <1>1, <1>2, <1>3, EnterStep, EnterAsReaderStep, DemoteStep, PromoteStep, ExitStep, ZenonT(30) DEF Next
-----------------------------------------------------------------------------
\* The reads inside a section are finitely many.
LEMMA ReadsFinite ==
  ASSUME NEW a, NEW c
  PROVE  IsFiniteSet(ReadsOf(a, c))
<1>1. IsFiniteSet(1 .. MaxDepth)  BY FS_Interval, CriticalSectionAssumption
<1>2. IsFiniteSet(Threads \X (1 .. MaxDepth))  BY <1>1, FS_Product, CriticalSectionAssumption, Zenon
<1>. QED  BY <1>2, FS_Subset, Zenon DEF ReadsOf

\* The threads that wait are finitely many.
LEMMA WaitingFinite ==
  ASSUME NEW a
  PROVE  IsFiniteSet(WaitingOf(a))
BY FS_Subset, CriticalSectionAssumption, Zenon DEF WaitingOf

\* There are no reads when every thread is out or waits to be promoted.
LEMMA NoReads == ReadsNone
<1>. SUFFICES ASSUME NEW a, NEW c, c \in [Threads -> 0 .. MaxDepth]
              PROVE  /\ Cardinality(ReadsOf(a, c)) \in Nat
                     /\ Cardinality(ReadsOf(a, c)) = 0 <=> \A u \in Threads : c[u] = 0 \/ a[u] = "promoter"
  BY Zenon DEF ReadsNone
<1>1. ASSUME NEW u \in Threads, c[u] # 0, a[u] # "promoter"
      PROVE  ReadsOf(a, c) # {}
  <2>1. 1 \in 1 .. MaxDepth /\ 1 <= c[u]  BY <1>1, CriticalSectionAssumption
  <2>2. <<u, 1>> \in ReadsOf(a, c)  BY <1>1, <2>1, Zenon DEF ReadsOf
  <2>. QED  BY <2>2, Zenon
<1>2. ASSUME NEW p \in ReadsOf(a, c)
      PROVE  \E u \in Threads : c[u] # 0 /\ a[u] # "promoter"
  <2>1. p[1] \in Threads /\ p[2] \in 1 .. MaxDepth /\ p[2] <= c[p[1]] /\ a[p[1]] # "promoter"
    BY <1>2, Zenon DEF ReadsOf
  <2>. QED  BY <2>1
<1>3. ReadsOf(a, c) = {} <=> \A u \in Threads : c[u] = 0 \/ a[u] = "promoter"
  BY <1>1, <1>2, Zenon
<1>. QED  BY <1>3, ReadsFinite, FS_EmptySet, FS_CardinalityType, Zenon

\* An enter adds one read.
LEMMA OneReadMore == ReadsAdd
<1>. SUFFICES ASSUME NEW t \in Threads, NEW a, NEW b, NEW c, NEW d,
                     c \in [Threads -> 0 .. MaxDepth],
                     a[t] # "promoter", b[t] # "promoter", \A u \in Threads \ {t} : b[u] = a[u],
                     c[t] < MaxDepth, d[t] = c[t] + 1, \A u \in Threads \ {t} : d[u] = c[u]
              PROVE  Cardinality(ReadsOf(b, d)) = Cardinality(ReadsOf(a, c)) + 1
  BY SMTT(20) DEF ReadsAdd
<1>1. c[t] + 1 \in 1 .. MaxDepth  BY CriticalSectionAssumption
<1>2. ReadsOf(b, d) = ReadsOf(a, c) \cup {<<t, c[t] + 1>>}
  BY <1>1, CriticalSectionAssumption DEF ReadsOf
<1>3. <<t, c[t] + 1>> \notin ReadsOf(a, c)  BY DEF ReadsOf
<1>4. IsFiniteSet(ReadsOf(a, c))  BY ReadsFinite, Zenon
<1>. QED  BY <1>2, <1>3, <1>4, FS_AddElement, ZenonT(40)

\* An exit takes one read away.
LEMMA OneReadLess == ReadsRemove
<1>. SUFFICES ASSUME NEW t \in Threads, NEW a, NEW c, NEW d,
                     c \in [Threads -> 0 .. MaxDepth],
                     a[t] # "promoter", c[t] > 0, d[t] = c[t] - 1, \A u \in Threads \ {t} : d[u] = c[u]
              PROVE  Cardinality(ReadsOf(a, d)) = Cardinality(ReadsOf(a, c)) - 1
  BY SMTT(20) DEF ReadsRemove
<1>1. c[t] \in 1 .. MaxDepth  BY CriticalSectionAssumption
<1>2. ReadsOf(a, d) = ReadsOf(a, c) \ {<<t, c[t]>>}
  BY <1>1, CriticalSectionAssumption DEF ReadsOf
<1>3. <<t, c[t]>> \in ReadsOf(a, c)  BY <1>1 DEF ReadsOf
<1>4. IsFiniteSet(ReadsOf(a, c))  BY ReadsFinite, Zenon
<1>. QED  BY <1>2, <1>3, <1>4, FS_RemoveElement, ZenonT(40)

\* A thread at depth 1 that waits to be promoted gives up one read.
LEMMA OneReadGivenUp == ReadsGiveUp
<1>. SUFFICES ASSUME NEW t \in Threads, NEW a, NEW b, NEW c,
                     c \in [Threads -> 0 .. MaxDepth], c[t] = 1,
                     a[t] # "promoter", b[t] = "promoter", \A u \in Threads \ {t} : b[u] = a[u]
              PROVE  Cardinality(ReadsOf(b, c)) = Cardinality(ReadsOf(a, c)) - 1
  BY SMTT(20) DEF ReadsGiveUp
<1>1. 1 \in 1 .. MaxDepth  BY CriticalSectionAssumption
<1>2. ReadsOf(b, c) = ReadsOf(a, c) \ {<<t, 1>>}
  BY <1>1, CriticalSectionAssumption DEF ReadsOf
<1>3. <<t, 1>> \in ReadsOf(a, c)  BY <1>1 DEF ReadsOf
<1>4. IsFiniteSet(ReadsOf(a, c))  BY ReadsFinite, Zenon
<1>. QED  BY <1>2, <1>3, <1>4, FS_RemoveElement, ZenonT(40)

\* One thread inside, at depth 1, is one read.
LEMMA OneRead == ReadsOne
<1>. SUFFICES ASSUME NEW t \in Threads, NEW a, NEW c,
                     c \in [Threads -> 0 .. MaxDepth],
                     a[t] # "promoter", c[t] = 1, \A u \in Threads \ {t} : c[u] = 0
              PROVE  Cardinality(ReadsOf(a, c)) = 1
  BY Zenon DEF ReadsOne
<1>1. 1 \in 1 .. MaxDepth  BY CriticalSectionAssumption
<1>2. ReadsOf(a, c) = {<<t, 1>>}  BY <1>1, CriticalSectionAssumption DEF ReadsOf
<1>. QED  BY <1>2, FS_Singleton, Zenon

\* Nobody is counted as waiting when nobody waits.
LEMMA NoWaiting == WaitingCount
<1>. SUFFICES ASSUME NEW a
              PROVE  /\ Cardinality(WaitingOf(a)) \in Nat
                     /\ Cardinality(WaitingOf(a)) = 0 <=> \A u \in Threads : a[u] \notin {"writer", "promoter"}
  BY Zenon DEF WaitingCount
<1>1. WaitingOf(a) = {} <=> \A u \in Threads : a[u] \notin {"writer", "promoter"}  BY Zenon DEF WaitingOf
<1>. QED  BY <1>1, WaitingFinite, FS_EmptySet, FS_CardinalityType, Zenon

\* A thread that starts to wait is one more.
LEMMA OneWaitingMore == WaitingAdd
<1>. SUFFICES ASSUME NEW t \in Threads, NEW a, NEW b, \A u \in Threads \ {t} : b[u] = a[u],
                     a[t] \notin {"writer", "promoter"}, b[t] \in {"writer", "promoter"}
              PROVE  Cardinality(WaitingOf(b)) = Cardinality(WaitingOf(a)) + 1
  BY Zenon DEF WaitingAdd
<1>1. WaitingOf(b) = WaitingOf(a) \cup {t} /\ t \notin WaitingOf(a)  BY Zenon DEF WaitingOf
<1>. QED  BY <1>1, WaitingFinite, FS_AddElement, Zenon

\* A thread that waits no more is one less.
LEMMA OneWaitingLess == WaitingRemove
<1>. SUFFICES ASSUME NEW t \in Threads, NEW a, NEW b, \A u \in Threads \ {t} : b[u] = a[u],
                     a[t] \in {"writer", "promoter"}, b[t] \notin {"writer", "promoter"}
              PROVE  Cardinality(WaitingOf(b)) = Cardinality(WaitingOf(a)) - 1
  BY Zenon DEF WaitingRemove
<1>1. WaitingOf(b) = WaitingOf(a) \ {t} /\ t \in WaitingOf(a)  BY Zenon DEF WaitingOf
<1>. QED  BY <1>1, WaitingFinite, FS_RemoveElement, Zenon

\* All of what the steps need of the counts.
LEMMA Counts == Counting
BY NoReads, OneReadMore, OneReadLess, OneReadGivenUp, OneRead, NoWaiting, OneWaitingMore,
   OneWaitingLess, Zenon DEF Counting
------------------------------------------------------------------------------
\* What the fields of a critical section stand for holds throughout.
THEOREM Inductive == Spec => []IInv
<1>1. Init => IInv  BY Counts, InitIInv, Zenon
<1>2. IInv /\ [Next]_vars => IInv'  BY Counts, NextIInv, Zenon
<1>. QED  BY <1>1, <1>2, PTL DEF Spec

\* The counters and queues of a critical section keep their types; waiting_writers
\* never goes below zero, however calls, wakeups and interrupts interleave.
THEOREM TypeCorrect == Spec => []TypeOK
<1>1. IInv => TypeOK  BY Zenon DEF IInv
<1>. QED  BY <1>1, Inductive, PTL

\* A writer that has not demoted is alone inside, at any depth of re-entry and
\* for any number of threads.
THEOREM WriterAlone == Spec => []WriterIsAlone
<1>1. IInv => WriterIsAlone
  <2>. SUFFICES ASSUME IInv, NEW t \in Threads, NEW u \in Threads, mode[t] = "writer", t # u
                PROVE  mode[u] = "out"
    BY Zenon DEF WriterIsAlone
  <2>1. Tracked(t) /\ Tracked(u)  BY Zenon DEF IInv
  <2>. QED  BY <2>1, Zenon DEF Tracked
<1>. QED  BY <1>1, Inductive, PTL

\* csect_exit and csect_wait_on_writer_queue leave no thread asleep that
\* nobody is going to wake.
THEOREM NothingForgotten == Spec => []NoForgottenWaiter
<1>1. IInv => NoForgottenWaiter  BY Zenon DEF IInv
<1>. QED  BY <1>1, Inductive, PTL
==============================================================================
