----------------------- MODULE LogPriorInflightProofs -----------------------
(***************************************************************************)
(* The inductive invariant of LogPriorInflight, for any number of writers  *)
(* and readers, any capacity and scan limit, and any number of records.    *)
(*                                                                         *)
(* The log is cut into consecutive parts: the copied records, the list     *)
(* being drained, the prior list, and the record of the writer that has    *)
(* the mutex.  A version that a reader asks for is outside the last part,  *)
(* so no key that is pushed from then on is that version: a key that is    *)
(* still there at the second load was there all along.  The ring holds the *)
(* registered part of the log in order, which is why the node that the     *)
(* drain unlinks is at the head.                                           *)
(***************************************************************************)
EXTENDS LogPriorInflight, TLAPS

Lsas0 == Lsas \cup {NULL_LSA}
Slots == 0 .. (CAPACITY - 1)
Pushing == {"push_node", "push_key", "push_tail"}
Appending == {"push_node", "push_key", "push_tail", "link"}
Handling == {"publish", "unlink", "advance", "retire"}
Looking == {"head", "tail", "scan", "node", "recheck", "read"}

\* The writer that is appending has the mutex, and its record is the last.
WritersInv ==
  /\ prior_lsa \in 1 .. (MaxLsa + 1) /\ prior_lsa_mutex \in Writers \cup {None}
  /\ wpc \in [Writers -> Appending \cup {"idle", "lock"}]
  /\ wlsa \in [Writers -> Lsas0]
  /\ \A w \in Writers : /\ wpc[w] \in Appending <=> prior_lsa_mutex = w
                        /\ prior_lsa_mutex = w => wlsa[w] = prior_lsa - 1
                        /\ prior_lsa_mutex # w => wlsa[w] = NULL_LSA

\* The last record whose append has returned.
LastAppended == pages + Len(prior_flush_list) + Len(prior_list)

\* The log is the copied records, the list being drained, the prior list and
\* the record of the writer that has the mutex, without a gap.
LogInv ==
  /\ pages \in 0 .. MaxLsa
  /\ prior_list \in Seq(Lsas) /\ prior_flush_list \in Seq(Lsas)
  /\ \A i \in 1 .. Len(prior_flush_list) : prior_flush_list[i] = pages + i
  /\ \A i \in 1 .. Len(prior_list) : prior_list[i] = pages + Len(prior_flush_list) + i
  /\ prior_lsa_mutex = None => LastAppended = prior_lsa - 1
  /\ prior_lsa_mutex # None => LastAppended = prior_lsa - 2

\* The drain works on the last record copied, and the watermark is behind it.
DrainInv ==
  /\ log_cs \in Drainers \cup {None} /\ dpc \in Handling \cup {"idle", "take", "next"}
  /\ node \in Lsas0 /\ copied_lsa \in Nat /\ copied_lsa <= pages + 1
  /\ log_cs = None <=> dpc = "idle"
  /\ dpc \in {"idle", "take"} => prior_flush_list = <<>>
  /\ dpc \in Handling => node = pages /\ node \in Lsas
  /\ dpc \in {"unlink", "advance", "retire"} => node \in inflight_holder
  /\ log_cs \in Readers => rpc[log_cs] = "drain"

\* A node has its holder until it is copied and retired; then it is retired,
\* and then freed.
LivesInv ==
  /\ inflight_holder \subseteq Lsas /\ retired \subseteq Lsas /\ freed \subseteq Lsas
  /\ grace \in [Lsas -> SUBSET Readers] /\ pinned \subseteq Readers
  /\ \A l \in inflight_holder : /\ pages <= l /\ l < prior_lsa
                                /\ l = pages => dpc \in Handling
  /\ \A l \in retired \cup freed : /\ l <= pages
                                   /\ l = pages => dpc \notin Handling
  /\ retired \cap freed = {}

KeyAt(c) == slots[SlotAt(c)].start_lsa
NodeAt(c) == slots[SlotAt(c)].node
Staged == m_head .. (m_tail - 1)

\* There is room for what is being pushed, and the push does its steps in order.
TailInv ==
  /\ slots \in [Slots -> [start_lsa : Lsas0, node : Lsas0]]
  /\ m_head \in Nat /\ m_tail \in Nat
  /\ m_head <= m_tail /\ m_tail <= m_head + CAPACITY
  /\ \A w \in Writers :
       /\ wpc[w] \in Pushing => m_tail < m_head + CAPACITY /\ wlsa[w] \in inflight_holder
       /\ wpc[w] \in {"push_key", "push_tail"} => NodeAt(m_tail) = wlsa[w]
       /\ wpc[w] = "push_tail" => KeyAt(m_tail) = wlsa[w]

\* The node that the drain has unlinked is at the head until the head moves.
HeadInv ==
  /\ dpc = "advance" => m_head < m_tail /\ KeyAt(m_head) = NULL_LSA /\ NodeAt(m_head) = node
  /\ dpc = "retire" => \A c \in Staged : NodeAt(c) # node

\* Staged slots hold registered nodes under their keys, in order.
OrderInv ==
  /\ \A c \in Staged : /\ NodeAt(c) \in inflight_holder
                       /\ KeyAt(c) = NodeAt(c) \/ (c = m_head /\ dpc = "advance")
                       /\ \A w \in Writers : wpc[w] \in Pushing => NodeAt(c) < wlsa[w]
  /\ \A c, d \in Staged : c < d => NodeAt(c) < NodeAt(d)

\* A key is in a staged slot or in the one being pushed.
KeysInv ==
  \A s \in Slots : slots[s].start_lsa # NULL_LSA =>
    \/ \E c \in Staged : s = SlotAt(c)
    \/ s = SlotAt(m_tail) /\ \E w \in Writers : wpc[w] = "push_tail"

\* A registered node is staged, being pushed, or just taken off.
HoldersInv ==
  \A l \in inflight_holder :
    \/ \E c \in Staged : NodeAt(c) = l
    \/ \E w \in Writers : wpc[w] \in Pushing /\ wlsa[w] = l
    \/ dpc = "retire" /\ l = node

RingInv == TailInv /\ HeadInv /\ OrderInv /\ KeysInv /\ HoldersInv

\* What a reader knows of the version it asked for.
Reader(r) ==
  /\ rpc[r] # "idle" => version_lsa[r] \in Lsas /\ version_lsa[r] <= LastAppended
  /\ log_cs = r /\ dpc # "take" => version_lsa[r] <= pages + Len(prior_flush_list)
  /\ rpc[r] = "page" => version_lsa[r] <= pages
  /\ rpc[r] \in Looking => r \in pinned
  /\ rpc[r] = "recheck" /\ KeyAt(sequence[r] - 1) = version_lsa[r] => found[r] = version_lsa[r]
  /\ rpc[r] = "read" => /\ found[r] = version_lsa[r]
                        /\ \/ version_lsa[r] \in inflight_holder
                           \/ version_lsa[r] \in retired /\ r \in grace[version_lsa[r]]

LocalsInv ==
  /\ rpc \in [Readers -> Looking \cup {"idle", "pin", "reload", "drain", "page"}]
  /\ version_lsa \in [Readers -> Lsas0] /\ found \in [Readers -> Lsas0]
  /\ head \in [Readers -> Int] /\ sequence \in [Readers -> Int]

ReadersInv == LocalsInv /\ \A r \in Readers : Reader(r)

IInv == WritersInv /\ LogInv /\ DrainInv /\ LivesInv /\ RingInv /\ ReadersInv
-------------------------------------------------------------------------------
\* What the steps of a writer leave alone.
LEMMA WriterFrame ==
  ASSUME NEW w \in Writers, WriterStep(w)
  PROVE  /\ log_cs' = log_cs /\ dpc' = dpc /\ node' = node /\ prior_flush_list' = prior_flush_list
         /\ pages' = pages /\ copied_lsa' = copied_lsa /\ retired' = retired /\ grace' = grace
         /\ freed' = freed /\ m_head' = m_head /\ UNCHANGED readerVars
BY Zenon DEF WriterStep, Prepare, StartAppend, PushNode, PushKey, PushTail, Link,
             drainVars, lifeVars, ringVars

\* What the steps of a drain leave alone.
LEMMA DrainFrame ==
  ASSUME DrainStep
  PROVE  /\ prior_lsa' = prior_lsa /\ prior_lsa_mutex' = prior_lsa_mutex /\ wpc' = wpc /\ wlsa' = wlsa
         /\ m_tail' = m_tail /\ version_lsa' = version_lsa /\ head' = head /\ sequence' = sequence
         /\ found' = found /\ pinned' = pinned
BY Zenon DEF DrainStep, TakeList, CopyRecord, PublishCopied, Unlink, AdvanceHead, Retire, EndDrain,
             writerVars, readerVars, ringVars

\* What the others leave alone.
LEMMA OtherFrame ==
  ASSUME \/ \E d \in Drainers : EnterLogCs(d)
         \/ \E l \in Lsas : Reclaim(l)
         \/ \E r \in Readers : StartRead(r) \/ ReaderStep(r)
         \/ UNCHANGED vars
  PROVE  /\ UNCHANGED writerVars /\ UNCHANGED ringVars
         /\ prior_list' = prior_list /\ prior_flush_list' = prior_flush_list /\ pages' = pages
         /\ node' = node /\ copied_lsa' = copied_lsa /\ inflight_holder' = inflight_holder
<1>1. ASSUME NEW r \in Readers, StartRead(r) \/ ReaderStep(r)
      PROVE  /\ UNCHANGED writerVars /\ UNCHANGED ringVars /\ UNCHANGED drainVars
             /\ prior_list' = prior_list /\ inflight_holder' = inflight_holder
  BY <1>1, Zenon DEF StartRead, ReaderStep, Pin, LoadHead, LoadTail, ScanSlot, ScanMiss, LoadNode, Recheck,
             ReadNode, Reload, ReadPage, lifeVars
<1>. QED  BY <1>1, Zenon DEF EnterLogCs, Reclaim, drainVars, lifeVars, vars

\* A step is of a writer, of the drain, or neither.
LEMMA Steps ==
  ASSUME [Next]_vars
  PROVE  \/ \E w \in Writers : WriterStep(w)
         \/ DrainStep
         \/ \E d \in Drainers : EnterLogCs(d)
         \/ \E l \in Lsas : Reclaim(l)
         \/ \E r \in Readers : StartRead(r) \/ ReaderStep(r)
         \/ UNCHANGED vars
BY Zenon DEF Next
-------------------------------------------------------------------------------
\* The mutex of the append path.
LEMMA WritersStep ==
  ASSUME IInv, [Next]_vars
  PROVE  WritersInv'
<1>. WritersInv  BY Zenon DEF IInv
<1>1. CASE \E w \in Writers : WriterStep(w)
  <2>. PICK w \in Writers : WriterStep(w)  BY <1>1, Zenon
  <2>1. CASE Prepare(w)
    BY ONLY WritersInv, w \in Writers, <2>1, Zenon DEF WritersInv, Prepare, Appending
  <2>2. CASE StartAppend(w)
    BY ONLY LogPriorInflightAssumption, WritersInv, w \in Writers, <2>2
    DEF WritersInv, StartAppend, Appending, Lsas0, Lsas, NULL_LSA
  <2>3. CASE PushNode(w)
    BY ONLY WritersInv, w \in Writers, <2>3, Zenon DEF WritersInv, PushNode, Appending
  <2>4. CASE PushKey(w)
    BY ONLY WritersInv, w \in Writers, <2>4, Zenon DEF WritersInv, PushKey, Appending
  <2>5. CASE PushTail(w)
    BY ONLY WritersInv, w \in Writers, <2>5, Zenon DEF WritersInv, PushTail, Appending
  <2>6. CASE Link(w)
    BY ONLY LogPriorInflightAssumption, WritersInv, w \in Writers, <2>6, Zenon
    DEF WritersInv, Link, Appending, Lsas0, NULL_LSA
  <2>. QED  BY <2>1, <2>2, <2>3, <2>4, <2>5, <2>6, Zenon DEF WriterStep
<1>2. CASE UNCHANGED writerVars
  BY ONLY WritersInv, <1>2, Zenon DEF WritersInv, writerVars
<1>3. CASE DrainStep
  BY <1>2, <1>3, DrainFrame, Zenon DEF WritersInv
<1>. QED  BY <1>1, <1>2, <1>3, Steps, OtherFrame, Zenon

\* The log has no gap.
LEMMA LogStep ==
  ASSUME IInv, [Next]_vars
  PROVE  LogInv'
<1>1. WritersInv /\ LogInv /\ DrainInv  BY Zenon DEF IInv
<1>2. ASSUME UNCHANGED <<prior_list, prior_flush_list, pages, prior_lsa, prior_lsa_mutex>>
      PROVE  LogInv'
  BY ONLY <1>1, <1>2, Zenon DEF LogInv, LastAppended
<1>3. CASE \E w \in Writers : WriterStep(w)
  <2>. PICK w \in Writers : WriterStep(w)  BY <1>3, Zenon
  <2>1. prior_flush_list' = prior_flush_list /\ pages' = pages  BY WriterFrame, Zenon
  <2>2. CASE StartAppend(w)
    BY ONLY LogPriorInflightAssumption, <1>1, <2>1, <2>2, w \in Writers DEF WritersInv, LogInv, LastAppended, StartAppend
  <2>3. CASE Link(w)
    <3>1. prior_lsa_mutex = w /\ wlsa[w] = prior_lsa - 1 /\ prior_lsa_mutex # None
      BY ONLY LogPriorInflightAssumption, <1>1, <2>3, w \in Writers, Zenon DEF WritersInv, Link, Appending
    <3>2. wlsa[w] = LastAppended + 1 /\ wlsa[w] \in Lsas
      BY ONLY LogPriorInflightAssumption, <1>1, <3>1, w \in Writers DEF WritersInv, LogInv, LastAppended, Lsas, Lsas0, NULL_LSA
    <3>3. prior_lsa' = prior_lsa /\ prior_lsa_mutex' = None /\ prior_list' = Append(prior_list, wlsa[w])
      BY <2>3, Zenon DEF Link
    <3>4. /\ prior_list' \in Seq(Lsas) /\ Len(prior_list') = Len(prior_list) + 1
          /\ \A i \in 1 .. Len(prior_list') : prior_list'[i] = IF i <= Len(prior_list) THEN prior_list[i] ELSE wlsa[w]
      <4>1. prior_list \in Seq(Lsas)  BY <1>1, Zenon DEF LogInv
      <4>. QED  BY ONLY <4>1, <3>2, <3>3
    <3>5. prior_lsa \in Int /\ Len(prior_list) \in Nat /\ Len(prior_flush_list) \in Nat /\ pages \in Int
      BY ONLY LogPriorInflightAssumption, <1>1 DEF WritersInv, LogInv
    <3>6. \A i \in 1 .. Len(prior_list') : prior_list'[i] = pages' + Len(prior_flush_list') + i
      <4>1. \A i \in 1 .. Len(prior_list) : prior_list[i] = pages + Len(prior_flush_list) + i
        BY <1>1, Zenon DEF LogInv
      <4>. QED  BY ONLY <2>1, <3>2, <3>4, <3>5, <4>1 DEF LastAppended
    <3>7. LastAppended' = prior_lsa' - 1
      BY ONLY <2>1, <3>1, <3>2, <3>3, <3>4, <3>5 DEF LastAppended
    <3>8. /\ pages \in 0 .. MaxLsa /\ prior_flush_list \in Seq(Lsas)
          /\ \A i \in 1 .. Len(prior_flush_list) : prior_flush_list[i] = pages + i
      BY <1>1, Zenon DEF LogInv
    <3>. QED  BY ONLY <2>1, <3>3, <3>4, <3>6, <3>7, <3>8, Zenon DEF LogInv
  <2>4. CASE Prepare(w) \/ PushNode(w) \/ PushKey(w) \/ PushTail(w)
    BY <2>4, <2>1, <1>2, Zenon DEF Prepare, PushNode, PushKey, PushTail
  <2>. QED  BY <2>2, <2>3, <2>4, Zenon DEF WriterStep
<1>4. CASE DrainStep
  <2>1. prior_lsa' = prior_lsa /\ prior_lsa_mutex' = prior_lsa_mutex  BY <1>4, DrainFrame, Zenon
  <2>2. CASE TakeList
    BY ONLY <1>1, <2>1, <2>2 DEF LogInv, DrainInv, LastAppended, TakeList
  <2>3. CASE CopyRecord
    <3>1. /\ prior_flush_list # <<>> /\ prior_flush_list' = Tail(prior_flush_list)
          /\ pages' = prior_flush_list[1] /\ prior_list' = prior_list
      BY <2>3 DEF CopyRecord
    <3>2. pages' = pages + 1 /\ pages' \in Lsas
      BY ONLY <1>1, <3>1 DEF LogInv
    <3>. QED  BY ONLY LogPriorInflightAssumption, <1>1, <2>1, <3>1, <3>2 DEF LogInv, LastAppended, Lsas
  <2>4. CASE PublishCopied \/ Unlink \/ AdvanceHead \/ Retire \/ EndDrain
    BY <2>4, <2>1, <1>2, Zenon DEF PublishCopied, Unlink, AdvanceHead, Retire, EndDrain
  <2>. QED  BY <1>4, <2>2, <2>3, <2>4, Zenon DEF DrainStep
<1>. QED  BY <1>2, <1>3, <1>4, Steps, OtherFrame, Zenon DEF writerVars

\* The drain is where the lists say it is.
LEMMA DrainerStep ==
  ASSUME IInv, [Next]_vars
  PROVE  DrainInv'
<1>1. LogInv /\ DrainInv /\ LivesInv  BY Zenon DEF IInv
<1>2. CASE \E w \in Writers : WriterStep(w)
  <2>. PICK w \in Writers : WriterStep(w)  BY <1>2, Zenon
  <2>1. inflight_holder \subseteq inflight_holder'
    BY Zenon DEF WriterStep, Prepare, StartAppend, PushNode, PushKey, PushTail, Link, lifeVars
  <2>2. /\ log_cs' = log_cs /\ dpc' = dpc /\ node' = node /\ prior_flush_list' = prior_flush_list
        /\ pages' = pages /\ copied_lsa' = copied_lsa /\ rpc' = rpc
    BY WriterFrame, Zenon DEF readerVars
  <2>. QED  BY ONLY <1>1, <2>1, <2>2, Zenon DEF DrainInv
<1>3. CASE DrainStep
  <2>1. CASE TakeList
    BY ONLY <1>1, <2>1, Zenon DEF DrainInv, TakeList, Handling, lifeVars, readerVars
  <2>2. CASE CopyRecord
    <3>1. prior_flush_list # <<>> /\ prior_flush_list' = Tail(prior_flush_list) /\ node' = Head(prior_flush_list)
      BY <2>2, Zenon DEF CopyRecord
    <3>2. node' = pages + 1 /\ node' \in Lsas
      BY ONLY <1>1, <3>1 DEF LogInv
    <3>. QED  BY ONLY LogPriorInflightAssumption, <1>1, <2>2, <3>2 DEF LogInv, DrainInv, CopyRecord, Handling, Lsas0, readerVars
  <2>3. CASE PublishCopied
    BY ONLY LogPriorInflightAssumption, <1>1, <2>3 DEF LogInv, DrainInv, PublishCopied, Handling, Lsas, readerVars
  <2>4. CASE Unlink
    BY ONLY <1>1, <2>4, Zenon DEF DrainInv, Unlink, Handling, lifeVars, readerVars
  <2>5. CASE AdvanceHead
    BY ONLY <1>1, <2>5, Zenon DEF DrainInv, AdvanceHead, Handling, lifeVars, readerVars
  <2>6. CASE Retire
    BY ONLY <1>1, <2>6, Zenon DEF DrainInv, Retire, Handling, readerVars
  <2>7. CASE EndDrain
    BY ONLY LogPriorInflightAssumption, <1>1, <2>7 DEF LogInv, DrainInv, EndDrain, Handling, Lsas0, NULL_LSA, Drainers
  <2>. QED  BY <1>3, <2>1, <2>2, <2>3, <2>4, <2>5, <2>6, <2>7, Zenon DEF DrainStep
<1>4. ASSUME NEW d \in Drainers, EnterLogCs(d)
      PROVE  DrainInv'
  BY ONLY LogPriorInflightAssumption, <1>1, d \in Drainers, <1>4, Zenon
  DEF DrainInv, EnterLogCs, Handling, Drainers, lifeVars, readerVars
<1>5. ASSUME UNCHANGED drainVars, inflight_holder' = inflight_holder,
             log_cs \in Readers => rpc'[log_cs] = rpc[log_cs]
      PROVE  DrainInv'
  BY ONLY <1>1, <1>5, Zenon DEF DrainInv, drainVars
<1>6. ASSUME NEW l \in Lsas, Reclaim(l)
      PROVE  DrainInv'
  BY <1>5, <1>6, Zenon DEF Reclaim, readerVars
<1>7. ASSUME NEW r \in Readers, StartRead(r) \/ ReaderStep(r)
      PROVE  DrainInv'
  <2>1. /\ UNCHANGED drainVars /\ inflight_holder' = inflight_holder /\ rpc[r] # "drain"
        /\ rpc' = rpc \/ \E a : rpc' = [rpc EXCEPT ![r] = a]
    BY <1>7, Zenon DEF StartRead, ReaderStep, Pin, LoadHead, LoadTail, ScanSlot, ScanMiss, LoadNode, Recheck,
       ReadNode, Reload, ReadPage, Return, Goto, lifeVars
  <2>2. log_cs \in Readers => log_cs # r /\ rpc \in [Readers -> Looking \cup {"idle", "pin", "reload", "drain", "page"}]
    BY <2>1, <1>1, Zenon DEF DrainInv, IInv, ReadersInv, LocalsInv
  <2>3. log_cs \in Readers => rpc'[log_cs] = rpc[log_cs]
    BY ONLY <2>1, <2>2, r \in Readers, Zenon
  <2>. QED  BY <2>1, <2>3, <1>5, Zenon
<1>8. CASE UNCHANGED vars
  BY <1>8, <1>5, Zenon DEF vars, lifeVars, readerVars
<1>. QED  BY <1>2, <1>3, <1>4, <1>6, <1>7, <1>8, Steps, Zenon

\* A node is held, then retired, then freed.
LEMMA LivesStep ==
  ASSUME IInv, [Next]_vars
  PROVE  LivesInv'
<1>1. WritersInv /\ LogInv /\ DrainInv /\ LivesInv  BY Zenon DEF IInv
<1>2. CASE \E w \in Writers : WriterStep(w)
  <2>. PICK w \in Writers : WriterStep(w)  BY <1>2, Zenon
  <2>1. /\ dpc' = dpc /\ pages' = pages /\ retired' = retired /\ grace' = grace /\ freed' = freed /\ pinned' = pinned
    BY WriterFrame, Zenon DEF readerVars
  <2>2. CASE StartAppend(w)
    <3>1. /\ inflight_holder' \subseteq inflight_holder \cup {prior_lsa} /\ prior_lsa' = prior_lsa + 1
          /\ prior_lsa \in Lsas /\ pages < prior_lsa
      BY ONLY LogPriorInflightAssumption, <1>1, <2>2, w \in Writers DEF WritersInv, LogInv, LastAppended, StartAppend, Lsas
    <3>. QED  BY ONLY LogPriorInflightAssumption, <1>1, <2>1, <3>1 DEF WritersInv, LogInv, LivesInv, Lsas
  <2>3. CASE Prepare(w) \/ PushNode(w) \/ PushKey(w) \/ PushTail(w) \/ Link(w)
    <3>1. inflight_holder' = inflight_holder /\ prior_lsa' = prior_lsa
      BY <2>3, Zenon DEF Prepare, PushNode, PushKey, PushTail, Link, lifeVars
    <3>. QED  BY ONLY <1>1, <2>1, <3>1, Zenon DEF LivesInv
  <2>. QED  BY <2>2, <2>3, Zenon DEF WriterStep
<1>3. CASE DrainStep
  <2>1. prior_lsa' = prior_lsa /\ pinned' = pinned  BY <1>3, DrainFrame, Zenon
  <2>2. CASE TakeList \/ Unlink \/ AdvanceHead \/ EndDrain
    <3>1. /\ pages' = pages /\ (dpc \in Handling <=> dpc' \in Handling)
          /\ UNCHANGED lifeVars
      BY ONLY <2>2, Zenon DEF TakeList, Unlink, AdvanceHead, EndDrain, Handling
    <3>. QED  BY ONLY <1>1, <2>1, <3>1, Zenon DEF LivesInv, lifeVars
  <2>3. CASE CopyRecord
    <3>1. prior_flush_list # <<>> /\ pages' = Head(prior_flush_list) /\ dpc = "next" /\ dpc' \in Handling
          /\ UNCHANGED lifeVars
      BY <2>3, Zenon DEF CopyRecord, Handling
    <3>2. pages' = pages + 1 /\ pages \in Int
      BY ONLY <1>1, <3>1 DEF LogInv
    <3>. QED  BY ONLY LogPriorInflightAssumption, <1>1, <2>1, <3>1, <3>2 DEF LivesInv, Handling, Lsas, lifeVars
  <2>4. CASE PublishCopied
    <3>1. dpc \in Handling /\ node \in Lsas /\ node = pages
      BY ONLY <1>1, <2>4, Zenon DEF DrainInv, PublishCopied, Handling
    <3>2. /\ UNCHANGED <<inflight_holder, retired, grace, pages>>
          /\ \/ freed' = freed /\ dpc' \in Handling
             \/ freed' = freed \cup {node} /\ node \notin inflight_holder /\ dpc' \notin Handling
      BY ONLY <2>4, Zenon DEF PublishCopied, Handling
    <3>3. node \notin retired  BY ONLY <1>1, <3>1, Zenon DEF LivesInv
    <3>4. \A l \in retired \cup freed : l # pages /\ l <= pages
      BY ONLY <1>1, <3>1, Zenon DEF LivesInv
    <3>5. node <= node  BY ONLY <3>1, LogPriorInflightAssumption DEF Lsas
    <3>6. CASE freed' = freed /\ dpc' \in Handling
      BY ONLY <1>1, <2>1, <3>1, <3>2, <3>4, <3>6, ZenonT(30) DEF LivesInv
    <3>7. CASE freed' = freed \cup {node} /\ node \notin inflight_holder /\ dpc' \notin Handling
      BY ONLY <1>1, <2>1, <3>1, <3>2, <3>3, <3>5, <3>7, ZenonT(30) DEF LivesInv
    <3>. QED  BY ONLY <3>2, <3>6, <3>7, Zenon
  <2>5. CASE Retire
    <3>1. dpc \in Handling /\ node \in Lsas /\ node = pages /\ node \in inflight_holder
      BY ONLY <1>1, <2>5, Zenon DEF DrainInv, Retire, Handling
    <3>2. /\ UNCHANGED <<freed, pages>> /\ dpc' \notin Handling
          /\ inflight_holder' = inflight_holder \ {node} /\ retired' = retired \cup {node}
          /\ grace' = [grace EXCEPT ![node] = pinned]
      BY ONLY <2>5, Zenon DEF Retire, Handling
    <3>3. node \notin freed  BY ONLY <1>1, <3>1, Zenon DEF LivesInv
    <3>4. node <= node  BY ONLY <3>1, LogPriorInflightAssumption DEF Lsas
    <3>5. grace' \in [Lsas -> SUBSET Readers]  BY ONLY <1>1, <3>2, Zenon DEF LivesInv
    <3>. QED  BY ONLY <1>1, <2>1, <3>1, <3>2, <3>3, <3>4, <3>5, ZenonT(30) DEF LivesInv
  <2>. QED  BY <1>3, <2>2, <2>3, <2>4, <2>5, Zenon DEF DrainStep
<1>4. ASSUME NEW d \in Drainers, EnterLogCs(d)
      PROVE  LivesInv'
  BY ONLY <1>1, <1>4, Zenon DEF LivesInv, DrainInv, EnterLogCs, Handling, lifeVars, writerVars, readerVars
<1>5. ASSUME UNCHANGED <<inflight_holder, prior_lsa, pages, dpc>>, retired' \cup freed' = retired \cup freed,
             retired' \cap freed' = {}, grace' \in [Lsas -> SUBSET Readers], pinned' \subseteq Readers
      PROVE  LivesInv'
  BY ONLY <1>1, <1>5, Zenon DEF LivesInv
<1>6. ASSUME NEW l \in Lsas, Reclaim(l)
      PROVE  LivesInv'
  <2>1. /\ UNCHANGED <<inflight_holder, prior_lsa, pages, dpc, grace, pinned>>
        /\ l \in retired /\ retired' = retired \ {l} /\ freed' = freed \cup {l}
    BY ONLY <1>6, Zenon DEF Reclaim, drainVars, writerVars, readerVars
  <2>. QED  BY ONLY <1>1, <2>1, Zenon DEF LivesInv
<1>7. ASSUME NEW r \in Readers, StartRead(r) \/ ReaderStep(r)
      PROVE  LivesInv'
  <2>1. /\ UNCHANGED <<inflight_holder, prior_lsa, pages, dpc, retired, freed>>
        /\ grace' = grace \/ Unpin(r)
        /\ pinned' = pinned \/ pinned' = pinned \cup {r} \/ Unpin(r)
    BY <1>7, Zenon DEF StartRead, ReaderStep, Pin, LoadHead, LoadTail, ScanSlot, ScanMiss, LoadNode, Recheck,
       ReadNode, Reload, ReadPage, lifeVars, writerVars, drainVars
  <2>2. grace' \in [Lsas -> SUBSET Readers] /\ pinned' \subseteq Readers
    BY ONLY <1>1, <2>1, r \in Readers, Zenon DEF LivesInv, Unpin
  <2>. QED  BY ONLY <1>1, <2>1, <2>2, <1>5, Zenon DEF LivesInv
<1>8. CASE UNCHANGED vars
  BY ONLY <1>1, <1>8, <1>5, Zenon DEF LivesInv, vars, lifeVars, readerVars, writerVars, drainVars
<1>. QED  BY <1>2, <1>3, <1>4, <1>6, <1>7, <1>8, Steps, Zenon
-------------------------------------------------------------------------------
\* A quotient and a remainder are unique: multiples that differ are a divisor apart.
LEMMA Multiples ==
  ASSUME NEW a \in Int, NEW b \in Int, a < b, NEW c \in Int, c > 0, NEW r \in Int,
         NEW q \in Int, NEW p \in Int, a = c * q + r, b = c * p + r
  PROVE  a + c <= b
<1>1. c * (p - q) = b - a  OBVIOUS
<1>2. CASE p > q
  <2>1. c * (p - q) >= c  BY <1>2
  <2>. QED  BY <1>1, <2>1
<1>3. CASE p <= q
  <2>1. c * (q - p) >= 0  BY <1>3
  <2>. QED  BY <1>1, <2>1
<1>. QED  BY <1>2, <1>3

\* Numbers with the same remainder are at least the divisor apart.
LEMMA Gap ==
  ASSUME NEW a \in Int, NEW b \in Int, a < b, NEW c \in Int, c > 0,
         NEW r \in Int, r = a % c, r = b % c,
         NEW q \in Int, q = a \div c, NEW p \in Int, p = b \div c
  PROVE  a + c <= b
<1>1. a = c * q + r  BY Z3T(30)
<1>2. b = c * p + r  BY Z3T(30)
<1>. QED  BY <1>1, <1>2, Multiples, Zenon

\* Every position has a slot.
LEMMA SlotIn ==
  ASSUME NEW c \in Int
  PROVE  SlotAt(c) \in Slots
BY LogPriorInflightAssumption DEF SlotAt, Slots

\* Positions within a lap have slots of their own.
LEMMA SlotsApart ==
  ASSUME NEW c \in Int, NEW d \in Int, c < d, d < c + CAPACITY
  PROVE  SlotAt(c) # SlotAt(d)
<1>1. SUFFICES ASSUME SlotAt(c) = SlotAt(d) PROVE FALSE  BY Zenon
<1>2. CAPACITY \in Int /\ CAPACITY > 0  BY LogPriorInflightAssumption
<1>3. PICK r \in Int : r = c % CAPACITY  BY <1>2
<1>4. PICK q \in Int : q = c \div CAPACITY  BY <1>2
<1>5. PICK p \in Int : p = d \div CAPACITY  BY <1>2
<1>6. r = d % CAPACITY  BY <1>1, <1>3, Zenon DEF SlotAt
<1>7. c + CAPACITY <= d  BY <1>2, <1>3, <1>4, <1>5, <1>6, Gap, Zenon
<1>. QED  BY <1>2, <1>7

\* The slot at the tail, while there is room, is not a staged one, and no two
\* staged positions share a slot.
LEMMA StagedApart ==
  ASSUME TailInv
  PROVE  /\ \A c \in Staged : c \in Int /\ SlotAt(c) \in Slots
         /\ SlotAt(m_tail) \in Slots /\ SlotAt(m_head) \in Slots
         /\ m_tail < m_head + CAPACITY => \A c \in Staged : SlotAt(c) # SlotAt(m_tail)
         /\ \A c, d \in Staged : c # d => SlotAt(c) # SlotAt(d)
<1>1. m_head \in Nat /\ m_tail \in Nat /\ m_head <= m_tail /\ m_tail <= m_head + CAPACITY  BY Zenon DEF TailInv
<1>2. \A c \in Staged : c \in Int /\ m_head <= c /\ c < m_tail  BY <1>1 DEF Staged
<1>3. CAPACITY \in Int  BY LogPriorInflightAssumption
<1>4. m_tail < m_head + CAPACITY => \A c \in Staged : SlotAt(c) # SlotAt(m_tail)
  <2>. SUFFICES ASSUME m_tail < m_head + CAPACITY, NEW c \in Staged PROVE SlotAt(c) # SlotAt(m_tail)  BY Zenon
  <2>1. c < m_tail /\ m_tail < c + CAPACITY /\ c \in Int /\ m_tail \in Int  BY <1>1, <1>2, <1>3
  <2>. QED  BY <2>1, SlotsApart, Zenon
<1>5. ASSUME NEW c \in Staged, NEW d \in Staged, c < d
      PROVE  SlotAt(c) # SlotAt(d)
  <2>1. d < c + CAPACITY /\ c \in Int /\ d \in Int  BY <1>1, <1>2, <1>3
  <2>. QED  BY <1>5, <2>1, SlotsApart, Zenon
<1>6. \A c, d \in Staged : c # d => c < d \/ d < c  BY <1>2
<1>7. m_tail \in Int /\ m_head \in Int  BY <1>1
<1>. QED  BY <1>2, <1>4, <1>5, <1>6, <1>7, SlotIn, Zenon

\* A writer that is appending is the only one.
LEMMA Alone ==
  ASSUME WritersInv, NEW w \in Writers, wpc[w] \in Appending
  PROVE  \A v \in Writers : v # w => wpc[v] \notin Pushing
BY Zenon DEF WritersInv, Pushing, Appending
-------------------------------------------------------------------------------
\* Steps that do not touch the ring, nor who pushes, nor what is unlinked.
LEMMA RingFrame ==
  ASSUME RingInv, UNCHANGED <<slots, m_head, m_tail, inflight_holder>>,
         \A w \in Writers : /\ wpc'[w] = wpc[w] \/ (wpc'[w] \notin Pushing /\ wpc[w] \notin Pushing)
                            /\ wpc[w] \in Pushing => wlsa'[w] = wlsa[w],
         \/ dpc' = dpc /\ node' = node
         \/ dpc \notin {"advance", "retire"} /\ dpc' \notin {"advance", "retire"}
  PROVE  RingInv'
<1>1. \A w \in Writers : /\ wpc'[w] \in Pushing <=> wpc[w] \in Pushing
                         /\ wpc'[w] \in {"push_key", "push_tail"} <=> wpc[w] \in {"push_key", "push_tail"}
                         /\ wpc'[w] = "push_tail" <=> wpc[w] = "push_tail"
  BY Zenon DEF Pushing
<1>2. TailInv'  BY <1>1, Zenon DEF RingInv, TailInv, KeyAt, NodeAt, Pushing
<1>3. HeadInv'  BY Zenon DEF RingInv, HeadInv, KeyAt, NodeAt, Staged
<1>4. OrderInv'  BY <1>1, Zenon DEF RingInv, OrderInv, KeyAt, NodeAt, Staged
<1>5. KeysInv'  BY <1>1, Zenon DEF RingInv, KeysInv, Staged
<1>6. HoldersInv'  BY <1>1 DEF RingInv, HoldersInv, NodeAt, Staged
<1>. QED  BY <1>2, <1>3, <1>4, <1>5, <1>6, Zenon DEF RingInv

\* A node is registered: nothing else is being pushed.
LEMMA RegisterRing ==
  ASSUME IInv, NEW w \in Writers, StartAppend(w), prepared[w] /\ table /\ ~IsFull
  PROVE  RingInv'
<1>1. WritersInv /\ LivesInv /\ RingInv /\ TailInv  BY Zenon DEF IInv, RingInv
<1>2. /\ UNCHANGED <<slots, m_head, m_tail, dpc, node>> /\ inflight_holder' = inflight_holder \cup {prior_lsa}
      /\ prior_lsa_mutex = None
      /\ wlsa' = [wlsa EXCEPT ![w] = prior_lsa] /\ wpc' = [wpc EXCEPT ![w] = "push_node"]
  BY Zenon DEF StartAppend, ringVars, drainVars
<1>3. \A v \in Writers : wpc[v] \notin Pushing
  BY ONLY LogPriorInflightAssumption, <1>1, <1>2, Zenon DEF WritersInv, Appending, Pushing
<1>4. \A v \in Writers : /\ wpc'[v] \in Pushing => v = w /\ wpc'[v] = "push_node"
                         /\ v = w => wpc'[v] \in Pushing /\ wlsa'[v] = prior_lsa
  BY ONLY <1>1, <1>2, <1>3, Zenon DEF WritersInv, Pushing
<1>5. m_tail < m_head + CAPACITY
  BY ONLY <1>1, LogPriorInflightAssumption, ~IsFull DEF IsFull, TailInv
<1>6. TailInv'
  BY ONLY <1>1, <1>2, <1>4, <1>5 DEF TailInv, Pushing
<1>7. HeadInv'
  BY ONLY <1>1, <1>2, Zenon DEF RingInv, HeadInv, KeyAt, NodeAt, Staged
<1>8. OrderInv'
  <2>1. \A c \in Staged : NodeAt(c) < prior_lsa
    BY ONLY <1>1, Zenon DEF RingInv, OrderInv, LivesInv
  <2>. QED  BY ONLY <1>1, <1>2, <1>4, <2>1, Zenon DEF RingInv, OrderInv, KeyAt, NodeAt, Staged
<1>9. KeysInv'
  BY ONLY <1>1, <1>2, <1>3, Zenon DEF RingInv, KeysInv, Staged, Pushing
<1>10. HoldersInv'
  BY ONLY <1>1, <1>2, <1>3, <1>4, w \in Writers, Zenon DEF RingInv, HoldersInv, NodeAt, Staged
<1>. QED  BY <1>6, <1>7, <1>8, <1>9, <1>10, Zenon DEF RingInv

\* Nothing about a writer other than the pushing one.
LEMMA PushFacts ==
  ASSUME IInv, NEW w \in Writers, NEW a \in {"push_node", "push_key", "push_tail"},
         NEW b \in {"push_key", "push_tail", "link"},
         wpc[w] = a, wpc' = [wpc EXCEPT ![w] = b], wlsa' = wlsa
  PROVE  /\ WritersInv /\ RingInv /\ TailInv /\ wlsa[w] \in Lsas0
         /\ \A v \in Writers : wpc[v] \in Pushing => v = w
         /\ \A v \in Writers : wpc'[v] \in Pushing => v = w
         /\ wpc'[w] = b /\ wlsa[w] \in inflight_holder /\ m_tail < m_head + CAPACITY
<1>1. WritersInv /\ RingInv /\ TailInv  BY Zenon DEF IInv, RingInv
<1>2. wpc[w] \in Appending /\ wpc[w] \in Pushing  BY Zenon DEF Appending, Pushing
<1>3. \A v \in Writers : v # w => wpc[v] \notin Pushing  BY <1>1, <1>2, Alone, Zenon
<1>. QED  BY ONLY <1>1, <1>2, <1>3, w \in Writers, wpc' = [wpc EXCEPT ![w] = b], Zenon DEF WritersInv, TailInv

\* The node is stored behind the tail, where no staged slot is.
LEMMA PushNodeRing ==
  ASSUME IInv, NEW w \in Writers, PushNode(w)
  PROVE  RingInv'
<1>1. /\ UNCHANGED <<m_head, m_tail, dpc, node, inflight_holder, wlsa>> /\ wpc[w] = "push_node"
      /\ wpc' = [wpc EXCEPT ![w] = "push_key"] /\ slots' = [slots EXCEPT ![SlotAt(m_tail)].node = wlsa[w]]
  BY Zenon DEF PushNode, drainVars, lifeVars
<1>2. /\ WritersInv /\ RingInv /\ TailInv /\ wlsa[w] \in Lsas0
      /\ \A v \in Writers : wpc[v] \in Pushing => v = w
      /\ \A v \in Writers : wpc'[v] \in Pushing => v = w
      /\ wpc'[w] = "push_key" /\ wlsa[w] \in inflight_holder /\ m_tail < m_head + CAPACITY
  BY <1>1, PushFacts, Zenon
<1>3. /\ \A c \in Staged : SlotAt(c) \in Slots /\ SlotAt(c) # SlotAt(m_tail)
      /\ SlotAt(m_tail) \in Slots /\ SlotAt(m_head) \in Slots
  BY <1>2, StagedApart, Zenon
<1>4. /\ slots' \in [Slots -> [start_lsa : Lsas0, node : Lsas0]]
      /\ \A s \in Slots : slots'[s].start_lsa = slots[s].start_lsa
      /\ \A s \in Slots : s # SlotAt(m_tail) => slots'[s] = slots[s]
      /\ slots'[SlotAt(m_tail)].node = wlsa[w]
  <2>1. slots \in [Slots -> [start_lsa : Lsas0, node : Lsas0]]  BY <1>2, Zenon DEF TailInv
  <2>. QED  BY ONLY <1>1, <1>2, <1>3, <2>1, Zenon
<1>5. \A c \in Staged : NodeAt(c)' = NodeAt(c) /\ KeyAt(c)' = KeyAt(c)
  BY ONLY <1>3, <1>4, Zenon DEF NodeAt, KeyAt
<1>6. TailInv'
  BY ONLY <1>1, <1>2, <1>4, Zenon DEF TailInv, NodeAt, Pushing
<1>7. HeadInv'
  <2>1. m_head < m_tail => m_head \in Staged  BY ONLY <1>2 DEF TailInv, Staged
  <2>. QED  BY ONLY <1>1, <1>2, <1>5, <2>1, Zenon DEF RingInv, HeadInv, Staged, NodeAt, KeyAt
<1>8. OrderInv'
  BY ONLY <1>1, <1>2, <1>5 DEF RingInv, OrderInv, Staged, Pushing
<1>9. KeysInv'
  BY ONLY <1>1, <1>2, <1>4, Zenon DEF RingInv, KeysInv, Staged, Pushing
<1>10. HoldersInv'
  BY ONLY <1>1, <1>2, <1>5 DEF RingInv, HoldersInv, Staged, Pushing
<1>. QED  BY <1>6, <1>7, <1>8, <1>9, <1>10, Zenon DEF RingInv

\* The key is stored behind the tail, after the node.
LEMMA PushKeyRing ==
  ASSUME IInv, NEW w \in Writers, PushKey(w)
  PROVE  RingInv'
<1>1. /\ UNCHANGED <<m_head, m_tail, dpc, node, inflight_holder, wlsa>> /\ wpc[w] = "push_key"
      /\ wpc' = [wpc EXCEPT ![w] = "push_tail"] /\ slots' = [slots EXCEPT ![SlotAt(m_tail)].start_lsa = wlsa[w]]
  BY Zenon DEF PushKey, drainVars, lifeVars
<1>2. /\ WritersInv /\ RingInv /\ TailInv /\ wlsa[w] \in Lsas0
      /\ \A v \in Writers : wpc[v] \in Pushing => v = w
      /\ \A v \in Writers : wpc'[v] \in Pushing => v = w
      /\ wpc'[w] = "push_tail" /\ wlsa[w] \in inflight_holder /\ m_tail < m_head + CAPACITY
  BY <1>1, PushFacts, Zenon
<1>3. /\ \A c \in Staged : SlotAt(c) \in Slots /\ SlotAt(c) # SlotAt(m_tail)
      /\ SlotAt(m_tail) \in Slots /\ SlotAt(m_head) \in Slots
  BY <1>2, StagedApart, Zenon
<1>4. /\ slots' \in [Slots -> [start_lsa : Lsas0, node : Lsas0]]
      /\ \A s \in Slots : s # SlotAt(m_tail) => slots'[s] = slots[s]
      /\ slots'[SlotAt(m_tail)].node = slots[SlotAt(m_tail)].node
      /\ slots'[SlotAt(m_tail)].start_lsa = wlsa[w]
  <2>1. slots \in [Slots -> [start_lsa : Lsas0, node : Lsas0]]  BY <1>2, Zenon DEF TailInv
  <2>. QED  BY ONLY <1>1, <1>2, <1>3, <2>1, Zenon
<1>5. \A c \in Staged : NodeAt(c)' = NodeAt(c) /\ KeyAt(c)' = KeyAt(c)
  BY ONLY <1>3, <1>4, Zenon DEF NodeAt, KeyAt
<1>6. TailInv'
  <2>1. slots[SlotAt(m_tail)].node = wlsa[w]
    BY ONLY <1>1, <1>2, w \in Writers, Zenon DEF TailInv, NodeAt
  <2>. QED  BY ONLY <1>1, <1>2, <1>4, <2>1, Zenon DEF TailInv, NodeAt, KeyAt, Pushing
<1>7. HeadInv'
  <2>1. m_head < m_tail => m_head \in Staged  BY ONLY <1>2 DEF TailInv, Staged
  <2>. QED  BY ONLY <1>1, <1>2, <1>5, <2>1, Zenon DEF RingInv, HeadInv, Staged, NodeAt, KeyAt
<1>8. OrderInv'
  BY ONLY <1>1, <1>2, <1>5 DEF RingInv, OrderInv, Staged, Pushing
<1>9. KeysInv'
  BY ONLY <1>1, <1>2, <1>4, w \in Writers, Zenon DEF RingInv, KeysInv, Staged, Pushing
<1>10. HoldersInv'
  BY ONLY <1>1, <1>2, <1>5, Zenon DEF RingInv, HoldersInv, Staged, Pushing
<1>. QED  BY <1>6, <1>7, <1>8, <1>9, <1>10, Zenon DEF RingInv

\* What is being pushed is not the record that the drain is working on.
LEMMA PushedIsNew ==
  ASSUME IInv, NEW w \in Writers, wpc[w] \in Appending, dpc \in Handling
  PROVE  wlsa[w] # node
<1>1. prior_lsa_mutex = w /\ wlsa[w] = prior_lsa - 1 /\ prior_lsa \in Int /\ prior_lsa_mutex # None
  BY LogPriorInflightAssumption DEF IInv, WritersInv
<1>2. node = pages  BY Zenon DEF IInv, DrainInv
<1>3. pages \in Int /\ pages <= prior_lsa - 2
  BY <1>1 DEF IInv, LogInv, LastAppended
<1>. QED  BY ONLY <1>1, <1>2, <1>3

\* The tail moves over the slot that has been filled.
LEMMA PushTailRing ==
  ASSUME IInv, NEW w \in Writers, PushTail(w)
  PROVE  RingInv'
<1>1. /\ UNCHANGED <<m_head, slots, dpc, node, inflight_holder, wlsa>> /\ wpc[w] = "push_tail"
      /\ wpc' = [wpc EXCEPT ![w] = "link"] /\ m_tail' = m_tail + 1
  BY Zenon DEF PushTail, drainVars, lifeVars
<1>2. /\ WritersInv /\ RingInv /\ TailInv /\ wlsa[w] \in Lsas0
      /\ \A v \in Writers : wpc[v] \in Pushing => v = w
      /\ \A v \in Writers : wpc'[v] \in Pushing => v = w
      /\ wpc'[w] = "link" /\ wlsa[w] \in inflight_holder /\ m_tail < m_head + CAPACITY
  BY <1>1, PushFacts, Zenon
<1>3. \A v \in Writers : wpc'[v] \notin Pushing
  BY ONLY <1>2, Zenon DEF Pushing
<1>4. /\ Staged' = Staged \cup {m_tail} /\ m_tail \in Int
      /\ \A c \in Staged : c \in Int /\ c < m_tail /\ m_head <= c
  BY ONLY <1>1, <1>2 DEF TailInv, Staged
<1>5. NodeAt(m_tail) = wlsa[w] /\ KeyAt(m_tail) = wlsa[w]
  BY ONLY <1>1, <1>2, w \in Writers, Zenon DEF TailInv
<1>6. TailInv'
  BY ONLY <1>1, <1>2, <1>3, LogPriorInflightAssumption DEF TailInv, Pushing
<1>7. HeadInv'
  <2>1. dpc = "retire" => wlsa[w] # node
    BY <1>1, PushedIsNew, Zenon DEF Handling, Appending
  <2>2. \A c : NodeAt(c)' = NodeAt(c) /\ KeyAt(c)' = KeyAt(c)  BY ONLY <1>1, Zenon DEF NodeAt, KeyAt
  <2>3. KeyAt(m_head)' = KeyAt(m_head) /\ NodeAt(m_head)' = NodeAt(m_head)
    BY ONLY <1>1, Zenon DEF NodeAt, KeyAt
  <2>4. m_head < m_tail => m_head < m_tail'  BY ONLY <1>1, <1>2 DEF TailInv
  <2>. QED  BY ONLY <1>1, <1>2, <1>4, <1>5, <2>1, <2>2, <2>3, <2>4, Zenon DEF RingInv, HeadInv
<1>8. OrderInv'
  <2>1. \A c : NodeAt(c)' = NodeAt(c) /\ KeyAt(c)' = KeyAt(c)  BY ONLY <1>1, Zenon DEF NodeAt, KeyAt
  <2>2. \A c \in Staged : NodeAt(c) < wlsa[w]
    BY ONLY <1>1, <1>2, w \in Writers, Zenon DEF RingInv, OrderInv, Pushing
  <2>3. \A c \in Staged' : NodeAt(c) \in inflight_holder /\ (KeyAt(c) = NodeAt(c) \/ (c = m_head /\ dpc = "advance"))
    BY ONLY <1>2, <1>4, <1>5, Zenon DEF RingInv, OrderInv
  <2>4. \A c, d \in Staged' : c < d => NodeAt(c) < NodeAt(d)
    BY ONLY <1>2, <1>4, <1>5, <2>2 DEF RingInv, OrderInv
  <2>. QED  BY ONLY <1>1, <1>3, <2>1, <2>3, <2>4, Zenon DEF OrderInv
<1>9. KeysInv'
  BY ONLY <1>1, <1>2, <1>4, Zenon DEF RingInv, KeysInv
<1>10. HoldersInv'
  <2>1. \A c : NodeAt(c)' = NodeAt(c)  BY ONLY <1>1, Zenon DEF NodeAt
  <2>. QED  BY ONLY <1>1, <1>2, <1>4, <1>5, <2>1, Zenon DEF RingInv, HoldersInv
<1>. QED  BY <1>6, <1>7, <1>8, <1>9, <1>10, Zenon DEF RingInv

\* The key at the head is cleared; the node stays.
LEMMA UnlinkRing ==
  ASSUME IInv, Unlink
  PROVE  RingInv'
<1>1. /\ UNCHANGED <<m_head, m_tail, node, inflight_holder, wlsa, wpc>> /\ dpc = "unlink" /\ dpc' = "advance"
      /\ m_head # m_tail /\ NodeAt(m_head) = node
      /\ slots' = [slots EXCEPT ![SlotAt(m_head)].start_lsa = NULL_LSA]
  BY Zenon DEF Unlink, writerVars, lifeVars, NodeAt
<1>2. RingInv /\ TailInv  BY Zenon DEF IInv, RingInv
<1>3. m_head < m_tail /\ m_head \in Staged  BY ONLY <1>1, <1>2 DEF TailInv, Staged
<1>4. /\ \A c \in Staged : SlotAt(c) \in Slots /\ (c # m_head => SlotAt(c) # SlotAt(m_head))
      /\ SlotAt(m_tail) \in Slots /\ SlotAt(m_head) \in Slots
      /\ m_tail < m_head + CAPACITY => SlotAt(m_head) # SlotAt(m_tail)
  BY <1>2, <1>3, StagedApart, Zenon
<1>5. /\ slots' \in [Slots -> [start_lsa : Lsas0, node : Lsas0]]
      /\ \A s \in Slots : s # SlotAt(m_head) => slots'[s] = slots[s]
      /\ \A s \in Slots : slots'[s].node = slots[s].node
      /\ slots'[SlotAt(m_head)].start_lsa = NULL_LSA
  <2>1. slots \in [Slots -> [start_lsa : Lsas0, node : Lsas0]]  BY <1>2, Zenon DEF TailInv
  <2>. QED  BY ONLY <1>1, <1>4, <2>1, Zenon DEF Lsas0
<1>6. \A c \in Staged : NodeAt(c)' = NodeAt(c) /\ (c # m_head => KeyAt(c)' = KeyAt(c))
  BY ONLY <1>4, <1>5, Zenon DEF NodeAt, KeyAt
<1>7. TailInv'
  BY ONLY <1>1, <1>2, <1>4, <1>5, Zenon DEF TailInv, NodeAt, KeyAt, Pushing
<1>8. HeadInv'
  BY ONLY <1>1, <1>3, <1>4, <1>5, Zenon DEF HeadInv, NodeAt, KeyAt
<1>9. OrderInv'
  BY ONLY <1>1, <1>2, <1>6 DEF RingInv, OrderInv, Staged
<1>10. KeysInv'
  BY ONLY <1>1, <1>2, <1>5, Zenon DEF RingInv, KeysInv, Staged
<1>11. HoldersInv'
  BY ONLY <1>1, <1>2, <1>6, Zenon DEF RingInv, HoldersInv, Staged
<1>. QED  BY <1>7, <1>8, <1>9, <1>10, <1>11, Zenon DEF RingInv

\* The head moves over the node that has been unlinked, and no other.
LEMMA AdvanceRing ==
  ASSUME IInv, AdvanceHead
  PROVE  RingInv'
<1>1. /\ UNCHANGED <<slots, m_tail, node, inflight_holder, wlsa, wpc>> /\ dpc = "advance" /\ dpc' = "retire"
      /\ m_head' = m_head + 1
  BY Zenon DEF AdvanceHead, writerVars, lifeVars
<1>2. RingInv /\ TailInv  BY Zenon DEF IInv, RingInv
<1>3. m_head < m_tail /\ KeyAt(m_head) = NULL_LSA /\ NodeAt(m_head) = node
  BY ONLY <1>1, <1>2, Zenon DEF RingInv, HeadInv
<1>4. /\ Staged' = Staged \ {m_head} /\ m_head \in Staged
      /\ \A c \in Staged' : c \in Int /\ m_head < c
  BY ONLY <1>1, <1>2, <1>3 DEF TailInv, Staged
<1>5. \A c : NodeAt(c)' = NodeAt(c) /\ KeyAt(c)' = KeyAt(c)  BY ONLY <1>1, Zenon DEF NodeAt, KeyAt
<1>6. TailInv'
  BY ONLY <1>1, <1>2, <1>3, LogPriorInflightAssumption DEF TailInv, NodeAt, KeyAt, Pushing
<1>7. HeadInv'
  <2>1. \A c \in Staged : NodeAt(c) \in Int
    <3>1. inflight_holder \subseteq Int
      BY LogPriorInflightAssumption DEF IInv, LivesInv, Lsas
    <3>. QED  BY ONLY <1>2, <3>1, Zenon DEF RingInv, OrderInv
  <2>2. \A c \in Staged' : NodeAt(m_head) < NodeAt(c)
    BY ONLY <1>2, <1>4, Zenon DEF RingInv, OrderInv
  <2>3. \A c \in Staged' : NodeAt(c) # node
    BY ONLY <1>3, <1>4, <2>1, <2>2
  <2>. QED  BY ONLY <1>1, <1>5, <2>3, Zenon DEF HeadInv
<1>8. OrderInv'
  <2>1. \A c \in Staged' : c \in Staged /\ c # m_head  BY ONLY <1>4, Zenon
  <2>. QED  BY ONLY <1>1, <1>2, <1>5, <2>1, Zenon DEF RingInv, OrderInv
<1>9. KeysInv'
  <2>1. \A c \in Staged : c = m_head \/ c \in Staged'  BY ONLY <1>4, Zenon
  <2>2. slots[SlotAt(m_head)].start_lsa = NULL_LSA  BY ONLY <1>3, Zenon DEF KeyAt
  <2>. QED  BY ONLY <1>1, <1>2, <2>1, <2>2, Zenon DEF RingInv, KeysInv
<1>10. HoldersInv'
  <2>1. \A c \in Staged : c = m_head \/ c \in Staged'  BY ONLY <1>4, Zenon
  <2>. QED  BY ONLY <1>1, <1>2, <1>3, <1>5, <2>1, Zenon DEF RingInv, HoldersInv
<1>. QED  BY <1>6, <1>7, <1>8, <1>9, <1>10, Zenon DEF RingInv

\* The node taken off loses its holder.
LEMMA RetireRing ==
  ASSUME IInv, Retire
  PROVE  RingInv'
<1>1. /\ UNCHANGED <<slots, m_head, m_tail, node, wlsa, wpc>> /\ dpc = "retire" /\ dpc' = "next"
      /\ inflight_holder' = inflight_holder \ {node}
  BY Zenon DEF Retire, writerVars, ringVars
<1>2. RingInv /\ TailInv  BY Zenon DEF IInv, RingInv
<1>3. \A c \in Staged : NodeAt(c) # node  BY ONLY <1>1, <1>2, Zenon DEF RingInv, HeadInv
<1>4. \A w \in Writers : wpc[w] \in Pushing => wlsa[w] # node
  BY <1>1, PushedIsNew, Zenon DEF Handling, Appending, Pushing
<1>5. TailInv'
  BY ONLY <1>1, <1>2, <1>4, Zenon DEF TailInv, NodeAt, KeyAt
<1>6. HeadInv'
  BY ONLY <1>1, Zenon DEF HeadInv
<1>7. OrderInv'
  BY ONLY <1>1, <1>2, <1>3, Zenon DEF RingInv, OrderInv, Staged, NodeAt, KeyAt
<1>8. KeysInv'
  BY ONLY <1>1, <1>2, Zenon DEF RingInv, KeysInv, Staged
<1>9. HoldersInv'
  BY ONLY <1>1, <1>2, Zenon DEF RingInv, HoldersInv, Staged, NodeAt
<1>. QED  BY <1>5, <1>6, <1>7, <1>8, <1>9, Zenon DEF RingInv

\* The ring, through every step.
LEMMA RingStep ==
  ASSUME IInv, [Next]_vars
  PROVE  RingInv'
<1>1. WritersInv /\ RingInv  BY Zenon DEF IInv
<1>2. CASE \E w \in Writers : WriterStep(w)
  <2>. PICK w \in Writers : WriterStep(w)  BY <1>2, Zenon
  <2>1. CASE Prepare(w) \/ Link(w) \/ (StartAppend(w) /\ ~(prepared[w] /\ table /\ ~IsFull))
    <3>1. /\ UNCHANGED <<slots, m_head, m_tail, inflight_holder, dpc, node>>
          /\ wpc[w] \notin Pushing /\ \E a : a \notin Pushing /\ wpc' = [wpc EXCEPT ![w] = a]
          /\ wlsa' = wlsa \/ \E l : wlsa' = [wlsa EXCEPT ![w] = l]
      BY ONLY <2>1, Zenon DEF Prepare, Link, StartAppend, Pushing, ringVars, drainVars, lifeVars
    <3>2. \A v \in Writers : /\ wpc'[v] = wpc[v] \/ (wpc'[v] \notin Pushing /\ wpc[v] \notin Pushing)
                             /\ wpc[v] \in Pushing => wlsa'[v] = wlsa[v]
      BY ONLY <1>1, <3>1, Zenon DEF WritersInv
    <3>. QED  BY <1>1, <3>1, <3>2, RingFrame, Zenon
  <2>. QED  BY <2>1, RegisterRing, PushNodeRing, PushKeyRing, PushTailRing, Zenon DEF WriterStep
<1>3. ASSUME UNCHANGED <<slots, m_head, m_tail, inflight_holder, wpc, wlsa>>,
             \/ dpc' = dpc /\ node' = node
             \/ dpc \notin {"advance", "retire"} /\ dpc' \notin {"advance", "retire"}
      PROVE  RingInv'
  BY <1>1, <1>3, RingFrame, Zenon
<1>4. CASE DrainStep
  <2>1. CASE TakeList \/ CopyRecord \/ PublishCopied \/ EndDrain
    <3>1. /\ UNCHANGED <<slots, m_head, m_tail, inflight_holder, wpc, wlsa>>
          /\ dpc \notin {"advance", "retire"} /\ dpc' \notin {"advance", "retire"}
      BY ONLY <2>1, Zenon DEF TakeList, CopyRecord, PublishCopied, EndDrain, ringVars, lifeVars, writerVars
    <3>. QED  BY <1>3, <3>1, Zenon
  <2>. QED  BY <1>4, <2>1, UnlinkRing, AdvanceRing, RetireRing, Zenon DEF DrainStep
<1>5. ASSUME \/ \E d \in Drainers : EnterLogCs(d)
             \/ \E l \in Lsas : Reclaim(l)
             \/ \E r \in Readers : StartRead(r) \/ ReaderStep(r)
             \/ UNCHANGED vars
      PROVE  RingInv'
  <2>1. UNCHANGED writerVars /\ UNCHANGED ringVars /\ node' = node /\ inflight_holder' = inflight_holder
    BY <1>5, OtherFrame, Zenon
  <2>2. \/ dpc' = dpc
        \/ log_cs = None /\ dpc' = "take"
    BY <1>5, Zenon DEF EnterLogCs, Reclaim, StartRead, ReaderStep, Pin, LoadHead, LoadTail, ScanSlot, ScanMiss, LoadNode,
       Recheck, ReadNode, Reload, ReadPage, vars, drainVars
  <2>3. log_cs = None => dpc = "idle"  BY Zenon DEF IInv, DrainInv
  <2>4. \/ dpc' = dpc
        \/ dpc \notin {"advance", "retire"} /\ dpc' \notin {"advance", "retire"}
    BY ONLY <2>2, <2>3, Zenon
  <2>. QED  BY <1>3, <2>1, <2>4, Zenon DEF writerVars, ringVars
<1>. QED  BY <1>2, <1>4, <1>5, Steps, Zenon
\* What a reader knows stays true when others do not touch what it relies on.
LEMMA ReaderKeeps ==
  ASSUME NEW r \in Readers, Reader(r), LogInv, LogInv',
         rpc'[r] = rpc[r], version_lsa'[r] = version_lsa[r], sequence'[r] = sequence[r], found'[r] = found[r],
         r \in pinned => r \in pinned', LastAppended <= LastAppended', pages <= pages',
         rpc[r] # "idle" /\ log_cs' = r /\ dpc' # "take" => version_lsa[r] <= pages' + Len(prior_flush_list'),
         log_cs' = r => rpc[r] # "idle",
         rpc[r] = "recheck" /\ KeyAt(sequence[r] - 1)' = version_lsa[r] => KeyAt(sequence[r] - 1) = version_lsa[r],
         rpc[r] = "read" /\ version_lsa[r] \in inflight_holder =>
           \/ version_lsa[r] \in inflight_holder'
           \/ version_lsa[r] \in retired' /\ r \in grace'[version_lsa[r]],
         rpc[r] = "read" /\ version_lsa[r] \in retired /\ r \in grace[version_lsa[r]] =>
           version_lsa[r] \in retired' /\ r \in grace'[version_lsa[r]]
  PROVE  Reader(r)'
<1>1. pages \in Int /\ pages' \in Int /\ LastAppended \in Int /\ LastAppended' \in Int
  BY ONLY LogInv, LogInv' DEF LogInv, LastAppended
<1>2. rpc[r] # "idle" => version_lsa[r] \in Lsas /\ version_lsa[r] <= LastAppended'
  <2>1. rpc[r] # "idle" => version_lsa[r] \in Lsas /\ version_lsa[r] <= LastAppended  BY Zenon DEF Reader
  <2>. QED  BY ONLY <1>1, <2>1, LastAppended <= LastAppended', LogPriorInflightAssumption DEF Lsas
<1>3. rpc[r] = "page" => version_lsa[r] <= pages'
  <2>1. rpc[r] = "page" => version_lsa[r] \in Lsas /\ version_lsa[r] <= pages  BY Zenon DEF Reader
  <2>. QED  BY ONLY <1>1, <2>1, pages <= pages', LogPriorInflightAssumption DEF Lsas
<1>4. KeyAt(sequence[r] - 1)' = slots'[SlotAt(sequence[r] - 1)].start_lsa
  BY Zenon DEF KeyAt
<1>. QED  BY <1>2, <1>3, <1>4, Zenon DEF Reader, KeyAt

\* The steps of a writer: no key that is pushed is one that was asked for.
LEMMA WriterReader ==
  ASSUME IInv, LogInv', NEW w \in Writers, WriterStep(w), NEW r \in Readers
  PROVE  Reader(r)'
<1>1. /\ log_cs' = log_cs /\ dpc' = dpc /\ prior_flush_list' = prior_flush_list /\ pages' = pages
      /\ retired' = retired /\ grace' = grace /\ rpc' = rpc /\ version_lsa' = version_lsa /\ sequence' = sequence
      /\ found' = found /\ pinned' = pinned
  BY WriterFrame, Zenon DEF readerVars
<1>2. Reader(r) /\ LocalsInv /\ LogInv /\ TailInv /\ WritersInv  BY Zenon DEF IInv, ReadersInv, RingInv
<1>3. log_cs = r => rpc[r] # "idle"  BY Zenon DEF IInv, DrainInv
<1>4. pages <= pages' /\ LastAppended <= LastAppended'
  <2>1. prior_list' = prior_list \/ (Link(w) /\ prior_list' = Append(prior_list, wlsa[w]))
    BY Zenon DEF WriterStep, Prepare, StartAppend, PushNode, PushKey, PushTail, Link
  <2>. QED  BY ONLY <1>1, <1>2, <2>1 DEF LogInv, LastAppended
<1>5. inflight_holder \subseteq inflight_holder'
  BY Zenon DEF WriterStep, Prepare, StartAppend, PushNode, PushKey, PushTail, Link, lifeVars
<1>6. rpc[r] = "recheck" /\ KeyAt(sequence[r] - 1)' = version_lsa[r] => KeyAt(sequence[r] - 1) = version_lsa[r]
  <2>. SUFFICES ASSUME rpc[r] = "recheck" PROVE KeyAt(sequence[r] - 1)' = version_lsa[r] => KeyAt(sequence[r] - 1) = version_lsa[r]
    BY Zenon
  <2>1. sequence[r] - 1 \in Int  BY <1>2 DEF LocalsInv
  <2>2. SlotAt(sequence[r] - 1) \in Slots /\ SlotAt(m_tail) \in Slots  BY <1>2, <2>1, SlotIn, StagedApart, Zenon
  <2>3. CASE PushKey(w)
    <3>1. wpc[w] = "push_key" /\ slots' = [slots EXCEPT ![SlotAt(m_tail)].start_lsa = wlsa[w]]  BY <2>3, Zenon DEF PushKey
    <3>2. prior_lsa_mutex = w /\ wlsa[w] = prior_lsa - 1 /\ prior_lsa \in Int /\ prior_lsa_mutex # None
      BY <1>2, <3>1, LogPriorInflightAssumption DEF WritersInv, Appending
    <3>3. LastAppended \in Int /\ LastAppended < wlsa[w]
      BY ONLY <1>2, <3>2 DEF LogInv, LastAppended
    <3>4. version_lsa[r] \in Int /\ version_lsa[r] <= LastAppended
      BY <1>2, LogPriorInflightAssumption DEF Reader, Lsas
    <3>5. wlsa[w] # version_lsa[r]  BY ONLY <3>2, <3>3, <3>4
    <3>6. slots \in [Slots -> [start_lsa : Lsas0, node : Lsas0]]  BY <1>2, Zenon DEF TailInv
    <3>. QED  BY ONLY <1>1, <2>2, <3>1, <3>5, <3>6, Zenon DEF KeyAt
  <2>4. CASE PushNode(w)
    <3>1. slots' = [slots EXCEPT ![SlotAt(m_tail)].node = wlsa[w]]  BY <2>4, Zenon DEF PushNode
    <3>2. slots \in [Slots -> [start_lsa : Lsas0, node : Lsas0]]  BY <1>2, Zenon DEF TailInv
    <3>. QED  BY ONLY <1>1, <2>2, <3>1, <3>2, Zenon DEF KeyAt
  <2>5. CASE Prepare(w) \/ StartAppend(w) \/ PushTail(w) \/ Link(w)
    <3>1. slots' = slots  BY <2>5, Zenon DEF Prepare, StartAppend, PushTail, Link, ringVars
    <3>. QED  BY ONLY <1>1, <3>1, Zenon DEF KeyAt
  <2>. QED  BY <2>3, <2>4, <2>5, Zenon DEF WriterStep
<1>7. log_cs = r /\ dpc # "take" => version_lsa[r] <= pages + Len(prior_flush_list)
  BY <1>2, Zenon DEF Reader
<1>. QED  BY <1>1, <1>2, <1>3, <1>4, <1>5, <1>6, <1>7, ReaderKeeps, Zenon

\* The steps of the drain: a list that is taken has every version asked for,
\* and a retired node waits for the readers that look.
LEMMA DrainReader ==
  ASSUME IInv, LogInv', DrainStep, NEW r \in Readers
  PROVE  Reader(r)'
<1>1. version_lsa' = version_lsa /\ sequence' = sequence /\ found' = found /\ pinned' = pinned
  BY DrainFrame, Zenon
<1>2. Reader(r) /\ LocalsInv /\ LogInv /\ DrainInv /\ TailInv /\ r # None
  BY LogPriorInflightAssumption, Zenon DEF IInv, ReadersInv, RingInv, Drainers
<1>3. pages \in Int /\ prior_flush_list \in Seq(Lsas) /\ prior_list \in Seq(Lsas)  BY <1>2 DEF LogInv
<1>4. log_cs = r => rpc[r] = "drain"  BY <1>2, Zenon DEF DrainInv
<1>5. rpc[r] # "idle" => version_lsa[r] \in Lsas /\ version_lsa[r] # NULL_LSA /\ version_lsa[r] <= LastAppended
  BY <1>2, LogPriorInflightAssumption DEF Reader, Lsas, NULL_LSA
<1>6. log_cs = r /\ dpc # "take" => version_lsa[r] <= pages + Len(prior_flush_list)
  BY <1>2, Zenon DEF Reader
<1>8. CASE TakeList
  <2>1. /\ dpc = "take" /\ prior_flush_list' = prior_list /\ prior_list' = <<>> /\ pages' = pages
        /\ rpc' = rpc /\ log_cs' = log_cs
        /\ UNCHANGED <<inflight_holder, retired, grace, slots>>
    BY <1>8, Zenon DEF TakeList, lifeVars, ringVars, readerVars
  <2>2. LastAppended = pages + Len(prior_list) /\ LastAppended' = LastAppended
    <3>1. prior_flush_list = <<>>  BY <1>2, <2>1, Zenon DEF DrainInv
    <3>. QED  BY ONLY <1>3, <2>1, <3>1 DEF LastAppended
  <2>3. LastAppended <= LastAppended' /\ pages <= pages'  BY ONLY <1>3, <2>1, <2>2
  <2>. QED  BY <1>1, <1>2, <1>4, <1>5, <2>1, <2>2, <2>3, ReaderKeeps, Zenon DEF KeyAt
<1>9. CASE CopyRecord
  <2>1. /\ dpc = "next" /\ prior_flush_list # <<>> /\ prior_flush_list' = Tail(prior_flush_list)
        /\ prior_list' = prior_list /\ pages' = Head(prior_flush_list) /\ rpc' = rpc /\ log_cs' = log_cs
        /\ UNCHANGED <<inflight_holder, retired, grace, slots>>
    BY <1>9, Zenon DEF CopyRecord, lifeVars, ringVars, readerVars
  <2>2. pages' = pages + 1  BY ONLY <1>2, <1>3, <2>1 DEF LogInv
  <2>3. Len(prior_flush_list') = Len(prior_flush_list) - 1 /\ Len(prior_flush_list) \in Nat /\ Len(prior_list) \in Nat
    BY ONLY <1>3, <2>1
  <2>4. LastAppended' = LastAppended /\ LastAppended <= LastAppended' /\ pages <= pages'
        /\ pages' + Len(prior_flush_list') = pages + Len(prior_flush_list)
    BY ONLY <1>3, <2>1, <2>2, <2>3 DEF LastAppended
  <2>5. dpc # "take"  BY <2>1, Zenon
  <2>. QED  BY <1>1, <1>2, <1>4, <1>6, <2>1, <2>4, <2>5, ReaderKeeps, Zenon DEF KeyAt
<1>10. CASE PublishCopied \/ Unlink \/ AdvanceHead \/ Retire
  <2>1. UNCHANGED <<prior_list, prior_flush_list, pages, rpc, log_cs>> /\ dpc # "take"
    BY ONLY <1>10, Zenon DEF PublishCopied, Unlink, AdvanceHead, Retire, readerVars
  <2>2. LastAppended' = LastAppended /\ LastAppended <= LastAppended' /\ pages <= pages'
    BY ONLY <1>3, <2>1 DEF LastAppended
  <2>3. CASE PublishCopied \/ AdvanceHead
    <3>1. UNCHANGED <<inflight_holder, retired, grace, slots>>
      BY <2>3, Zenon DEF PublishCopied, AdvanceHead, lifeVars, ringVars
    <3>. QED  BY <1>1, <1>2, <1>4, <1>6, <2>1, <2>2, <3>1, ReaderKeeps, Zenon DEF KeyAt
  <2>4. CASE Unlink
    <3>1. /\ UNCHANGED <<inflight_holder, retired, grace>>
          /\ slots' = [slots EXCEPT ![SlotAt(m_head)].start_lsa = NULL_LSA]
      BY <2>4, Zenon DEF Unlink, lifeVars
    <3>2. rpc[r] = "recheck" /\ KeyAt(sequence[r] - 1)' = version_lsa[r] => KeyAt(sequence[r] - 1) = version_lsa[r]
      <4>1. SUFFICES ASSUME rpc[r] = "recheck"
                     PROVE  KeyAt(sequence[r] - 1)' = version_lsa[r] => KeyAt(sequence[r] - 1) = version_lsa[r]
        BY Zenon
      <4>2. sequence[r] - 1 \in Int  BY <1>2 DEF LocalsInv
      <4>3. SlotAt(sequence[r] - 1) \in Slots /\ SlotAt(m_head) \in Slots  BY <1>2, <4>2, SlotIn, StagedApart, Zenon
      <4>4. version_lsa[r] # NULL_LSA  BY <4>1, <1>5, Zenon
      <4>5. slots \in [Slots -> [start_lsa : Lsas0, node : Lsas0]]  BY <1>2, Zenon DEF TailInv
      <4>. QED  BY ONLY <1>1, <3>1, <4>3, <4>4, <4>5, Zenon DEF KeyAt
    <3>. QED  BY <1>1, <1>2, <1>4, <1>6, <2>1, <2>2, <3>1, <3>2, ReaderKeeps, Zenon
  <2>5. CASE Retire
    <3>1. /\ inflight_holder' = inflight_holder \ {node} /\ retired' = retired \cup {node}
          /\ grace' = [grace EXCEPT ![node] = pinned] /\ slots' = slots
      BY <2>5, Zenon DEF Retire, ringVars
    <3>2. rpc[r] = "read" => r \in pinned  BY <1>2, Zenon DEF Reader, Looking
    <3>3. grace \in [Lsas -> SUBSET Readers] /\ inflight_holder \subseteq Lsas /\ retired \subseteq Lsas
      BY Zenon DEF IInv, LivesInv
    <3>4. \A l \in Lsas : grace'[l] = IF l = node THEN pinned ELSE grace[l]
      BY ONLY <3>1, <3>3, Zenon
    <3>. QED  BY <1>1, <1>2, <1>4, <1>6, <2>1, <2>2, <3>1, <3>2, <3>3, <3>4, ReaderKeeps, ZenonT(30) DEF KeyAt
  <2>. QED  BY <1>10, <2>3, <2>4, <2>5, Zenon
<1>11. CASE EndDrain
  <2>1. /\ dpc = "next" /\ prior_flush_list = <<>> /\ log_cs' = None
        /\ rpc' = IF log_cs \in Readers THEN [rpc EXCEPT ![log_cs] = "page"] ELSE rpc
        /\ UNCHANGED <<prior_flush_list, prior_list, pages, inflight_holder, retired, grace, slots>>
    BY <1>11, Zenon DEF EndDrain, lifeVars, ringVars
  <2>2. LastAppended' = LastAppended /\ LastAppended <= LastAppended' /\ pages <= pages'
    BY ONLY <1>3, <2>1 DEF LastAppended
  <2>3. CASE log_cs = r
    <3>1. rpc'[r] = "page" /\ rpc[r] # "idle"  BY ONLY <1>2, <1>4, <2>1, <2>3, r \in Readers, Zenon DEF LocalsInv
    <3>2. version_lsa[r] <= pages  BY ONLY <1>3, <1>6, <2>1, <2>3
    <3>. QED  BY ONLY <1>1, <1>2, <1>5, <2>1, <2>2, <3>1, <3>2, Zenon DEF Reader, Looking
  <2>4. CASE log_cs # r
    <3>1. rpc'[r] = rpc[r]  BY ONLY <1>2, <2>1, <2>4, r \in Readers, Zenon DEF LocalsInv
    <3>. QED  BY <1>1, <1>2, <2>1, <2>2, <3>1, ReaderKeeps, Zenon DEF KeyAt
  <2>. QED  BY <2>3, <2>4, Zenon
<1>. QED  BY <1>8, <1>9, <1>10, <1>11, Zenon DEF DrainStep

\* A new drainer, and the reclaimer: a node with a reader in its grace set stays.
LEMMA OthersReader ==
  ASSUME IInv, LogInv', NEW r \in Readers,
         \/ \E d \in Drainers : EnterLogCs(d)
         \/ \E l \in Lsas : Reclaim(l)
  PROVE  Reader(r)'
<1>1. Reader(r) /\ LogInv /\ DrainInv  BY Zenon DEF IInv, ReadersInv
<1>2. UNCHANGED ringVars /\ UNCHANGED <<prior_list, prior_flush_list, pages, inflight_holder>>
  BY OtherFrame, Zenon
<1>3. UNCHANGED readerVars /\ grace' = grace
  BY Zenon DEF EnterLogCs, Reclaim, lifeVars
<1>4. /\ log_cs' = r /\ dpc' # "take" => log_cs = r /\ dpc # "take"
      /\ log_cs' = r => rpc[r] = "drain"
  BY <1>1, Zenon DEF EnterLogCs, Reclaim, drainVars, DrainInv
<1>5. \A l \in retired : l \in retired' \/ grace[l] = {}
  BY Zenon DEF EnterLogCs, Reclaim, lifeVars
<1>6. pages <= pages' /\ LastAppended <= LastAppended'
  BY ONLY <1>1, <1>2 DEF LogInv, LastAppended
<1>7. log_cs = r /\ dpc # "take" => version_lsa[r] <= pages + Len(prior_flush_list)
  BY <1>1, Zenon DEF Reader
<1>8. \A l \in retired : r \in grace[l] => l \in retired'  BY ONLY <1>5, Zenon
<1>. QED  BY <1>1, <1>2, <1>3, <1>4, <1>6, <1>7, <1>8, ReaderKeeps, Zenon DEF readerVars, ringVars, KeyAt

\* A key in the ring is that of the registered node next to it.
LEMMA KeysAreNodes ==
  ASSUME RingInv, NEW s \in Slots, slots[s].start_lsa # NULL_LSA
  PROVE  slots[s].node = slots[s].start_lsa /\ slots[s].node \in inflight_holder
<1>1. CASE \E c \in Staged : s = SlotAt(c)
  <2>. PICK c \in Staged : s = SlotAt(c)  BY <1>1, Zenon
  <2>1. NodeAt(c) \in inflight_holder /\ (KeyAt(c) = NodeAt(c) \/ (c = m_head /\ dpc = "advance"))
    BY Zenon DEF RingInv, OrderInv
  <2>2. ~(c = m_head /\ dpc = "advance")
    BY Zenon DEF RingInv, HeadInv, KeyAt
  <2>. QED  BY <2>1, <2>2, Zenon DEF KeyAt, NodeAt
<1>2. CASE s = SlotAt(m_tail) /\ \E w \in Writers : wpc[w] = "push_tail"
  <2>. PICK w \in Writers : wpc[w] = "push_tail"  BY <1>2, Zenon
  <2>1. NodeAt(m_tail) = wlsa[w] /\ KeyAt(m_tail) = wlsa[w] /\ wlsa[w] \in inflight_holder
    BY Zenon DEF RingInv, TailInv, Pushing
  <2>. QED  BY <1>2, <2>1, Zenon DEF KeyAt, NodeAt
<1>. QED  BY <1>1, <1>2, Zenon DEF RingInv, KeysInv

\* What the steps of a reader leave alone, and what they do to the locals of
\* the others.
LEMMA ReaderFrame ==
  ASSUME NEW q \in Readers, StartRead(q) \/ ReaderStep(q)
  PROVE  /\ UNCHANGED <<prior_lsa, wlsa, slots, m_head, m_tail, prior_list, prior_flush_list, pages, copied_lsa>>
         /\ UNCHANGED <<log_cs, dpc, inflight_holder, retired>>
         /\ grace' = grace \/ grace' = [l \in Lsas |-> grace[l] \ {q}]
         /\ pinned' = pinned \/ pinned' = pinned \cup {q} \/ pinned' = pinned \ {q}
         /\ rpc' = rpc \/ \E a : rpc' = [rpc EXCEPT ![q] = a]
         /\ version_lsa' = version_lsa \/ \E a : version_lsa' = [version_lsa EXCEPT ![q] = a]
         /\ sequence' = sequence \/ \E a : sequence' = [sequence EXCEPT ![q] = a]
         /\ found' = found \/ \E a : found' = [found EXCEPT ![q] = a]
         /\ rpc[q] # "drain"
BY ZenonT(30) DEF StartRead, ReaderStep, Pin, LoadHead, LoadTail, ScanSlot, ScanMiss, LoadNode, Recheck,
     ReadNode, Reload, ReadPage, Goto, Unpin, Forget, Return, writerVars, drainVars, lifeVars, ringVars

\* The steps of another reader: its pin is its own.
LEMMA OtherReader ==
  ASSUME IInv, LogInv', NEW r \in Readers, NEW q \in Readers, q # r, StartRead(q) \/ ReaderStep(q)
  PROVE  Reader(r)'
<1>1. Reader(r) /\ LocalsInv /\ LogInv /\ DrainInv  BY Zenon DEF IInv, ReadersInv
<1>2. UNCHANGED <<slots, prior_list, prior_flush_list, pages, log_cs, dpc, inflight_holder, retired>>
  BY ReaderFrame, Zenon
<1>3. /\ rpc'[r] = rpc[r] /\ version_lsa'[r] = version_lsa[r] /\ sequence'[r] = sequence[r] /\ found'[r] = found[r]
  <2>1. /\ rpc' = rpc \/ \E a : rpc' = [rpc EXCEPT ![q] = a]
        /\ version_lsa' = version_lsa \/ \E a : version_lsa' = [version_lsa EXCEPT ![q] = a]
        /\ sequence' = sequence \/ \E a : sequence' = [sequence EXCEPT ![q] = a]
        /\ found' = found \/ \E a : found' = [found EXCEPT ![q] = a]
    BY ReaderFrame, Zenon
  <2>. QED  BY ONLY <1>1, <2>1, q \in Readers, r \in Readers, q # r, Zenon DEF LocalsInv
<1>4. r \in pinned => r \in pinned'  BY ReaderFrame, Zenon
<1>5. \A l \in Lsas : r \in grace[l] => r \in grace'[l]
  <2>1. grace' = grace \/ grace' = [l \in Lsas |-> grace[l] \ {q}]  BY ReaderFrame, Zenon
  <2>. QED  BY ONLY <2>1, q # r, Zenon
<1>6. pages <= pages' /\ LastAppended <= LastAppended'
  BY ONLY <1>1, <1>2 DEF LogInv, LastAppended
<1>7. /\ log_cs = r /\ dpc # "take" => version_lsa[r] <= pages + Len(prior_flush_list)
      /\ log_cs = r => rpc[r] = "drain"
  BY <1>1, Zenon DEF Reader, DrainInv
<1>8. retired \subseteq Lsas  BY Zenon DEF IInv, LivesInv
<1>. QED  BY <1>1, <1>2, <1>3, <1>4, <1>5, <1>6, <1>7, <1>8, ReaderKeeps, Zenon DEF KeyAt

\* The steps of the reader itself.
LEMMA OwnReader ==
  ASSUME IInv, NEW r \in Readers, StartRead(r) \/ ReaderStep(r)
  PROVE  Reader(r)'
<1>1. Reader(r) /\ LocalsInv /\ LogInv /\ DrainInv /\ RingInv /\ WritersInv  BY Zenon DEF IInv, ReadersInv
<1>2. UNCHANGED <<slots, prior_list, prior_flush_list, pages, log_cs, dpc, inflight_holder, retired>> /\ log_cs # r
  BY <1>1, ReaderFrame, Zenon DEF DrainInv
<1>3. LastAppended' = LastAppended  BY ONLY <1>2, Zenon DEF LastAppended
<1>4. rpc[r] # "idle" => version_lsa[r] \in Lsas /\ version_lsa[r] <= LastAppended  BY <1>1, Zenon DEF Reader
<1>5. rpc[r] \in Looking => r \in pinned  BY <1>1, Zenon DEF Reader
<1>6. pages \in Int /\ LastAppended \in Int /\ copied_lsa \in Int /\ copied_lsa <= pages + 1
  BY <1>1 DEF LogInv, LastAppended, DrainInv
<1>7. CASE StartRead(r)
  <2>1. PICK l \in Appended : version_lsa' = [version_lsa EXCEPT ![r] = l] /\ Goto(r, IF copied_lsa <= l THEN "pin" ELSE "page")
    BY <1>7, Zenon DEF StartRead
  <2>2. l \in Lsas /\ l \in Int /\ l < prior_lsa /\ \A w \in Writers : wlsa[w] # l
    BY LogPriorInflightAssumption DEF Appended, Lsas
  <2>3. l <= LastAppended
    <3>1. prior_lsa \in Int  BY <1>1 DEF WritersInv
    <3>2. CASE prior_lsa_mutex = None
      BY ONLY <1>1, <1>6, <2>2, <3>1, <3>2 DEF LogInv
    <3>3. CASE prior_lsa_mutex # None
      <4>1. prior_lsa - 1 # l  BY ONLY <1>1, <2>2, <3>3, Zenon DEF WritersInv
      <4>. QED  BY ONLY <1>1, <1>6, <2>2, <3>1, <3>3, <4>1 DEF LogInv
    <3>. QED  BY <3>2, <3>3, Zenon
  <2>4. ~(copied_lsa <= l) => l <= pages  BY ONLY <1>6, <2>2
  <2>5. version_lsa'[r] = l /\ rpc'[r] = IF copied_lsa <= l THEN "pin" ELSE "page"
    BY ONLY <1>1, <2>1, r \in Readers, Zenon DEF LocalsInv, Goto
  <2>. QED  BY ONLY <1>2, <1>3, <2>2, <2>3, <2>4, <2>5, Zenon DEF Reader, Looking
<1>8. CASE Pin(r) \/ LoadHead(r) \/ LoadTail(r) \/ ScanSlot(r) \/ ScanMiss(r)
  <2>1. version_lsa' = version_lsa /\ rpc[r] # "idle"
    BY ONLY <1>8, Zenon DEF Pin, LoadHead, LoadTail, ScanSlot, ScanMiss
  <2>2. /\ rpc'[r] \in {"head", "tail", "scan", "node", "reload"}
        /\ rpc'[r] = "reload" \/ r \in pinned'
    BY ONLY <1>1, <1>5, <1>8, r \in Readers, Zenon DEF LocalsInv, Looking, Pin, LoadHead, LoadTail, ScanSlot, ScanMiss, Goto
  <2>. QED  BY ONLY <1>2, <1>3, <1>4, <2>1, <2>2, Zenon DEF Reader, Looking
<1>9. sequence[r] - 1 \in Int /\ SlotAt(sequence[r] - 1) \in Slots
  <2>1. sequence[r] - 1 \in Int  BY ONLY <1>1, r \in Readers DEF LocalsInv
  <2>. QED  BY <2>1, SlotIn, Zenon
<1>10. ASSUME KeyAt(sequence[r] - 1) = version_lsa[r], rpc[r] # "idle"
       PROVE  NodeAt(sequence[r] - 1) = version_lsa[r] /\ version_lsa[r] \in inflight_holder
  <2>1. version_lsa[r] # NULL_LSA  BY ONLY <1>4, <1>10, LogPriorInflightAssumption DEF Lsas, NULL_LSA
  <2>. QED  BY ONLY <1>1, <1>9, <1>10, <2>1, KeysAreNodes, Zenon DEF KeyAt, NodeAt
<1>11. CASE LoadNode(r)
  <2>1. /\ version_lsa' = version_lsa /\ sequence' = sequence /\ pinned' = pinned /\ rpc[r] = "node"
        /\ found' = [found EXCEPT ![r] = slots[SlotAt(sequence[r] - 1)].node] /\ Goto(r, "recheck")
    BY <1>11, Zenon DEF LoadNode
  <2>2. rpc'[r] = "recheck" /\ found'[r] = NodeAt(sequence[r] - 1)
    BY ONLY <1>1, <2>1, r \in Readers, Zenon DEF LocalsInv, Goto, NodeAt
  <2>3. KeyAt(sequence[r] - 1)' = version_lsa'[r] => found'[r] = version_lsa'[r]
    BY ONLY <1>2, <1>10, <2>1, <2>2, Zenon DEF KeyAt
  <2>4. r \in pinned'  BY ONLY <1>5, <2>1, Zenon DEF Looking
  <2>5. rpc[r] # "idle"  BY ONLY <2>1, Zenon
  <2>. QED  BY ONLY <1>2, <1>3, <1>4, <2>1, <2>2, <2>3, <2>4, <2>5, Zenon DEF Reader, Looking
<1>12. CASE Recheck(r)
  <2>1. version_lsa' = version_lsa /\ rpc[r] = "recheck" /\ rpc[r] # "idle"  BY <1>12, Zenon DEF Recheck
  <2>2. CASE KeyAt(sequence[r] - 1) = version_lsa[r]
    <3>1. Goto(r, "read") /\ pinned' = pinned /\ found' = found
      BY <1>12, <2>2, Zenon DEF Recheck, KeyAt
    <3>2. rpc'[r] = "read"  BY ONLY <1>1, <3>1, r \in Readers, Zenon DEF LocalsInv, Goto
    <3>3. found[r] = version_lsa[r]  BY ONLY <1>1, <2>1, <2>2, Zenon DEF Reader
    <3>4. r \in pinned'  BY ONLY <1>5, <2>1, <3>1, Zenon DEF Looking
    <3>5. version_lsa[r] \in inflight_holder  BY ONLY <1>10, <2>1, <2>2, Zenon
    <3>. QED  BY ONLY <1>2, <1>3, <1>4, <2>1, <3>1, <3>2, <3>3, <3>4, <3>5, Zenon DEF Reader, Looking
  <2>3. CASE KeyAt(sequence[r] - 1) # version_lsa[r]
    <3>1. Goto(r, "reload")  BY <1>12, <2>3, Zenon DEF Recheck, KeyAt
    <3>2. rpc'[r] = "reload"  BY ONLY <1>1, <3>1, r \in Readers, Zenon DEF LocalsInv, Goto
    <3>. QED  BY ONLY <1>2, <1>3, <1>4, <2>1, <3>2, Zenon DEF Reader, Looking
  <2>. QED  BY <2>2, <2>3, Zenon
<1>13. CASE Reload(r)
  <2>1. version_lsa' = version_lsa /\ rpc[r] # "idle" /\ Goto(r, IF copied_lsa <= version_lsa[r] THEN "drain" ELSE "page")
    BY <1>13, Zenon DEF Reload
  <2>2. rpc'[r] = IF copied_lsa <= version_lsa[r] THEN "drain" ELSE "page"
    BY ONLY <1>1, <2>1, r \in Readers, Zenon DEF LocalsInv, Goto
  <2>3. ~(copied_lsa <= version_lsa[r]) => version_lsa[r] <= pages
    BY ONLY <1>4, <1>6, <2>1, LogPriorInflightAssumption DEF Lsas
  <2>. QED  BY ONLY <1>2, <1>3, <1>4, <2>1, <2>2, <2>3, Zenon DEF Reader, Looking
<1>14. CASE ReadNode(r) \/ ReadPage(r)
  <2>1. rpc'[r] = "idle"
    BY ONLY <1>1, <1>14, r \in Readers, Zenon DEF LocalsInv, ReadNode, ReadPage, Return, Goto
  <2>. QED  BY ONLY <1>2, <2>1, Zenon DEF Reader, Looking
<1>. QED  BY <1>7, <1>8, <1>11, <1>12, <1>13, <1>14, Zenon DEF ReaderStep
\* The locals keep their types.
LEMMA LocalsStep ==
  ASSUME IInv, [Next]_vars
  PROVE  LocalsInv'
<1>1. LocalsInv  BY Zenon DEF IInv, ReadersInv
<1>2. ASSUME UNCHANGED <<rpc, version_lsa, found, head, sequence>>
      PROVE  LocalsInv'
  BY ONLY <1>1, <1>2, Zenon DEF LocalsInv
<1>3. CASE \E w \in Writers : WriterStep(w)
  BY <1>2, <1>3, WriterFrame, Zenon DEF readerVars
<1>4. CASE DrainStep
  <2>1. version_lsa' = version_lsa /\ head' = head /\ sequence' = sequence /\ found' = found
    BY <1>4, DrainFrame, Zenon
  <2>2. rpc' = rpc \/ (log_cs \in Readers /\ rpc' = [rpc EXCEPT ![log_cs] = "page"])
    BY <1>4, Zenon DEF DrainStep, TakeList, CopyRecord, PublishCopied, Unlink, AdvanceHead, Retire, EndDrain, readerVars
  <2>. QED  BY ONLY <1>1, <2>1, <2>2, Zenon DEF LocalsInv
<1>5. ASSUME NEW r \in Readers, StartRead(r) \/ ReaderStep(r)
      PROVE  LocalsInv'
  <2>1. m_head \in Int /\ m_tail \in Int /\ slots \in [Slots -> [start_lsa : Lsas0, node : Lsas0]] /\ SCAN_LIMIT \in Int
    BY LogPriorInflightAssumption, SMTT(30) DEF IInv, RingInv, TailInv
  <2>2. CASE StartRead(r) \/ Pin(r) \/ ScanMiss(r)
    BY ONLY <1>1, r \in Readers, <2>2 DEF LocalsInv, StartRead, Pin, ScanMiss, Forget, Goto, Appended, Lsas0, Looking, NULL_LSA
  <2>3. CASE LoadHead(r) \/ LoadTail(r) \/ ScanSlot(r)
    BY ONLY <1>1, <2>1, r \in Readers, <2>3 DEF LocalsInv, LoadHead, LoadTail, ScanSlot, Goto, Looking
  <2>4. CASE LoadNode(r)
    <3>1. sequence[r] - 1 \in Int  BY ONLY <1>1, r \in Readers DEF LocalsInv
    <3>2. slots[SlotAt(sequence[r] - 1)].node \in Lsas0  BY <2>1, <3>1, SlotIn, Zenon
    <3>. QED  BY ONLY <1>1, <3>2, r \in Readers, <2>4, Zenon DEF LocalsInv, LoadNode, Goto, Looking
  <2>5. CASE Recheck(r) \/ ReadNode(r) \/ Reload(r) \/ ReadPage(r)
    BY ONLY <1>1, r \in Readers, <2>5, SMTT(30)
    DEF LocalsInv, Recheck, ReadNode, Reload, ReadPage, Return, Forget, Goto, Lsas0, Looking, NULL_LSA
  <2>. QED  BY <1>5, <2>2, <2>3, <2>4, <2>5, Zenon DEF ReaderStep
<1>6. CASE \/ \E d \in Drainers : EnterLogCs(d)
           \/ \E l \in Lsas : Reclaim(l)
           \/ UNCHANGED vars
  BY <1>2, <1>6, Zenon DEF EnterLogCs, Reclaim, vars, readerVars
<1>. QED  BY <1>3, <1>4, <1>5, <1>6, Steps, Zenon

\* The readers, through every step.
LEMMA ReadersStep ==
  ASSUME IInv, [Next]_vars
  PROVE  ReadersInv'
<1>1. LogInv'  BY LogStep, Zenon
<1>2. ASSUME NEW r \in Readers
      PROVE  Reader(r)'
  <2>1. CASE UNCHANGED vars
    <3>1. Reader(r)  BY Zenon DEF IInv, ReadersInv
    <3>. QED  BY <2>1, <3>1, Zenon DEF Reader, KeyAt, LastAppended, vars, drainVars, lifeVars, readerVars, ringVars
  <2>. QED  BY <1>1, <2>1, Steps, WriterReader, DrainReader, OthersReader, OtherReader, OwnReader, Zenon
<1>. QED  BY <1>2, LocalsStep, Zenon DEF ReadersInv

\* The initial state.
LEMMA InitIInv ==
  ASSUME Init
  PROVE  IInv
<1>1. WritersInv
  BY LogPriorInflightAssumption DEF Init, WritersInv, Appending, Lsas0, NULL_LSA
<1>2. LogInv
  BY LogPriorInflightAssumption DEF Init, LogInv, LastAppended
<1>3. DrainInv
  BY LogPriorInflightAssumption DEF Init, DrainInv, Drainers, Handling, Lsas0, NULL_LSA
<1>4. LivesInv
  BY Zenon DEF Init, LivesInv
<1>5. TailInv
  BY LogPriorInflightAssumption DEF Init, TailInv, Slots, Lsas0, NULL_LSA, Pushing
<1>6. Staged = {} /\ dpc = "idle" /\ inflight_holder = {}  BY DEF Init, Staged
<1>7. HeadInv /\ OrderInv /\ HoldersInv  BY ONLY <1>6, Zenon DEF HeadInv, OrderInv, HoldersInv
<1>8. KeysInv  BY Zenon DEF Init, KeysInv, Slots
<1>9. LocalsInv  BY DEF Init, LocalsInv, Lsas0, NULL_LSA
<1>10. \A r \in Readers : rpc[r] = "idle" /\ log_cs # r
  BY LogPriorInflightAssumption, Zenon DEF Init, Drainers
<1>11. ReadersInv  BY ONLY <1>9, <1>10, Zenon DEF ReadersInv, Reader, Looking
<1>. QED  BY <1>1, <1>2, <1>3, <1>4, <1>5, <1>7, <1>8, <1>11, Zenon DEF IInv, RingInv

\* The invariants of the mutex, the log, the drain, the life of a node, the ring
\* and the readers are inductive together.
THEOREM Inductive == Spec => []IInv
<1>1. ASSUME IInv, [Next]_vars PROVE IInv'
  BY <1>1, WritersStep, LogStep, DrainerStep, LivesStep, RingStep, ReadersStep, Zenon DEF IInv
<1>. QED  BY <1>1, InitIInv, PTL DEF Spec

\* A lookup that finds its LSA in the ring, and finds it there again after it
\* has loaded the node, reads the record of that LSA: a slot that was reused
\* between the two loads has another key.  For any number of slots, writers and
\* readers.
THEOREM VersionRead == Spec => []ReadsTheVersionAskedFor
<1>1. IInv => ReadsTheVersionAskedFor
  BY Zenon DEF IInv, ReadersInv, Reader, ReadsTheVersionAskedFor
<1>. QED  BY <1>1, Inductive, PTL

\* The node that log_prior_inflight_lookup returned stays allocated until the
\* reader unpins: a node is retired after its key was cleared, and freed when
\* the readers that were pinned then are gone.
THEOREM FreedNotRead == Spec => []NoReadOfFreedNode
<1>1. IInv => NoReadOfFreedNode
  <2>. SUFFICES ASSUME IInv, NEW r \in Readers, rpc[r] = "read" PROVE found[r] \notin freed
    BY Zenon DEF NoReadOfFreedNode
  <2>1. found[r] \in inflight_holder \cup retired
    BY Zenon DEF IInv, ReadersInv, Reader
  <2>2. \A l \in inflight_holder : pages <= l /\ (l = pages => dpc \in Handling) /\ l \in Int
    BY LogPriorInflightAssumption DEF IInv, LivesInv, Lsas
  <2>3. \A l \in freed : l <= pages /\ (l = pages => dpc \notin Handling)
    BY Zenon DEF IInv, LivesInv
  <2>4. pages \in Int  BY DEF IInv, LogInv
  <2>5. retired \cap freed = {}  BY Zenon DEF IInv, LivesInv
  <2>. QED  BY ONLY <2>1, <2>2, <2>3, <2>4, <2>5
<1>. QED  BY <1>1, Inductive, PTL

\* A reader that turns to the log pages finds the record there, as
\* heap_get_undo_record_for_version asserts: because it was below copied_lsa,
\* or because the reader drained the prior list itself.
THEOREM VersionOnPage == Spec => []PageHasTheVersion
<1>1. IInv => PageHasTheVersion
  BY Zenon DEF IInv, ReadersInv, Reader, PageHasTheVersion
<1>. QED  BY <1>1, Inductive, PTL

\* Between head and tail are the registered nodes of the prior list in log
\* order, at most CAPACITY of them, so the node that a drain unlinks is the one
\* at the head and the fatal error of log_prior_inflight_retire is not reached.
THEOREM RingInOrder == Spec => []RingIsTheRegisteredPriorList
<1>1. ASSUME IInv PROVE RingIsTheRegisteredPriorList
  <2>. DEFINE staged == [k \in 1 .. (m_tail - m_head) |-> slots[SlotAt(m_head + k - 1)].node]
              pushing == {wlsa[w] : w \in {v \in Writers : wpc[v] \in {"push_node", "push_key", "push_tail"}}}
              popped == IF dpc = "retire" THEN {node} ELSE {}
  <2>1. RingInv /\ m_head \in Int /\ m_tail \in Int /\ m_head <= m_tail /\ m_tail <= m_head + CAPACITY /\ CAPACITY \in Int
    BY <1>1, LogPriorInflightAssumption DEF IInv, RingInv, TailInv
  <2>2. m_tail - m_head \in 0 .. CAPACITY  BY ONLY <2>1
  <2>3. \A k \in DOMAIN staged : k \in Int /\ m_head + k - 1 \in Staged /\ staged[k] = NodeAt(m_head + k - 1)
    BY ONLY <2>1 DEF Staged, NodeAt
  <2>4. \A c \in Staged : c \in Int /\ c - m_head + 1 \in DOMAIN staged /\ staged[c - m_head + 1] = NodeAt(c)
    <3>1. \A c \in Staged : c \in Int /\ c - m_head + 1 \in DOMAIN staged /\ m_head + (c - m_head + 1) - 1 = c
      BY ONLY <2>1 DEF Staged
    <3>. QED  BY ONLY <3>1, Zenon DEF NodeAt
  <2>. HIDE DEF staged
  <2>5. inflight_holder = {staged[k] : k \in DOMAIN staged} \cup pushing \cup popped
    <3>1. \A l \in inflight_holder : l \in {staged[k] : k \in DOMAIN staged} \cup pushing \cup popped
      <4>1. \A l \in inflight_holder : \/ \E c \in Staged : NodeAt(c) = l
                                       \/ \E w \in Writers : wpc[w] \in Pushing /\ wlsa[w] = l
                                       \/ dpc = "retire" /\ l = node
        BY ONLY <2>1, Zenon DEF RingInv, HoldersInv
      <4>2. \A c \in Staged : NodeAt(c) \in {staged[k] : k \in DOMAIN staged}
        BY ONLY <2>4, Zenon
      <4>3. \A w \in Writers : wpc[w] \in Pushing => wlsa[w] \in pushing  BY Zenon DEF Pushing
      <4>4. dpc = "retire" => node \in popped  BY Zenon
      <4>. HIDE DEF pushing, popped
      <4>. QED  BY ONLY <4>1, <4>2, <4>3, <4>4, Zenon
    <3>2. \A k \in DOMAIN staged : staged[k] \in inflight_holder
      BY ONLY <2>1, <2>3, Zenon DEF RingInv, OrderInv
    <3>3. \A l \in pushing : l \in inflight_holder
      BY ONLY <2>1, Zenon DEF RingInv, TailInv, Pushing
    <3>4. \A l \in popped : l \in inflight_holder
      BY <1>1, Zenon DEF IInv, DrainInv
    <3>. QED  BY ONLY <3>1, <3>2, <3>3, <3>4, Zenon
  <2>6. \A k, l \in DOMAIN staged : k < l => staged[k] < staged[l]
    <3>1. \A k, l \in DOMAIN staged : k < l => m_head + k - 1 < m_head + l - 1
      BY ONLY <2>1, <2>3
    <3>2. \A c, d \in Staged : c < d => NodeAt(c) < NodeAt(d)  BY ONLY <2>1, Zenon DEF RingInv, OrderInv
    <3>. QED  BY ONLY <2>3, <3>1, <3>2, Zenon
  <2>7. ASSUME dpc = "unlink" PROVE m_head < m_tail /\ NodeAt(m_head) = node
    <3>1. node \in inflight_holder /\ node = pages
      BY <1>1, <2>7, Zenon DEF IInv, DrainInv, Handling
    <3>2. \A w \in Writers : wpc[w] \in Pushing => wlsa[w] # node
      BY <1>1, <2>7, PushedIsNew, Zenon DEF Handling, Appending, Pushing
    <3>3. PICK c \in Staged : NodeAt(c) = node
      BY ONLY <2>1, <2>7, <3>1, <3>2, Zenon DEF RingInv, HoldersInv
    <3>4. m_head \in Staged /\ c \in Int /\ m_head <= c /\ m_head < m_tail
      BY ONLY <2>1, c \in Staged DEF Staged
    <3>5. NodeAt(m_head) \in inflight_holder /\ (m_head < c => NodeAt(m_head) < node)
      BY ONLY <2>1, <3>3, <3>4, Zenon DEF RingInv, OrderInv
    <3>6. \A l \in inflight_holder : l \in Int /\ node <= l
      BY <1>1, <3>1, LogPriorInflightAssumption DEF IInv, LivesInv, Lsas
    <3>7. ~(m_head < c)  BY ONLY <3>1, <3>5, <3>6
    <3>. QED  BY ONLY <2>1, <3>3, <3>4, <3>7
  <2>8. dpc = "unlink" => staged # <<>> /\ Head(staged) = node
    <3>. SUFFICES ASSUME dpc = "unlink" PROVE staged # <<>> /\ Head(staged) = node  BY Zenon
    <3>1. m_head \in Staged /\ m_head - m_head + 1 = 1  BY ONLY <2>1, <2>7, dpc = "unlink" DEF Staged
    <3>2. 1 \in DOMAIN staged /\ staged[1] = node  BY ONLY <2>4, <2>7, <3>1, dpc = "unlink", Zenon
    <3>. QED  BY ONLY <3>2
  <2>. QED  BY ONLY <2>2, <2>5, <2>6, <2>8, Zenon DEF RingIsTheRegisteredPriorList, staged
<1>. QED  BY <1>1, Inductive, PTL
===============================================================================
