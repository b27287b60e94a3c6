--------------------------- MODULE LogPriorInflight ---------------------------
(***************************************************************************)
(* The prior list and the in-flight window over it.  Writers stage log     *)
(* records in the prior list under prior_lsa_mutex and publish those with  *)
(* an undo image in a ring.  The holder of LOG_CS drains the list into the *)
(* log pages and takes the records off the ring.  A reader that follows a  *)
(* version chain reads a record from a page if it is copied, else from the *)
(* staged node if the ring has it, and else drains the list itself.        *)
(* (log_prior_inflight_ring.hpp, log_prior_inflight.cpp, and their callers *)
(* in log_append.cpp, log_page_buffer.c, log_manager.c and heap_file.c.)   *)
(*                                                                         *)
(* A record and its node are named by the record's LSA, a number.  Each    *)
(* load or store of the ring is a step, in program order: the memory       *)
(* orders that the ring asks for forbid the other orders that matter.      *)
(* Reclaiming a retired node waits for the readers pinned when it was      *)
(* retired, which is what LockfreeTran shows of the epochs.                *)
(***************************************************************************)
EXTENDS Integers, Sequences, FiniteSets

CONSTANTS
  Writers, Readers, Flusher, None,
  CAPACITY, SCAN_LIMIT,
  MaxLsa    \* bound: the number of log records

Drainers == Readers \cup {Flusher}
Lsas == 1 .. MaxLsa
NULL_LSA == 0

ASSUME LogPriorInflightAssumption ==
  /\ CAPACITY \in Nat \ {0} /\ SCAN_LIMIT \in 1 .. CAPACITY
  /\ MaxLsa \in Nat
  /\ None \notin Writers \cup Drainers /\ Flusher \notin Readers

VARIABLES
  prior_lsa,       \* the LSA of the next record
  prior_lsa_mutex, \* None or the writer that has it
  wpc, prepared,   \* writers: where they are, whether their node has a holder
  wlsa,            \* the LSA of the record being appended
  prior_list,
  table,           \* log_Inflight_table # NULL: the window is up
  slots, m_head, m_tail,
  inflight_holder, \* the nodes that have a holder
  log_cs,          \* None or the drainer that has LOG_CS
  dpc, node,       \* the drain: where it is, the node it works on
  prior_flush_list,
  pages,           \* the last record copied to the log pages
  copied_lsa,
  retired,         \* nodes handed to epoch reclamation
  grace,           \* for each of them, the pinned readers it waits for
  freed,
  rpc, version_lsa, head, sequence, found, pinned

writerVars == <<prior_lsa, prior_lsa_mutex, wpc, prepared, wlsa>>
drainVars == <<log_cs, dpc, node, prior_flush_list, pages, copied_lsa>>
lifeVars == <<inflight_holder, retired, grace, freed>>
readerVars == <<rpc, version_lsa, head, sequence, found, pinned>>
ringVars == <<slots, m_head, m_tail>>
vars == <<writerVars, drainVars, lifeVars, readerVars, ringVars, prior_list, table>>

SlotAt(s) == s % CAPACITY
IsFull == m_tail - m_head >= CAPACITY

\* log_prior_inflight_initialize: the table is built, or the window stays down.
Init ==
  /\ prior_lsa = 1 /\ prior_lsa_mutex = None
  /\ wpc = [w \in Writers |-> "idle"]
  /\ prepared = [w \in Writers |-> FALSE]
  /\ wlsa = [w \in Writers |-> NULL_LSA]
  /\ prior_list = <<>>
  /\ table \in BOOLEAN
  /\ slots = [s \in 0 .. (CAPACITY - 1) |-> [start_lsa |-> NULL_LSA, node |-> NULL_LSA]]
  /\ m_head = 0 /\ m_tail = 0
  /\ inflight_holder = {}
  /\ log_cs = None /\ dpc = "idle" /\ node = NULL_LSA
  /\ prior_flush_list = <<>>
  /\ pages = 0 /\ copied_lsa = 1
  /\ retired = {} /\ grace = [l \in Lsas |-> {}] /\ freed = {}
  /\ rpc = [r \in Readers |-> "idle"]
  /\ version_lsa = [r \in Readers |-> NULL_LSA]
  /\ head = [r \in Readers |-> 0]
  /\ sequence = [r \in Readers |-> 0]
  /\ found = [r \in Readers |-> NULL_LSA]
  /\ pinned = {}

(***************************************************************************)
(* Append path: prior_lsa_next_record_internal.                            *)
(***************************************************************************)

\* log_prior_inflight_prepare, before the mutex.  The node may not be
\* registrable, and the allocation may fail.
Prepare(w) ==
  /\ wpc[w] = "idle"
  /\ wpc' = [wpc EXCEPT ![w] = "lock"]
  /\ \E p \in {FALSE} \cup (IF table /\ ~IsFull THEN {TRUE} ELSE {}) : prepared' = [prepared EXCEPT ![w] = p]
  /\ UNCHANGED <<prior_lsa, prior_lsa_mutex, wlsa, drainVars, lifeVars, readerVars, ringVars, prior_list, table>>

\* A bug: the room that prepare saw is taken for granted.
StartAppendUnchecked(w) ==
  /\ wpc[w] = "lock" /\ prior_lsa_mutex = None /\ prior_lsa <= MaxLsa
  /\ prior_lsa_mutex' = w
  /\ wlsa' = [wlsa EXCEPT ![w] = prior_lsa]
  /\ prior_lsa' = prior_lsa + 1
  /\ inflight_holder' = IF prepared[w] THEN inflight_holder \cup {prior_lsa} ELSE inflight_holder
  /\ wpc' = [wpc EXCEPT ![w] = IF prepared[w] THEN "push_node" ELSE "link"]
  /\ prepared' = [prepared EXCEPT ![w] = FALSE]
  /\ UNCHANGED <<drainVars, retired, grace, freed, readerVars, ringVars, prior_list, table>>

\* The mutex, the LSA, and log_prior_inflight_register up to the push: a
\* prepared node loses its holder if the ring has filled up since.
StartAppend(w) ==
  LET registers == prepared[w] /\ table /\ ~IsFull
  IN /\ wpc[w] = "lock" /\ prior_lsa_mutex = None /\ prior_lsa <= MaxLsa
     /\ prior_lsa_mutex' = w
     /\ wlsa' = [wlsa EXCEPT ![w] = prior_lsa]
     /\ prior_lsa' = prior_lsa + 1
     /\ inflight_holder' = IF registers THEN inflight_holder \cup {prior_lsa} ELSE inflight_holder
     /\ wpc' = [wpc EXCEPT ![w] = IF registers THEN "push_node" ELSE "link"]
     /\ prepared' = [prepared EXCEPT ![w] = FALSE]
     /\ UNCHANGED <<drainVars, retired, grace, freed, readerVars, ringVars, prior_list, table>>

PushNode(w) ==
  /\ wpc[w] = "push_node"
  /\ slots' = [slots EXCEPT ![SlotAt(m_tail)].node = wlsa[w]]
  /\ wpc' = [wpc EXCEPT ![w] = "push_key"]
  /\ UNCHANGED <<prior_lsa, prior_lsa_mutex, prepared, wlsa, drainVars, lifeVars, readerVars, m_head, m_tail,
                 prior_list, table>>

PushKey(w) ==
  /\ wpc[w] = "push_key"
  /\ slots' = [slots EXCEPT ![SlotAt(m_tail)].start_lsa = wlsa[w]]
  /\ wpc' = [wpc EXCEPT ![w] = "push_tail"]
  /\ UNCHANGED <<prior_lsa, prior_lsa_mutex, prepared, wlsa, drainVars, lifeVars, readerVars, m_head, m_tail,
                 prior_list, table>>

PushTail(w) ==
  /\ wpc[w] = "push_tail"
  /\ m_tail' = m_tail + 1
  /\ wpc' = [wpc EXCEPT ![w] = "link"]
  /\ UNCHANGED <<prior_lsa, prior_lsa_mutex, prepared, wlsa, drainVars, lifeVars, readerVars, slots, m_head,
                 prior_list, table>>

\* The node joins the prior list and the mutex is released.
Link(w) ==
  /\ wpc[w] = "link"
  /\ prior_list' = Append(prior_list, wlsa[w])
  /\ prior_lsa_mutex' = None
  /\ wlsa' = [wlsa EXCEPT ![w] = NULL_LSA]
  /\ wpc' = [wpc EXCEPT ![w] = "idle"]
  /\ UNCHANGED <<prior_lsa, prepared, drainVars, lifeVars, readerVars, ringVars, table>>

(***************************************************************************)
(* Drain: logpb_prior_lsa_append_all_list, under LOG_CS.                   *)
(***************************************************************************)
EnterLogCs(d) ==
  /\ log_cs = None
  /\ d \in Readers => rpc[d] = "drain"
  /\ log_cs' = d /\ dpc' = "take"
  /\ UNCHANGED <<writerVars, node, prior_flush_list, pages, copied_lsa, lifeVars, readerVars, ringVars,
                 prior_list, table>>

\* prior_lsa_remove_prior_list, with the mutex.
TakeList ==
  /\ dpc = "take" /\ prior_lsa_mutex = None
  /\ prior_flush_list' = prior_list /\ prior_list' = <<>>
  /\ dpc' = "next"
  /\ UNCHANGED <<writerVars, log_cs, node, pages, copied_lsa, lifeVars, readerVars, ringVars, table>>

\* logpb_append_next_record.
CopyRecord ==
  /\ dpc = "next" /\ prior_flush_list # <<>>
  /\ node' = Head(prior_flush_list)
  /\ prior_flush_list' = Tail(prior_flush_list)
  /\ pages' = node'
  /\ dpc' = "publish"
  /\ UNCHANGED <<writerVars, log_cs, copied_lsa, lifeVars, readerVars, ringVars, prior_list, table>>

\* set_copied_lsa; a node that is not registered is freed at once.
PublishCopied ==
  /\ dpc = "publish"
  /\ copied_lsa' = node + 1
  /\ dpc' = IF node \in inflight_holder THEN "unlink" ELSE "next"
  /\ freed' = IF node \in inflight_holder THEN freed ELSE freed \cup {node}
  /\ UNCHANGED <<writerVars, log_cs, node, prior_flush_list, pages, inflight_holder, retired, grace, readerVars,
                 ringVars, prior_list, table>>

\* pop_if_head: the key is cleared, then the head moves.
Unlink ==
  /\ dpc = "unlink"
  /\ m_head # m_tail /\ slots[SlotAt(m_head)].node = node
  /\ slots' = [slots EXCEPT ![SlotAt(m_head)].start_lsa = NULL_LSA]
  /\ dpc' = "advance"
  /\ UNCHANGED <<writerVars, log_cs, node, prior_flush_list, pages, copied_lsa, lifeVars, readerVars, m_head,
                 m_tail, prior_list, table>>

AdvanceHead ==
  /\ dpc = "advance"
  /\ m_head' = m_head + 1
  /\ dpc' = "retire"
  /\ UNCHANGED <<writerVars, log_cs, node, prior_flush_list, pages, copied_lsa, lifeVars, readerVars, slots,
                 m_tail, prior_list, table>>

\* A bug: the node is freed as if no reader could hold it.
RetireFrees ==
  /\ dpc = "retire"
  /\ inflight_holder' = inflight_holder \ {node}
  /\ freed' = freed \cup {node}
  /\ dpc' = "next"
  /\ UNCHANGED <<writerVars, log_cs, node, prior_flush_list, pages, copied_lsa, retired, grace, readerVars, ringVars,
                 prior_list, table>>

\* log_prior_inflight_retire, after the unlink.
Retire ==
  /\ dpc = "retire"
  /\ inflight_holder' = inflight_holder \ {node}
  /\ retired' = retired \cup {node}
  /\ grace' = [grace EXCEPT ![node] = pinned]
  /\ dpc' = "next"
  /\ UNCHANGED <<writerVars, log_cs, node, prior_flush_list, pages, copied_lsa, freed, readerVars, ringVars,
                 prior_list, table>>

\* The last set_copied_lsa and the end of the critical section.
EndDrain ==
  /\ dpc = "next" /\ prior_flush_list = <<>>
  /\ copied_lsa' = pages + 1
  /\ dpc' = "idle" /\ node' = NULL_LSA /\ log_cs' = None
  /\ rpc' = IF log_cs \in Readers THEN [rpc EXCEPT ![log_cs] = "page"] ELSE rpc
  /\ UNCHANGED <<writerVars, prior_flush_list, pages, lifeVars, version_lsa, head, sequence, found, pinned,
                 ringVars, prior_list, table>>

\* log_prior_inflight_reclaimer::reclaim_run, once no reader is in the way.
Reclaim(l) ==
  /\ l \in retired /\ grace[l] = {}
  /\ retired' = retired \ {l} /\ freed' = freed \cup {l}
  /\ UNCHANGED <<writerVars, drainVars, inflight_holder, grace, readerVars, ringVars, prior_list, table>>

(***************************************************************************)
(* Reader: heap_get_undo_record_for_version.                               *)
(***************************************************************************)

\* The records whose append has returned: a version chain may point to them.
Appended == {l \in Lsas : l < prior_lsa} \ {wlsa[w] : w \in Writers}

Goto(r, label) == rpc' = [rpc EXCEPT ![r] = label]

Unpin(r) ==
  /\ pinned' = pinned \ {r}
  /\ grace' = [l \in Lsas |-> grace[l] \ {r}]

\* The locals of find are gone.
Forget(r) ==
  /\ head' = [head EXCEPT ![r] = 0]
  /\ sequence' = [sequence EXCEPT ![r] = 0]
  /\ found' = [found EXCEPT ![r] = NULL_LSA]

Return(r) ==
  /\ Goto(r, "idle")
  /\ version_lsa' = [version_lsa EXCEPT ![r] = NULL_LSA]

\* A bug: a record at copied_lsa is taken for copied.
StartReadExclusive(r) ==
  /\ rpc[r] = "idle"
  /\ \E l \in Appended :
       /\ version_lsa' = [version_lsa EXCEPT ![r] = l]
       /\ Goto(r, IF copied_lsa < l THEN "pin" ELSE "page")
  /\ UNCHANGED <<writerVars, drainVars, lifeVars, head, sequence, found, pinned, ringVars, prior_list, table>>

\* A record below copied_lsa is on a page.
StartRead(r) ==
  /\ rpc[r] = "idle"
  /\ \E l \in Appended :
       /\ version_lsa' = [version_lsa EXCEPT ![r] = l]
       /\ Goto(r, IF copied_lsa <= l THEN "pin" ELSE "page")
  /\ UNCHANGED <<writerVars, drainVars, lifeVars, head, sequence, found, pinned, ringVars, prior_list, table>>

\* log_prior_inflight_pin_lookup: start_tran, if the window is up.
Pin(r) ==
  /\ rpc[r] = "pin"
  /\ pinned' = IF table THEN pinned \cup {r} ELSE pinned
  /\ Goto(r, IF table THEN "head" ELSE "reload")
  /\ UNCHANGED <<writerVars, drainVars, lifeVars, version_lsa, head, sequence, found, ringVars, prior_list, table>>

\* find: head first, then tail, and not more than SCAN_LIMIT slots.
LoadHead(r) ==
  /\ rpc[r] = "head"
  /\ head' = [head EXCEPT ![r] = m_head]
  /\ Goto(r, "tail")
  /\ UNCHANGED <<writerVars, drainVars, lifeVars, version_lsa, sequence, found, pinned, ringVars, prior_list, table>>

LoadTail(r) ==
  /\ rpc[r] = "tail"
  /\ sequence' = [sequence EXCEPT ![r] = m_tail]
  /\ head' = [head EXCEPT ![r] = IF m_tail - @ > SCAN_LIMIT THEN m_tail - SCAN_LIMIT ELSE @]
  /\ Goto(r, "scan")
  /\ UNCHANGED <<writerVars, drainVars, lifeVars, version_lsa, found, pinned, ringVars, prior_list, table>>

\* One slot, newest first; at the end of the range the lookup has missed.
ScanSlot(r) ==
  /\ rpc[r] = "scan" /\ sequence[r] # head[r]
  /\ IF slots[SlotAt(sequence[r] - 1)].start_lsa = version_lsa[r]
       THEN Goto(r, "node") /\ UNCHANGED sequence
       ELSE sequence' = [sequence EXCEPT ![r] = @ - 1] /\ UNCHANGED rpc
  /\ UNCHANGED <<writerVars, drainVars, lifeVars, version_lsa, head, found, pinned, ringVars, prior_list, table>>

ScanMiss(r) ==
  /\ rpc[r] = "scan" /\ sequence[r] = head[r]
  /\ Unpin(r) /\ Forget(r)
  /\ Goto(r, "reload")
  /\ UNCHANGED <<writerVars, drainVars, inflight_holder, retired, freed, version_lsa, ringVars, prior_list, table>>

LoadNode(r) ==
  /\ rpc[r] = "node"
  /\ found' = [found EXCEPT ![r] = slots[SlotAt(sequence[r] - 1)].node]
  /\ Goto(r, "recheck")
  /\ UNCHANGED <<writerVars, drainVars, lifeVars, version_lsa, head, sequence, pinned, ringVars, prior_list, table>>

\* A bug: the key is not read again.
NoRecheck(r) ==
  /\ rpc[r] = "recheck"
  /\ Goto(r, "read")
  /\ UNCHANGED <<writerVars, drainVars, lifeVars, version_lsa, head, sequence, found, pinned, ringVars,
                 prior_list, table>>

\* The node belongs to the key if the key is still there.
Recheck(r) ==
  /\ rpc[r] = "recheck"
  /\ IF slots[SlotAt(sequence[r] - 1)].start_lsa = version_lsa[r]
       THEN Goto(r, "read") /\ UNCHANGED <<pinned, grace, head, sequence, found>>
       ELSE Goto(r, "reload") /\ Unpin(r) /\ Forget(r)
  /\ UNCHANGED <<writerVars, drainVars, inflight_holder, retired, freed, version_lsa, ringVars, prior_list, table>>

\* log_get_undo_record_from_node, then log_prior_inflight_unpin.
ReadNode(r) ==
  /\ rpc[r] = "read"
  /\ Unpin(r) /\ Forget(r) /\ Return(r)
  /\ UNCHANGED <<writerVars, drainVars, inflight_holder, retired, freed, ringVars, prior_list, table>>

\* A bug: the lookup is repeated until the record is copied.
ReloadRetries(r) ==
  /\ rpc[r] = "reload"
  /\ Goto(r, IF copied_lsa <= version_lsa[r] THEN "pin" ELSE "page")
  /\ UNCHANGED <<writerVars, drainVars, lifeVars, version_lsa, head, sequence, found, pinned, ringVars,
                 prior_list, table>>

\* The watermark is read again before a drain is forced.
Reload(r) ==
  /\ rpc[r] = "reload"
  /\ Goto(r, IF copied_lsa <= version_lsa[r] THEN "drain" ELSE "page")
  /\ UNCHANGED <<writerVars, drainVars, lifeVars, version_lsa, head, sequence, found, pinned, ringVars,
                 prior_list, table>>

\* The record is read from its log page.
ReadPage(r) ==
  /\ rpc[r] = "page"
  /\ Return(r)
  /\ UNCHANGED <<writerVars, drainVars, lifeVars, head, sequence, found, pinned, ringVars, prior_list, table>>

WriterStep(w) ==
  Prepare(w) \/ StartAppend(w) \/ PushNode(w) \/ PushKey(w) \/ PushTail(w) \/ Link(w)

DrainStep ==
  TakeList \/ CopyRecord \/ PublishCopied \/ Unlink \/ AdvanceHead \/ Retire \/ EndDrain

ReaderStep(r) ==
  \/ Pin(r) \/ LoadHead(r) \/ LoadTail(r) \/ ScanSlot(r) \/ ScanMiss(r) \/ LoadNode(r) \/ Recheck(r)
  \/ ReadNode(r) \/ Reload(r) \/ ReadPage(r)

Next ==
  \/ \E w \in Writers : WriterStep(w)
  \/ DrainStep
  \/ \E d \in Drainers : EnterLogCs(d)
  \/ \E l \in Lsas : Reclaim(l)
  \/ \E r \in Readers : StartRead(r) \/ ReaderStep(r)

Spec == Init /\ [][Next]_vars

\* Threads that are running keep running, and LOG_CS is a fair lock.  Writers
\* may stop before they have the mutex.
Fairness ==
  /\ \A w \in Writers : WF_vars(PushNode(w) \/ PushKey(w) \/ PushTail(w) \/ Link(w))
  /\ WF_vars(DrainStep) /\ SF_vars(TakeList)
  /\ \A r \in Readers : WF_vars(ReaderStep(r)) /\ SF_vars(EnterLogCs(r))

FairSpec == Spec /\ Fairness
-------------------------------------------------------------------------------
\* A reader that accepts a node from the ring reads the version it asked for,
\* although the slot may be unlinked and reused between its loads.
ReadsTheVersionAskedFor == \A r \in Readers : rpc[r] = "read" => found[r] = version_lsa[r]

\* The node that a reader is reading is not freed, whatever the drain and the
\* reclaimer do meanwhile.
NoReadOfFreedNode == \A r \in Readers : rpc[r] = "read" => found[r] \notin freed

\* The assert of heap_get_undo_record_for_version: a reader that turns to the
\* log pages, at once, after a miss or after a drain, finds the record there.
PageHasTheVersion == \A r \in Readers : rpc[r] = "page" => version_lsa[r] <= pages

\* The slots between head and tail hold, in order, the nodes that have a
\* holder and are still to be drained: no registered node is without a slot,
\* where the drain would look for it, the ring is never overrun, and the node
\* that the drain retires is the one at the head (the assert and fatal error
\* of log_prior_inflight_retire).
RingIsTheRegisteredPriorList ==
  LET staged == [k \in 1 .. (m_tail - m_head) |-> slots[SlotAt(m_head + k - 1)].node]
      pushing == {wlsa[w] : w \in {v \in Writers : wpc[v] \in {"push_node", "push_key", "push_tail"}}}
      popped == IF dpc = "retire" THEN {node} ELSE {}
  IN /\ m_tail - m_head \in 0 .. CAPACITY
     /\ inflight_holder = {staged[k] : k \in DOMAIN staged} \cup pushing \cup popped
     /\ \A k, l \in DOMAIN staged : k < l => staged[k] < staged[l]
     /\ dpc = "unlink" => staged # <<>> /\ Head(staged) = node

\* Every read of a version ends: the scan is bounded however fast writers
\* append, and a forced drain ends with the record on a page.
ReadsEnd == \A r \in Readers : rpc[r] # "idle" ~> rpc[r] = "idle"
===============================================================================
