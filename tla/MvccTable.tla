------------------------------ MODULE MvccTable ------------------------------
(***************************************************************************)
(* The MVCC table (src/transaction/mvcc_table.cpp): how transactions take  *)
(* snapshots without a lock from a ring of published transaction statuses, *)
(* how completions publish a new status, and how vacuum computes the       *)
(* oldest visible MVCCID, below which it may remove row versions.          *)
(*                                                                         *)
(* An atomic load or store that another thread can observe is a step of    *)
(* its own; code that only the holder of m_active_trans_mutex or only the  *)
(* thread itself can observe is joined to the step before it.  The set of  *)
(* active MVCCIDs (mvcc_active_tran) is kept as the set of ids that are    *)
(* done and the start of the bit area; module MvccActiveTran models it to  *)
(* the bit.                                                                *)
(***************************************************************************)
EXTENDS Integers, Sequences

CONSTANTS
  NTrans,         \* the number of transaction indices
  Readers,        \* those whose statements take snapshots
  Writers,        \* those that are given MVCCIDs
  SubWriters,     \* those that run sub-transactions with ids of their own
  OvLockers,      \* those that lock the oldest visible MVCCID
  Prepared,       \* in-doubt 2PC transactions at restart: index -> MVCCID
  RestartNextId,  \* log_Gl.hdr.mvcc_next_id after the redo phase
  MaxId,          \* bound: the largest MVCCID that is handed out
  HISTORY_MAX_SIZE,
  UNIT_BIT_COUNT

Trans == 1 .. NTrans

MVCCID_NULL == 0
MVCCID_ALL_VISIBLE == 3
MVCCID_FIRST == 4

Min(S) == CHOOSE x \in S : \A y \in S : x <= y
Max(S) == CHOOSE x \in S : \A y \in S : x >= y
Last(s) == s[Len(s)]
Front(s) == SubSeq(s, 1, Len(s) - 1)

PreparedIds == {Prepared[t] : t \in DOMAIN Prepared}

ASSUME MvccTableAssumption ==
  /\ NTrans \in Nat \ {0}
  /\ Readers \subseteq Trans /\ Writers \subseteq Trans
  /\ SubWriters \subseteq Writers /\ OvLockers \subseteq Writers
  /\ DOMAIN Prepared \subseteq Trans
  /\ RestartNextId \in Nat /\ RestartNextId >= MVCCID_FIRST
  /\ \A t \in DOMAIN Prepared : Prepared[t] \in MVCCID_FIRST .. (RestartNextId - 1)
  /\ \A t, u \in DOMAIN Prepared : Prepared[t] = Prepared[u] => t = u
  /\ MaxId \in Nat /\ MaxId >= RestartNextId
  /\ HISTORY_MAX_SIZE \in Nat \ {0, 1}
  /\ UNIT_BIT_COUNT \in Nat \ {0}

VARIABLES
  \* shared state of the table
  mvcc_next_id,
  current,           \* m_current_trans_status: [version, done, start]
  history,           \* m_trans_status_history
  position,          \* m_trans_status_history_position
  lowest_active,     \* m_current_status_lowest_active_mvccid
  lowest_visible,    \* m_transaction_lowest_visible_mvccids
  mutex,             \* the holders of m_active_trans_mutex: none or one
  oldest_visible,    \* m_oldest_visible
  ov_lock_count,     \* m_ov_lock_count
  \* transaction descriptors (tdes->mvccinfo) and locals of their threads
  pc, op, id, sub_ids, snapshot,
  fresh,             \* tx_lowest_active was MVCCID_NULL when the build began
  index, version, low, copied,
  ov_blocked,        \* block_global_oldest_active_until_commit
  threshold,         \* threshold_mvccid of an operation that vacuums itself
  \* the vacuum master in update_global_oldest_visible
  vpc, vlow, vnext, vwaiting,
  \* history variables: completions in order, where a build began in it, the
  \* sub-transactions a snapshot was adjusted for, the id being committed
  order, build_from, own_done, committing

idVars == <<mvcc_next_id, id, sub_ids>>
statusVars == <<current, history, position, mutex>>
ovVars == <<oldest_visible, ov_lock_count, ov_blocked, threshold>>
vacuumVars == <<vpc, vlow, vnext, vwaiting>>
ghostVars == <<order, build_from, own_done, committing>>
vars == <<idVars, statusVars, ovVars, vacuumVars, ghostVars, lowest_active, lowest_visible,
          pc, op, snapshot, fresh, index, version, low, copied>>

Ids == MVCCID_FIRST .. MaxId
Indices == 0 .. (HISTORY_MAX_SIZE - 1)
Assigned == MVCCID_FIRST .. (mvcc_next_id - 1)

(***************************************************************************)
(* The active set.                                                         *)
(***************************************************************************)

\* The number of leading units of the bit area that are all committed.
FullUnits(done, start) ==
  Min({k \in 0 .. MaxId : ~ \A i \in 0 .. (UNIT_BIT_COUNT - 1) : start + k * UNIT_BIT_COUNT + i \in done})

\* set_inactive_mvccid: a bit of the bit area, or a long transaction below it.
SetInactive(s, i) ==
  LET done == s.done \cup {i}
      length == Max(done) + 1 - s.start
  IN [version |-> s.version,
      done |-> done,
      start |-> IF i >= s.start /\ length > UNIT_BIT_COUNT
                  THEN s.start + FullUnits(done, s.start) * UNIT_BIT_COUNT
                  ELSE s.start]

\* A bug: the result is one past the first bit 0.
LowestPlusOne(done) == Min({i \in MVCCID_FIRST .. (MaxId + 1) : i \notin done}) + 1

\* compute_lowest_active_mvccid: the first long transaction or the first bit 0.
LowestActiveOf(done) == Min({i \in MVCCID_FIRST .. (MaxId + 1) : i \notin done})

\* compute_highest_completed_mvccid.
HighestCompletedOf(s) == Max({i \in s.done : i >= s.start} \cup {s.start - 1})

UnitOf(s, i) == (i - s.start) \div UNIT_BIT_COUNT

\* What a copy may hold when a writer is overwriting the entry: each unit of
\* the bit area old or new.  If the writer moves the bit area, anything goes.
TornCopies(old, new) ==
  IF old.start # new.start
    THEN [done : SUBSET Assigned, start : {old.start, new.start}]
    ELSE {[done |-> {i \in new.done : i \in old.done \/ UnitOf(new, i) \in units}, start |-> new.start] :
            units \in SUBSET {UnitOf(new, i) : i \in new.done}}

\* The entry that the holder of the mutex is copying the new status to.
BeingWritten(k) == \E t \in mutex : pc[t] = "copy_to" /\ index[t] = k

\* The outcomes of an unlocked read of entry k.
ReadsOf(k) ==
  IF BeingWritten(k)
    THEN TornCopies(history[k], current)
    ELSE {[done |-> history[k].done, start |-> history[k].start]}

(***************************************************************************)
(* Restart: reset_start_mvccid anchors the active set above every id that  *)
(* redo saw; rv_reactivate_mvccid makes in-doubt ids active again and      *)
(* lowers the watermark to the smallest.                                   *)
(***************************************************************************)
RestartStatus == [version |-> 0,
                  done |-> (MVCCID_FIRST .. (RestartNextId - 1)) \ PreparedIds,
                  start |-> RestartNextId]

NoCopy == [done |-> {}, start |-> MVCCID_FIRST]

NoSnapshot == [valid |-> FALSE, lowest |-> MVCCID_NULL, highest |-> MVCCID_NULL, done |-> {}]

Init ==
  /\ mvcc_next_id = RestartNextId
  /\ current = RestartStatus
  /\ history = [k \in Indices |->
                  IF k = 0 THEN RestartStatus ELSE [version |-> 0, done |-> {}, start |-> MVCCID_FIRST]]
  /\ position = 0
  /\ lowest_active = Min({RestartNextId} \cup PreparedIds)
  /\ lowest_visible = [t \in Trans |-> MVCCID_NULL]
  /\ mutex = {}
  /\ oldest_visible = MVCCID_NULL
  /\ ov_lock_count = 0
  /\ pc = [t \in Trans |-> "run"]
  /\ op = [t \in Trans |-> "none"]
  /\ id = [t \in Trans |-> IF t \in DOMAIN Prepared THEN Prepared[t] ELSE MVCCID_NULL]
  /\ sub_ids = [t \in Trans |-> <<>>]
  /\ snapshot = [t \in Trans |-> NoSnapshot]
  /\ fresh = [t \in Trans |-> FALSE]
  /\ index = [t \in Trans |-> 0]
  /\ version = [t \in Trans |-> 0]
  /\ low = [t \in Trans |-> MVCCID_NULL]
  /\ copied = [t \in Trans |-> NoCopy]
  /\ ov_blocked = [t \in Trans |-> FALSE]
  /\ threshold = [t \in Trans |-> MVCCID_NULL]
  /\ vpc = "idle" /\ vlow = MVCCID_NULL /\ vnext = 1 /\ vwaiting = {}
  /\ order = <<>>
  /\ build_from = [t \in Trans |-> 0]
  /\ own_done = [t \in Trans |-> {}]
  /\ committing = [t \in Trans |-> MVCCID_NULL]

Goto(t, label) == pc' = [pc EXCEPT ![t] = label]

\* The function returns and its locals are gone.
Return(t, label) ==
  /\ Goto(t, label)
  /\ fresh' = [fresh EXCEPT ![t] = FALSE]
  /\ index' = [index EXCEPT ![t] = 0]
  /\ version' = [version EXCEPT ![t] = 0]
  /\ low' = [low EXCEPT ![t] = MVCCID_NULL]
  /\ copied' = [copied EXCEPT ![t] = NoCopy]

(***************************************************************************)
(* Ids (get_new_mvccid, get_two_new_mvccid, both under m_new_mvccid_lock). *)
(***************************************************************************)
GetNewMvccid(t) ==
  /\ pc[t] = "run" /\ t \in Writers /\ id[t] = MVCCID_NULL
  /\ mvcc_next_id <= MaxId
  /\ id' = [id EXCEPT ![t] = mvcc_next_id]
  /\ mvcc_next_id' = mvcc_next_id + 1
  /\ UNCHANGED <<sub_ids, statusVars, ovVars, vacuumVars, ghostVars, lowest_active,
                 lowest_visible, pc, op, snapshot, fresh, index, version, low, copied>>

\* logtb_get_new_subtransaction_mvccid: the main id, if still missing, comes first.
GetNewSubtransactionMvccid(t) ==
  LET main == IF id[t] = MVCCID_NULL THEN mvcc_next_id ELSE id[t]
      sub == IF id[t] = MVCCID_NULL THEN mvcc_next_id + 1 ELSE mvcc_next_id
  IN /\ pc[t] = "run" /\ t \in SubWriters
     /\ sub <= MaxId
     /\ id' = [id EXCEPT ![t] = main]
     /\ sub_ids' = [sub_ids EXCEPT ![t] = Append(@, sub)]
     /\ mvcc_next_id' = sub + 1
     /\ UNCHANGED <<statusVars, ovVars, vacuumVars, ghostVars, lowest_active, lowest_visible,
                    pc, op, snapshot, fresh, index, version, low, copied>>

(***************************************************************************)
(* build_mvcc_info.                                                        *)
(***************************************************************************)

\* A bug: the build never sets the slot.
BuildStartNoSlot(t) ==
  /\ pc[t] = "run" /\ t \in Readers /\ ~snapshot[t].valid
  /\ fresh' = [fresh EXCEPT ![t] = FALSE]
  /\ Goto(t, "load_lowest")
  /\ build_from' = [build_from EXCEPT ![t] = Len(order)]
  /\ UNCHANGED <<idVars, statusVars, ovVars, vacuumVars, order, own_done, committing,
                 lowest_active, lowest_visible, op, snapshot, index, version, low, copied>>

\* logtb_get_mvcc_snapshot builds only when there is no valid snapshot.
BuildStart(t) ==
  /\ pc[t] = "run" /\ t \in Readers /\ ~snapshot[t].valid
  /\ fresh' = [fresh EXCEPT ![t] = lowest_visible[t] = MVCCID_NULL]
  /\ Goto(t, IF lowest_visible[t] = MVCCID_NULL THEN "mark" ELSE "load_lowest")
  /\ build_from' = [build_from EXCEPT ![t] = Len(order)]
  /\ UNCHANGED <<idVars, statusVars, ovVars, vacuumVars, order, own_done, committing,
                 lowest_active, lowest_visible, op, snapshot, index, version, low, copied>>

\* Tell vacuum that this slot is about to be set.
BuildMark(t) ==
  /\ pc[t] = "mark"
  /\ lowest_visible' = [lowest_visible EXCEPT ![t] = MVCCID_ALL_VISIBLE]
  /\ Goto(t, "load_lowest")
  /\ UNCHANGED <<idVars, statusVars, ovVars, vacuumVars, ghostVars, lowest_active, op, snapshot,
                 fresh, index, version, low, copied>>

BuildLoadLowest(t) ==
  /\ pc[t] = "load_lowest"
  /\ low' = [low EXCEPT ![t] = lowest_active]
  /\ Goto(t, IF fresh[t] THEN "store_lowest" ELSE "load_position")
  /\ UNCHANGED <<idVars, statusVars, ovVars, vacuumVars, ghostVars, lowest_active,
                 lowest_visible, op, snapshot, fresh, index, version, copied>>

BuildStoreLowest(t) ==
  /\ pc[t] = "store_lowest"
  /\ lowest_visible' = [lowest_visible EXCEPT ![t] = low[t]]
  /\ Goto(t, "load_position")
  /\ UNCHANGED <<idVars, statusVars, ovVars, vacuumVars, ghostVars, lowest_active, op, snapshot,
                 fresh, index, version, low, copied>>

BuildLoadPosition(t) ==
  /\ pc[t] = "load_position"
  /\ index' = [index EXCEPT ![t] = position]
  /\ Goto(t, "load_version")
  /\ UNCHANGED <<idVars, statusVars, ovVars, vacuumVars, ghostVars, lowest_active,
                 lowest_visible, op, snapshot, fresh, version, low, copied>>

BuildLoadVersion(t) ==
  /\ pc[t] = "load_version"
  /\ version' = [version EXCEPT ![t] = history[index[t]].version]
  /\ Goto(t, "copy_from")
  /\ UNCHANGED <<idVars, statusVars, ovVars, vacuumVars, ghostVars, lowest_active,
                 lowest_visible, op, snapshot, fresh, index, low, copied>>

BuildCopy(t) ==
  /\ pc[t] = "copy_from"
  /\ \E c \in ReadsOf(index[t]) : copied' = [copied EXCEPT ![t] = c]
  /\ Goto(t, "recheck")
  /\ UNCHANGED <<idVars, statusVars, ovVars, vacuumVars, ghostVars, lowest_active,
                 lowest_visible, op, snapshot, fresh, index, version, low>>

\* The version is unchanged: the snapshot is complete.
BuildAccept(t) ==
  /\ pc[t] = "recheck" /\ version[t] = history[index[t]].version
  /\ snapshot' = [snapshot EXCEPT ![t] = [valid |-> TRUE,
                                          lowest |-> low[t],
                                          highest |-> HighestCompletedOf(copied[t]) + 1,
                                          done |-> copied[t].done]]
  /\ own_done' = [own_done EXCEPT ![t] = {}]
  /\ Return(t, "run")
  /\ UNCHANGED <<idVars, statusVars, ovVars, vacuumVars, order, build_from, committing,
                 lowest_active, lowest_visible, op>>

\* The version moved: reset the copied bits and start over.
BuildRetry(t) ==
  /\ pc[t] = "recheck" /\ version[t] # history[index[t]].version
  /\ copied' = [copied EXCEPT ![t] = NoCopy]
  /\ Goto(t, IF fresh[t] THEN "mark" ELSE "load_lowest")
  /\ UNCHANGED <<idVars, statusVars, ovVars, vacuumVars, ghostVars, lowest_active,
                 lowest_visible, op, snapshot, fresh, index, version, low>>

\* logtb_invalidate_snapshot_data: the statement of a READ COMMITTED
\* transaction is over; its slot stays.
InvalidateSnapshot(t) ==
  /\ pc[t] = "run" /\ snapshot[t].valid
  /\ snapshot' = [snapshot EXCEPT ![t] = NoSnapshot]
  /\ own_done' = [own_done EXCEPT ![t] = {}]
  /\ build_from' = [build_from EXCEPT ![t] = 0]
  /\ UNCHANGED <<idVars, statusVars, ovVars, vacuumVars, order, committing, lowest_active,
                 lowest_visible, pc, op, fresh, index, version, low, copied>>

(***************************************************************************)
(* complete_mvcc, complete_sub_mvcc and what surrounds them at the end of  *)
(* a transaction.                                                          *)
(***************************************************************************)

\* A transaction without an id only gives its slot and its snapshot back.
EndReadOnly(t) ==
  /\ pc[t] = "run" /\ id[t] = MVCCID_NULL
  /\ lowest_visible[t] # MVCCID_NULL
  /\ lowest_visible' = [lowest_visible EXCEPT ![t] = MVCCID_NULL]
  /\ snapshot' = [snapshot EXCEPT ![t] = NoSnapshot]
  /\ own_done' = [own_done EXCEPT ![t] = {}]
  /\ build_from' = [build_from EXCEPT ![t] = 0]
  /\ UNCHANGED <<idVars, statusVars, ovVars, vacuumVars, order, committing, lowest_active, pc,
                 op, fresh, index, version, low, copied>>

CompletedId(t) == IF op[t] = "sub" THEN Last(sub_ids[t]) ELSE id[t]

\* Lock, next_trans_status_start and set_inactive_mvccid.
CompleteStart(t, o) ==
  LET next_index == (position + 1) % HISTORY_MAX_SIZE
      next_version == current.version + 1
      i == IF o = "sub" THEN Last(sub_ids[t]) ELSE id[t]
  IN /\ pc[t] = "run" /\ mutex = {} /\ id[t] # MVCCID_NULL
     /\ o = "sub" <=> sub_ids[t] # <<>>
     /\ mutex' = {t}
     /\ op' = [op EXCEPT ![t] = o]
     /\ index' = [index EXCEPT ![t] = next_index]
     /\ version' = [version EXCEPT ![t] = next_version]
     /\ history' = [history EXCEPT ![next_index].version = next_version]
     /\ current' = SetInactive([current EXCEPT !.version = next_version], i)
     /\ Goto(t, "copy_to")
     /\ UNCHANGED <<idVars, position, ovVars, vacuumVars, ghostVars, lowest_active,
                    lowest_visible, snapshot, fresh, low, copied>>

\* A bug: the position moves to the entry before the status is copied to it.
PublishPositionOnly(t) ==
  /\ pc[t] = "copy_to"
  /\ position' = index[t]
  /\ order' = Append(order, CompletedId(t))
  /\ committing' = [committing EXCEPT ![t] = IF op[t] = "commit" THEN id[t] ELSE MVCCID_NULL]
  /\ Goto(t, "slot")
  /\ UNCHANGED <<idVars, current, history, mutex, ovVars, vacuumVars, build_from, own_done,
                 lowest_active, lowest_visible, op, snapshot, fresh, index, version, low,
                 copied>>

\* next_tran_status_finish: the copy ends and the position moves to it.
CompletePublish(t) ==
  /\ pc[t] = "copy_to"
  /\ history' = [history EXCEPT ![index[t]] = [current EXCEPT !.version = version[t]]]
  /\ position' = index[t]
  /\ order' = Append(order, CompletedId(t))
  /\ committing' = [committing EXCEPT ![t] = IF op[t] = "commit" THEN id[t] ELSE MVCCID_NULL]
  /\ Goto(t, "slot")
  /\ UNCHANGED <<idVars, current, mutex, ovVars, vacuumVars, build_from, own_done,
                 lowest_active, lowest_visible, op, snapshot, fresh, index, version, low,
                 copied>>

\* A bug: the slot of a committing transaction is cleared as on abort.
ClearSlotAtCommit(t) ==
  /\ pc[t] = "slot" /\ op[t] \in {"commit", "abort"}
  /\ lowest_visible' = [lowest_visible EXCEPT ![t] = MVCCID_NULL]
  /\ mutex' = {}
  /\ Goto(t, "load_global")
  /\ UNCHANGED <<idVars, current, history, position, ovVars, vacuumVars, ghostVars,
                 lowest_active, op, snapshot, fresh, index, version, low, copied>>

\* Keep the modifications from vacuum up to LOG_COMMIT, then unlock.
CompleteSlot(t) ==
  /\ pc[t] = "slot" /\ op[t] \in {"commit", "abort"}
  /\ lowest_visible' = [lowest_visible EXCEPT ![t] =
       IF op[t] = "abort" THEN MVCCID_NULL
       ELSE IF @ = MVCCID_NULL \/ @ < id[t] THEN id[t] ELSE @]
  /\ mutex' = {}
  /\ Goto(t, "load_global")
  /\ UNCHANGED <<idVars, current, history, position, ovVars, vacuumVars, ghostVars,
                 lowest_active, op, snapshot, fresh, index, version, low, copied>>

\* logtb_complete_sub_mvcc: the parent goes on and sees what its sub-transaction did.
Adjusted(s, sub) ==
  IF s.valid
    THEN [s EXCEPT !.highest = IF sub >= @ THEN sub + 1 ELSE @, !.done = @ \cup {sub}]
    ELSE s

\* complete_sub_mvcc unlocks; logtb_complete_sub_mvcc adjusts its own snapshot.
CompleteSub(t) ==
  LET sub == Last(sub_ids[t])
  IN /\ pc[t] = "slot" /\ op[t] = "sub"
     /\ mutex' = {}
     /\ sub_ids' = [sub_ids EXCEPT ![t] = Front(@)]
     /\ snapshot' = [snapshot EXCEPT ![t] = Adjusted(@, sub)]
     /\ own_done' = [own_done EXCEPT ![t] = IF snapshot[t].valid THEN @ \cup {sub} ELSE @]
     /\ op' = [op EXCEPT ![t] = "none"]
     /\ Return(t, "run")
     /\ UNCHANGED <<mvcc_next_id, id, current, history, position, ovVars, vacuumVars, order,
                    build_from, committing, lowest_active, lowest_visible>>

CompleteLoadGlobal(t) ==
  /\ pc[t] = "load_global"
  /\ low' = [low EXCEPT ![t] = lowest_active]
  /\ Goto(t, "compute")
  /\ UNCHANGED <<idVars, statusVars, ovVars, vacuumVars, ghostVars, lowest_active,
                 lowest_visible, op, snapshot, fresh, index, version, copied>>

\* Recalculate when the completed id was the lowest or lies below the bit area.
CompleteCompute(t) ==
  /\ pc[t] = "compute"
  /\ \E c \in ReadsOf(index[t]) :
       IF low[t] = id[t] \/ id[t] < c.start
         THEN /\ low' = [low EXCEPT ![t] = LowestActiveOf(c.done)]
              /\ Goto(t, "check_version")
         ELSE /\ Goto(t, "reset_info")
              /\ low' = low
  /\ UNCHANGED <<idVars, statusVars, ovVars, vacuumVars, ghostVars, lowest_active,
                 lowest_visible, op, snapshot, fresh, index, version, copied>>

CompleteCheckVersion(t) ==
  /\ pc[t] = "check_version"
  /\ Goto(t, IF history[index[t]].version = version[t] THEN "advance" ELSE "reset_info")
  /\ UNCHANGED <<idVars, statusVars, ovVars, vacuumVars, ghostVars, lowest_active,
                 lowest_visible, op, snapshot, fresh, index, version, low, copied>>

\* A bug: a plain store instead of the compare-and-exchange loop.
AdvanceByStore(t) ==
  /\ pc[t] = "advance"
  /\ lowest_active' = low[t]
  /\ Goto(t, "reset_info")
  /\ UNCHANGED <<idVars, statusVars, ovVars, vacuumVars, ghostVars, lowest_visible, op,
                 snapshot, fresh, index, version, low, copied>>

\* advance_oldest_active: the compare-and-exchange loop never moves it back.
AdvanceOldestActive(t) ==
  /\ pc[t] = "advance"
  /\ lowest_active' = Max({lowest_active, low[t]})
  /\ Goto(t, "reset_info")
  /\ UNCHANGED <<idVars, statusVars, ovVars, vacuumVars, ghostVars, lowest_visible, op,
                 snapshot, fresh, index, version, low, copied>>

\* The rest of logtb_complete_mvcc: mvccinfo.reset.
CompleteResetInfo(t) ==
  /\ pc[t] = "reset_info"
  /\ id' = [id EXCEPT ![t] = MVCCID_NULL]
  /\ snapshot' = [snapshot EXCEPT ![t] = NoSnapshot]
  /\ own_done' = [own_done EXCEPT ![t] = {}]
  /\ build_from' = [build_from EXCEPT ![t] = 0]
  /\ Return(t, "eot")
  /\ UNCHANGED <<mvcc_next_id, sub_ids, statusVars, ovVars, vacuumVars, order, committing,
                 lowest_active, lowest_visible, op>>

\* log_complete: LOG_COMMIT or LOG_ABORT is written, the oldest visible id is
\* unblocked, and a committed transaction's slot is cleared.
LogComplete(t) ==
  /\ pc[t] = "eot"
  /\ ov_lock_count' = ov_lock_count - (IF ov_blocked[t] THEN 1 ELSE 0)
  /\ ov_blocked' = [ov_blocked EXCEPT ![t] = FALSE]
  /\ threshold' = [threshold EXCEPT ![t] = MVCCID_NULL]
  /\ lowest_visible' = [lowest_visible EXCEPT ![t] = IF op[t] = "commit" THEN MVCCID_NULL ELSE @]
  /\ committing' = [committing EXCEPT ![t] = MVCCID_NULL]
  /\ op' = [op EXCEPT ![t] = "none"]
  /\ Goto(t, "run")
  /\ UNCHANGED <<idVars, statusVars, oldest_visible, vacuumVars, order, build_from, own_done,
                 lowest_active, snapshot, fresh, index, version, low, copied>>

(***************************************************************************)
(* log_tdes::lock_global_oldest_visible_mvccid, called by transactions     *)
(* that vacuum a whole heap themselves, and the read that follows it.      *)
(***************************************************************************)
LockOldestVisible(t) ==
  /\ pc[t] = "run" /\ t \in OvLockers /\ id[t] # MVCCID_NULL /\ ~ov_blocked[t]
  /\ ov_lock_count' = ov_lock_count + 1
  /\ ov_blocked' = [ov_blocked EXCEPT ![t] = TRUE]
  /\ Goto(t, "read_threshold")
  /\ UNCHANGED <<idVars, statusVars, oldest_visible, threshold, vacuumVars, ghostVars,
                 lowest_active, lowest_visible, op, snapshot, fresh, index, version, low,
                 copied>>

ReadThreshold(t) ==
  /\ pc[t] = "read_threshold"
  /\ threshold' = [threshold EXCEPT ![t] = oldest_visible]
  /\ Goto(t, "run")
  /\ UNCHANGED <<idVars, statusVars, oldest_visible, ov_lock_count, ov_blocked, vacuumVars,
                 ghostVars, lowest_active, lowest_visible, op, snapshot, fresh, index, version,
                 low, copied>>

(***************************************************************************)
(* The vacuum master: update_global_oldest_visible and                     *)
(* compute_oldest_visible_mvccid.                                          *)
(***************************************************************************)
VacuumStart ==
  /\ vpc = "idle" /\ ov_lock_count = 0
  /\ vlow' = lowest_active
  /\ vnext' = 1
  /\ vpc' = "scan"
  /\ UNCHANGED <<idVars, statusVars, ovVars, vwaiting, ghostVars, lowest_active, lowest_visible,
                 pc, op, snapshot, fresh, index, version, low, copied>>

Lower(i) == vlow' = IF i # MVCCID_NULL /\ i < vlow THEN i ELSE vlow

\* The first pass over the slots; those that are being set are put aside.
VacuumScan ==
  /\ vpc = "scan" /\ vnext \in Trans
  /\ IF lowest_visible[vnext] = MVCCID_ALL_VISIBLE
       THEN vwaiting' = vwaiting \cup {vnext} /\ vlow' = vlow
       ELSE Lower(lowest_visible[vnext]) /\ vwaiting' = vwaiting
  /\ vnext' = vnext + 1
  /\ UNCHANGED <<idVars, statusVars, ovVars, vpc, ghostVars, lowest_active, lowest_visible, pc,
                 op, snapshot, fresh, index, version, low, copied>>

\* The wait loop: a slot put aside is read again once it has been set.
VacuumWait(t) ==
  /\ vpc = "scan" /\ vnext \notin Trans
  /\ t \in vwaiting /\ lowest_visible[t] # MVCCID_ALL_VISIBLE
  /\ Lower(lowest_visible[t])
  /\ vwaiting' = vwaiting \ {t}
  /\ UNCHANGED <<idVars, statusVars, ovVars, vpc, vnext, ghostVars, lowest_active,
                 lowest_visible, pc, op, snapshot, fresh, index, version, low, copied>>

VacuumRecheck ==
  /\ vpc = "scan" /\ vnext \notin Trans /\ vwaiting = {}
  /\ IF ov_lock_count = 0
       THEN vpc' = "store" /\ vlow' = vlow
       ELSE vpc' = "idle" /\ vlow' = MVCCID_NULL
  /\ UNCHANGED <<idVars, statusVars, ovVars, vnext, vwaiting, ghostVars, lowest_active,
                 lowest_visible, pc, op, snapshot, fresh, index, version, low, copied>>

VacuumStore ==
  /\ vpc = "store"
  /\ oldest_visible' = vlow
  /\ vpc' = "idle"
  /\ vlow' = MVCCID_NULL
  /\ UNCHANGED <<idVars, statusVars, ov_lock_count, ov_blocked, threshold, vnext, vwaiting,
                 ghostVars, lowest_active, lowest_visible, pc, op, snapshot, fresh, index,
                 version, low, copied>>

Next ==
  \/ \E t \in Trans :
       \/ GetNewMvccid(t)
       \/ GetNewSubtransactionMvccid(t)
       \/ BuildStart(t)
       \/ BuildMark(t)
       \/ BuildLoadLowest(t)
       \/ BuildStoreLowest(t)
       \/ BuildLoadPosition(t)
       \/ BuildLoadVersion(t)
       \/ BuildCopy(t)
       \/ BuildAccept(t)
       \/ BuildRetry(t)
       \/ InvalidateSnapshot(t)
       \/ EndReadOnly(t)
       \/ \E o \in {"commit", "abort", "sub"} : CompleteStart(t, o)
       \/ CompletePublish(t)
       \/ CompleteSlot(t)
       \/ CompleteSub(t)
       \/ CompleteLoadGlobal(t)
       \/ CompleteCompute(t)
       \/ CompleteCheckVersion(t)
       \/ AdvanceOldestActive(t)
       \/ CompleteResetInfo(t)
       \/ LogComplete(t)
       \/ LockOldestVisible(t)
       \/ ReadThreshold(t)
       \/ VacuumWait(t)
  \/ VacuumStart
  \/ VacuumScan
  \/ VacuumRecheck
  \/ VacuumStore

Spec == Init /\ [][Next]_vars

(***************************************************************************)
(* Properties.                                                             *)
(***************************************************************************)
\* mvcc_is_id_in_snapshot: does the snapshot of t take the id for active?
InSnapshot(t, i) ==
  /\ i >= snapshot[t].lowest
  /\ \/ i >= snapshot[t].highest
     \/ i \notin snapshot[t].done

\* A snapshot that statements of the transaction may still use.
InUse(t) == snapshot[t].valid /\ op[t] \in {"none", "sub"}

\* Vacuum takes a version whose deleter precedes the oldest visible id as
\* invisible to everyone.  So no snapshot in use may take such an id for
\* active, however the scan of the slots interleaves with build_mvcc_info.
VacuumRespectsSnapshots ==
  \A t \in Trans : InUse(t) => \A i \in Ids : i < oldest_visible => ~InSnapshot(t, i)

\* complete_mvcc must keep the modifications of a committed transaction from
\* vacuum up to its LOG_COMMIT record: a crash in between would roll back a
\* transaction whose versions vacuum has already cleaned.
CommitIsLoggedBeforeVacuum ==
  \A t \in Trans : committing[t] # MVCCID_NULL => oldest_visible <= committing[t]

\* No active id, of a transaction or of a sub-transaction, is below the
\* watermark m_current_status_lowest_active_mvccid, although it is computed
\* from history entries outside the mutex.
WatermarkIsBelowActive ==
  \A i \in Ids : i < lowest_active => i \in current.done

\* The assertion of update_global_oldest_visible: the oldest visible MVCCID
\* never goes back, and neither does the watermark.
WatermarksNeverGoBack ==
  [][oldest_visible' >= oldest_visible /\ lowest_active' >= lowest_active]_<<oldest_visible, lowest_active>>

\* The completions in order, the one that is being published included.
Completions ==
  IF \E t \in mutex : pc[t] = "copy_to"
    THEN Append(order, CompletedId(CHOOSE t \in mutex : TRUE))
    ELSE order

\* A snapshot is one point in the order of completions, no older than the
\* start of its build, plus the transaction's own completed sub-transactions.
SnapshotIsAPointInTime ==
  \A t \in Trans : InUse(t) =>
    \E n \in build_from[t] .. Len(Completions) :
      LET then == RestartStatus.done \cup {Completions[k] : k \in 1 .. n}
      IN {i \in Ids : ~InSnapshot(t, i)} = then \cup own_done[t]
=============================================================================
