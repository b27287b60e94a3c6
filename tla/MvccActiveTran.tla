---------------------------- MODULE MvccActiveTran ----------------------------
(***************************************************************************)
(* The set of active MVCCIDs (src/transaction/mvcc_active_tran.cpp): a     *)
(* bit area of fixed size that slides up as ids complete, and an ordered   *)
(* array of the long transactions that the bit area left behind.  One set  *)
(* is the current status, each entry of the history holds a copy, and each *)
(* snapshot holds a copy that is adjusted for its own sub-transactions.    *)
(*                                                                         *)
(* A set is a record: the id of bit 0, the length in bits, the units of    *)
(* the bit area as sets of bit positions, and the long transactions.       *)
(* Completions run under m_active_trans_mutex, so they are atomic here;    *)
(* MvccTable has the interleavings.  A completion that would fail one of   *)
(* the asserts on the capacity is not a step: PositionIsGuaranteed and     *)
(* LongTransactionsFit say that there is none.                             *)
(***************************************************************************)
EXTENDS Integers, Sequences, FiniteSets, FiniteSetsExt, SequencesExt

CONSTANTS
  Trans,           \* transactions that are given MVCCIDs
  Readers,         \* those of them that take snapshots
  TotalTranIndices,\* logtb_get_number_of_total_tran_indices
  MaxSub,          \* bound: nested sub-transactions
  Prepared,        \* in-doubt 2PC transactions at restart: a sequence of ids
  NextId,          \* log_Gl.hdr.mvcc_next_id at restart
  MaxId,           \* bound: the largest MVCCID that is handed out
  UNIT_BIT_COUNT, BITAREA_MAX_SIZE, BITAREA_SIZE_AFTER_CLEANUP, HISTORY_MAX_SIZE

MVCCID_NULL == 0
MVCCID_FIRST == 4
BITAREA_MAX_BITS == BITAREA_MAX_SIZE * UNIT_BIT_COUNT
LONG_TRAN_THRESHOLD == BITAREA_MAX_BITS - TotalTranIndices
Units == 0 .. (BITAREA_MAX_SIZE - 1)
ALL_ACTIVE == {}
ALL_COMMITTED == 0 .. (UNIT_BIT_COUNT - 1)

ASSUME MvccActiveTranAssumption ==
  /\ Trans \subseteq 1 .. TotalTranIndices /\ Readers \subseteq Trans
  /\ MaxSub \in Nat /\ MaxId \in Nat /\ NextId \in MVCCID_FIRST .. MaxId
  /\ Len(Prepared) <= TotalTranIndices
  /\ \A k \in DOMAIN Prepared : k \in Trans /\ Prepared[k] \in MVCCID_FIRST .. (NextId - 1)
  /\ \A k, l \in DOMAIN Prepared : k < l => Prepared[k] < Prepared[l]
  /\ UNIT_BIT_COUNT \in Nat /\ \E k \in 0 .. 6 : UNIT_BIT_COUNT = 2 ^ k
  /\ BITAREA_SIZE_AFTER_CLEANUP \in 1 .. BITAREA_MAX_SIZE
  /\ LONG_TRAN_THRESHOLD >= BITAREA_SIZE_AFTER_CLEANUP * UNIT_BIT_COUNT
  /\ HISTORY_MAX_SIZE \in Nat \ {0, 1}

VARIABLES
  mvcc_next_id,
  ids,         \* mvccinfo.id and sub_ids of each transaction, in order
  current,     \* m_current_trans_status.m_active_mvccs
  history,     \* m_trans_status_history
  position,    \* m_trans_status_history_position
  snapshot,    \* mvccinfo.snapshot.m_active_mvccs of each reader
  valid        \* the readers whose snapshot is valid

vars == <<mvcc_next_id, ids, current, history, position, snapshot, valid>>

(***************************************************************************)
(* Layout.                                                                 *)
(***************************************************************************)
Initialized == [start |-> MVCCID_FIRST, length |-> 0, area |-> [u \in Units |-> ALL_ACTIVE], long |-> <<>>]

BitOffset(a, i) == i - a.start
AreaSize(a) == (a.length + UNIT_BIT_COUNT - 1) \div UNIT_BIT_COUNT
IsSet(a, p) == p % UNIT_BIT_COUNT \in a.area[p \div UNIT_BIT_COUNT]

\* is_active: above the start by the bit, below it by the long transactions.
IsActive(a, i) ==
  IF i < a.start
    THEN i \in Range(a.long)
    ELSE BitOffset(a, i) < a.length => ~ IsSet(a, BitOffset(a, i))

(***************************************************************************)
(* The two searches halve the unit until one bit is left.                  *)
(***************************************************************************)

\* The position of the highest bit 1 of a unit that is not ALL_ACTIVE.
HighestBit(unit) ==
  LET find[c \in 0 .. UNIT_BIT_COUNT, bits \in SUBSET ALL_COMMITTED] ==
        IF c = 0 THEN 0
        ELSE IF \E b \in bits : b >= c
          THEN c + find[c \div 2, {b - c : b \in {x \in bits : x >= c}}]
          ELSE find[c \div 2, bits]
  IN find[UNIT_BIT_COUNT \div 2, unit]

\* A bug: the search moves up when some bit of the lower half is set.
LowestZeroAnySet(unit) ==
  LET find[c \in 0 .. UNIT_BIT_COUNT, bits \in SUBSET ALL_COMMITTED] ==
        IF c = 0 THEN 0
        ELSE IF \E b \in bits : b < c
          THEN c + find[c \div 2, {b - c : b \in {x \in bits : x >= c}}]
          ELSE find[c \div 2, bits]
  IN find[UNIT_BIT_COUNT \div 2, unit]

\* The position of the lowest bit 0 of a unit that is not ALL_COMMITTED.
LowestZero(unit) ==
  LET find[c \in 0 .. UNIT_BIT_COUNT, bits \in SUBSET ALL_COMMITTED] ==
        IF c = 0 THEN 0
        ELSE IF 0 .. (c - 1) \subseteq bits
          THEN c + find[c \div 2, {b - c : b \in {x \in bits : x >= c}}]
          ELSE find[c \div 2, bits]
  IN find[UNIT_BIT_COUNT \div 2, unit]

ComputeHighestCompleted(a) ==
  LET used == {u \in 0 .. (AreaSize(a) - 1) : a.area[u] # ALL_ACTIVE}
  IN IF used = {}
       THEN a.start - 1
       ELSE a.start + Max(used) * UNIT_BIT_COUNT + HighestBit(a.area[Max(used)])

ComputeLowestActive(a) ==
  LET open == {u \in 0 .. (AreaSize(a) - 1) : a.area[u] # ALL_COMMITTED}
  IN IF a.long # <<>> THEN Head(a.long)
     ELSE IF open = {} THEN a.start + a.length
     ELSE a.start + Min(open) * UNIT_BIT_COUNT + LowestZero(a.area[Min(open)])

(***************************************************************************)
(* Changing a set.                                                         *)
(***************************************************************************)

\* A bug: the units behind the moved ones are not cleared.
LtrimKeepsTail(a, n) ==
  [a EXCEPT !.start = @ + n * UNIT_BIT_COUNT,
            !.length = @ - n * UNIT_BIT_COUNT,
            !.area = [u \in Units |-> IF u < AreaSize(a) - n THEN @[u + n] ELSE @[u]]]

\* ltrim_area: n units leave at the front, the freed ones at the end are cleared.
LtrimArea(a, n) ==
  [a EXCEPT !.start = @ + n * UNIT_BIT_COUNT,
            !.length = @ - n * UNIT_BIT_COUNT,
            !.area = [u \in Units |-> IF u < AreaSize(a) - n THEN @[u + n]
                                      ELSE IF u < AreaSize(a) THEN ALL_ACTIVE ELSE @[u]]]

\* A bug: the active ids of the units that leave are forgotten.
CleanupForgets(a) == LtrimArea(a, AreaSize(a) - BITAREA_SIZE_AFTER_CLEANUP)

\* A bug: every id of the units that leave becomes a long transaction.
CleanupMigratesAll(a) ==
  LET n == AreaSize(a) - BITAREA_SIZE_AFTER_CLEANUP
  IN LtrimArea([a EXCEPT !.long = @ \o [k \in 1 .. (n * UNIT_BIT_COUNT) |-> a.start + k - 1]], n)

\* A bug: one unit more than intended stays.
CleanupKeepsOneMore(a) ==
  LET n == AreaSize(a) - BITAREA_SIZE_AFTER_CLEANUP - 1
      active == {i \in a.start .. (a.start + n * UNIT_BIT_COUNT - 1) : ~ IsSet(a, BitOffset(a, i))}
  IN LtrimArea([a EXCEPT !.long = @ \o SetToSortSeq(active, <)], n)

\* cleanup_migrate_to_long_transations: all but the last units leave, and the
\* active ids among them become long transactions in ascending order.
CleanupMigrate(a) ==
  LET n == AreaSize(a) - BITAREA_SIZE_AFTER_CLEANUP
      active == {i \in a.start .. (a.start + n * UNIT_BIT_COUNT - 1) : ~ IsSet(a, BitOffset(a, i))}
  IN LtrimArea([a EXCEPT !.long = @ \o SetToSortSeq(active, <)], n)

\* The first cleanup of set_bitarea_mvccid.
MakeRoom(a, i) == IF BitOffset(a, i) >= BITAREA_MAX_BITS THEN CleanupMigrate(a) ELSE a

\* The number of leading units that are all committed.
FirstNotAllCommitted(a) ==
  Min({u \in 0 .. (AreaSize(a) - 1) : a.area[u] # ALL_COMMITTED} \cup {AreaSize(a)})

\* set_bitarea_mvccid.
SetBitarea(a, i) ==
  LET room == MakeRoom(a, i)
      p == BitOffset(room, i)
      set == [room EXCEPT !.length = Max({@, p + 1}),
                          !.area[p \div UNIT_BIT_COUNT] = @ \cup {p % UNIT_BIT_COUNT}]
      trimmed == IF set.length > UNIT_BIT_COUNT THEN LtrimArea(set, FirstNotAllCommitted(set)) ELSE set
  IN IF trimmed.length > LONG_TRAN_THRESHOLD THEN CleanupMigrate(trimmed) ELSE trimmed

\* set_inactive_mvccid.
SetInactive(a, i) ==
  IF i < a.start THEN [a EXCEPT !.long = SelectSeq(@, LAMBDA j : j # i)] ELSE SetBitarea(a, i)

\* The first cleanup finds units to remove and makes the bit fit.
HasRoom(a, i) ==
  BitOffset(a, i) >= BITAREA_MAX_BITS =>
    /\ AreaSize(a) >= BITAREA_SIZE_AFTER_CLEANUP
    /\ BitOffset(CleanupMigrate(a), i) < BITAREA_MAX_BITS

\* No long transaction is added to a full array.
LongFits(a, i) == HasRoom(a, i) => Len(SetInactive(a, i).long) <= TotalTranIndices

\* copy_to: the units of the source, then the rest of the destination's
\* units are cleared.
CopyTo(a, dest) ==
  [start |-> a.start, length |-> a.length, long |-> a.long,
   area |-> [u \in Units |-> IF u < AreaSize(a) THEN a.area[u]
                             ELSE IF u < AreaSize(dest) THEN ALL_ACTIVE ELSE dest.area[u]]]

\* reset, at the end of a transaction.
Reset(a) ==
  [start |-> MVCCID_NULL, length |-> 0, long |-> <<>>,
   area |-> [u \in Units |-> IF u < AreaSize(a) THEN ALL_ACTIVE ELSE a.area[u]]]

(***************************************************************************)
(* The callers.                                                            *)
(***************************************************************************)

\* After reset_start_mvccid, and rv_reactivate_mvccid of each in-doubt id.
Restarted == [Initialized EXCEPT !.start = NextId, !.long = Prepared]

Init ==
  /\ mvcc_next_id = NextId
  /\ ids = [t \in Trans |-> IF t \in DOMAIN Prepared THEN <<Prepared[t]>> ELSE <<>>]
  /\ current = Restarted
  /\ history = [k \in 0 .. (HISTORY_MAX_SIZE - 1) |-> IF k = 0 THEN Restarted ELSE Initialized]
  /\ position = 0
  /\ snapshot = [t \in Readers |-> Initialized]
  /\ valid = {}

\* A transaction that has no id gets one.
GetNewMvccid(t) ==
  /\ mvcc_next_id <= MaxId
  /\ ids[t] = <<>>
  /\ mvcc_next_id' = mvcc_next_id + 1
  /\ ids' = [ids EXCEPT ![t] = <<mvcc_next_id>>]
  /\ UNCHANGED <<current, history, position, snapshot, valid>>

\* A sub-transaction gets an id, and its transaction one before it if needed.
GetNewSubtransactionMvccid(t) ==
  LET n == IF ids[t] = <<>> THEN 2 ELSE 1
  IN /\ Len(ids[t]) + n <= MaxSub + 1
     /\ mvcc_next_id + n - 1 <= MaxId
     /\ mvcc_next_id' = mvcc_next_id + n
     /\ ids' = [ids EXCEPT ![t] = @ \o [k \in 1 .. n |-> mvcc_next_id + k - 1]]
     /\ UNCHANGED <<current, history, position, snapshot, valid>>

\* The id leaves the current status, which is copied to the next history entry.
SetCurrent(i) ==
  LET next_index == (position + 1) % HISTORY_MAX_SIZE
  IN /\ HasRoom(current, i) /\ LongFits(current, i)
     /\ current' = SetInactive(current, i)
     /\ history' = [history EXCEPT ![next_index] = CopyTo(current', @)]
     /\ position' = next_index

\* logtb_complete_mvcc: the transaction ends and its snapshot is reset.
CompleteMvcc(t) ==
  /\ Len(ids[t]) = 1
  /\ SetCurrent(Head(ids[t]))
  /\ ids' = [ids EXCEPT ![t] = <<>>]
  /\ snapshot' = IF t \in Readers THEN [snapshot EXCEPT ![t] = Reset(@)] ELSE snapshot
  /\ valid' = valid \ {t}
  /\ UNCHANGED mvcc_next_id

\* A bug: the snapshot is not adjusted.
CompleteSubOnlyCurrent(t) ==
  /\ Len(ids[t]) > 1
  /\ SetCurrent(Last(ids[t]))
  /\ ids' = [ids EXCEPT ![t] = Front(@)]
  /\ UNCHANGED <<mvcc_next_id, snapshot, valid>>

\* logtb_complete_sub_mvcc: a valid snapshot of the parent is adjusted.
CompleteSubMvcc(t) ==
  LET i == Last(ids[t])
  IN /\ Len(ids[t]) > 1
     /\ SetCurrent(i)
     /\ ids' = [ids EXCEPT ![t] = Front(@)]
     /\ t \in valid => HasRoom(snapshot[t], i) /\ LongFits(snapshot[t], i)
     /\ snapshot' = IF t \in valid THEN [snapshot EXCEPT ![t] = SetInactive(@, i)] ELSE snapshot
     /\ UNCHANGED <<mvcc_next_id, valid>>

\* build_mvcc_info copies the published status.
BuildMvccInfo(t) ==
  /\ t \in Readers \ valid
  /\ snapshot' = [snapshot EXCEPT ![t] = CopyTo(history[position], @)]
  /\ valid' = valid \cup {t}
  /\ UNCHANGED <<mvcc_next_id, ids, current, history, position>>

\* logtb_invalidate_snapshot_data: the set is left as it is.
InvalidateSnapshot(t) ==
  /\ t \in valid
  /\ valid' = valid \ {t}
  /\ UNCHANGED <<mvcc_next_id, ids, current, history, position, snapshot>>

\* logtb_complete_mvcc of a transaction without an id.
EndReadOnly(t) ==
  /\ t \in Readers /\ ids[t] = <<>>
  /\ snapshot[t] # Reset(snapshot[t])
  /\ snapshot' = [snapshot EXCEPT ![t] = Reset(@)]
  /\ valid' = valid \ {t}
  /\ UNCHANGED <<mvcc_next_id, ids, current, history, position>>

Next ==
  \E t \in Trans :
    \/ GetNewMvccid(t)
    \/ GetNewSubtransactionMvccid(t)
    \/ CompleteMvcc(t)
    \/ CompleteSubMvcc(t)
    \/ BuildMvccInfo(t)
    \/ InvalidateSnapshot(t)
    \/ EndReadOnly(t)

Spec == Init /\ [][Next]_vars
-------------------------------------------------------------------------------
AllSets == {current} \cup Range(history) \cup Range(snapshot)

\* What check_valid demands of every set at every time, stale history entries
\* and snapshots that were overwritten many times included: no bit is set
\* beyond the length, the bit before the length is set (the area is as short
\* as it can be), and the long transactions are ordered and below the area.
LayoutIsValid ==
  \A a \in AllSets :
    /\ \A u \in Units, b \in ALL_COMMITTED : b \in a.area[u] => u * UNIT_BIT_COUNT + b < a.length
    /\ a.length > 0 => IsSet(a, a.length - 1)
    /\ \A k \in DOMAIN a.long : a.long[k] < a.start /\ (k > 1 => a.long[k - 1] < a.long[k])

\* The calls of set_inactive_mvccid that completions would make now.
Calls ==
  LET Holding(n) == {t \in Trans : Len(ids[t]) > n}
  IN {<<current, Last(ids[t])>> : t \in Holding(0)}
       \cup {<<snapshot[t], Last(ids[t])>> : t \in valid \cap Holding(1)}

\* The assert of set_bitarea_mvccid, "is this a guaranteed?": whichever
\* transaction completes next, its bit fits in the area once the first
\* cleanup has run, in the current status and in its own snapshot.
PositionIsGuaranteed == \A c \in Calls : HasRoom(c[1], c[2])

\* The assert of add_long_transaction: whichever transaction completes next,
\* the array of long transactions, which has one place for each transaction
\* index, has room for the ids that leave the bit area.
LongTransactionsFit == \A c \in Calls : LongFits(c[1], c[2])

\* The halving searches over trimmed and migrated areas find the least active
\* id, which becomes the watermark, and an upper bound of the completed ids
\* that is itself the highest completed one unless the whole area is active.
SearchesAreExact ==
  \A a \in {current, history[position]} \cup {snapshot[t] : t \in valid} :
    /\ ComputeLowestActive(a) = Min({i \in MVCCID_FIRST .. (MaxId + 1) : IsActive(a, i)})
    /\ LET completed == {i \in a.start .. MaxId : ~ IsActive(a, i)}
       IN ComputeHighestCompleted(a) = Max(completed \cup {a.start - 1})

Done(a) == {i \in MVCCID_FIRST .. (mvcc_next_id - 1) : ~ IsActive(a, i)}

IdSet == INSTANCE MvccIdSet WITH
  FirstId <- MVCCID_FIRST,
  next <- mvcc_next_id,
  held <- ids,
  done <- Done(history[position]),
  seen <- [t \in Trans |-> IF t \in valid THEN {Done(snapshot[t])} ELSE {}]

\* The published status and the snapshots implement a plain set of ids:
\* sliding, trimming, migrating and copying over stale entries never lose an
\* active id, never revive a completed one, and a snapshot does not change
\* but for its own sub-transactions.
ImplementsIdSet == IdSet!Spec
===============================================================================
