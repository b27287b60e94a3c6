------------------------- MODULE MvccSnapshotProofs -------------------------
(***************************************************************************)
(* The snapshots of MvccTable are points in the order of completions.  The *)
(* invariant says what the history holds: the n-th completion is published *)
(* in entry n modulo the size of the ring, and an entry that nobody is     *)
(* writing has the ids that are done after the completions its version     *)
(* counts.  A build is then followed from step to step: the lowest active  *)
(* id it has loaded, the entry, the version and the copy all belong to     *)
(* completions no earlier than the start of the build.                     *)
(***************************************************************************)
EXTENDS MvccTableProofs

\* The ids that are done after the first n of the completions in s.
DoneIn(s, n) == RestartStatus.done \cup {s[k] : k \in {j \in 1 .. Len(s) : j <= n}}
Published == DoneIn(order, Len(order))

\* Every id below n is in D.
AllBelow(n, D) == \A i \in Ids : i < n => i \in D

OrderTypes ==
  /\ order \in Seq(Ids) /\ build_from \in [Trans -> Nat] /\ own_done \in [Trans -> SUBSET Ids]

\* A sub-transaction has a parent with an id, which was handed out before its own.
SubInv ==
  \A t \in Trans :
    /\ op[t] \in {"commit", "abort"} => sub_ids[t] = <<>>
    /\ \A i \in Members(sub_ids[t]) : id[t] # MVCCID_NULL /\ id[t] < i

Copying(h) == h \in mutex /\ pc[h] = "copy_to"

\* The status under the mutex is what is published, and the id that is being published.
CurrentInv ==
  /\ (\A h \in Trans : ~Copying(h)) => current.done = Published /\ current.version = Len(order)
  /\ \A h \in Trans : Copying(h) =>
       current.done = Published \cup {CompletedId(h)} /\ current.version = Len(order) + 1

\* The n-th completion is published in entry n modulo the size of the ring.
PositionInv ==
  /\ position = Len(order) % HISTORY_MAX_SIZE
  /\ \A h \in Trans : Copying(h) => index[h] = (Len(order) + 1) % HISTORY_MAX_SIZE
  /\ history[position].version = Len(order)

\* An entry that nobody is writing has the status of its version.  (Those not
\* used since the restart have version 0, like the first.)
RingInv ==
  \A k \in Indices : ~BeingWritten(k) =>
    /\ history[k].version <= Len(order)
    /\ history[k].version # 0 \/ k = 0 => history[k].done = DoneIn(order, history[k].version)

\* The status of version n is one that the build of thread t may return.
Good(t, n) == build_from[t] <= n /\ (n # 0 \/ index[t] = 0) /\ AllBelow(low[t], DoneIn(order, n))

\* The build of a snapshot, step by step.
BuildInv(t) ==
  /\ build_from[t] <= Len(order)
  /\ pc[t] \in {"store_lowest", "load_position"} => AllBelow(low[t], Published)
  /\ pc[t] \in {"load_version", "copy_from", "recheck"} => Good(t, history[index[t]].version)
  /\ pc[t] = "load_version" =>
       \E n \in build_from[t] .. Len(order) : index[t] = n % HISTORY_MAX_SIZE
  /\ pc[t] \in {"copy_from", "recheck"} =>
       /\ Good(t, version[t]) /\ version[t] <= Len(order)
       /\ version[t] = history[index[t]].version => ~BeingWritten(index[t])
  /\ pc[t] = "recheck" /\ version[t] = history[index[t]].version =>
       copied[t].done = DoneIn(order, version[t])

\* A snapshot in use is the status of a version, and the sub-transactions it was adjusted for.
SnapshotInv(t) ==
  InUse(t) => \E n \in build_from[t] .. Len(order) :
    /\ snapshot[t].done = DoneIn(order, n) \cup own_done[t]
    /\ AllBelow(snapshot[t].lowest, DoneIn(order, n))
    /\ \A i \in snapshot[t].done : i < snapshot[t].highest

PInv ==
  /\ OrderTypes /\ SubInv /\ CurrentInv /\ PositionInv /\ RingInv
  /\ \A t \in Trans : BuildInv(t) /\ SnapshotInv(t)

\* From the start of a build of a snapshot to its load of the version at line 299
\* of mvcc_table.cpp, fewer transactions complete than the history has entries.
BuildsAreShort ==
  \A t \in Trans : pc[t] = "load_version" => Len(Completions) - build_from[t] < HISTORY_MAX_SIZE
-----------------------------------------------------------------------------
\* The size of the ring.
LEMMA RingSize == HISTORY_MAX_SIZE \in Nat /\ HISTORY_MAX_SIZE >= 2
  BY MvccTableAssumption

\* A quotient and a remainder that fit are the ones % computes.
LEMMA Remainder ==
  ASSUME NEW a \in Int, NEW c \in Int, c > 0, NEW q \in Int, NEW r \in Int,
         a = c * q + r, r >= 0, r < c
  PROVE  r = a % c
  BY Z3T(30)

\* Numbers with one remainder, less than the divisor apart, are the same.
LEMMA SameEntry ==
  ASSUME NEW a \in Int, NEW b \in Int, a <= b, NEW c \in Int, c > 0, b - a < c, a % c = b % c
  PROVE  a = b
<1>1. PICK q \in Int : a = c * q + (a % c)
  <2>1. a \div c \in Int /\ a = c * (a \div c) + (a % c)  BY Z3T(30)
  <2>. QED  BY ONLY <2>1, Zenon
<1>2. PICK p \in Int : b = c * p + (b % c)
  <2>1. b \div c \in Int /\ b = c * (b \div c) + (b % c)  BY Z3T(30)
  <2>. QED  BY ONLY <2>1, Zenon
<1>3. PICK r \in Int : r = a % c /\ r = b % c
  <2>1. a % c \in Int  BY Z3T(30)
  <2>. QED  BY <2>1, Zenon
<1>4. a = c * q + r /\ b = c * p + r  BY <1>1, <1>2, <1>3, Zenon
<1>5. c * (p - q) = b - a  BY ONLY <1>1, <1>2, <1>3, <1>4, a \in Int, b \in Int, c \in Int
<1>6. CASE p > q
  <2>1. c * (p - q) >= c  BY ONLY <1>1, <1>2, <1>6, c \in Int, c > 0
  <2>. QED  BY ONLY <1>5, <2>1, b - a < c, a \in Int, b \in Int, c \in Int
<1>7. CASE p <= q
  <2>1. c * (q - p) >= 0  BY ONLY <1>1, <1>2, <1>7, c \in Int, c > 0
  <2>. QED  BY ONLY <1>1, <1>2, <1>5, <2>1, a <= b, a \in Int, b \in Int, c \in Int
<1>. QED  BY ONLY <1>1, <1>2, <1>6, <1>7

\* next_trans_status_start takes the entry after the one of the position.
LEMMA NextEntry ==
  ASSUME NEW n \in Nat, NEW p, p = n % HISTORY_MAX_SIZE
  PROVE  /\ (p + 1) % HISTORY_MAX_SIZE = (n + 1) % HISTORY_MAX_SIZE
         /\ (n + 1) % HISTORY_MAX_SIZE # p
<1>. DEFINE H == HISTORY_MAX_SIZE
<1>0. H \in Nat /\ H >= 2 /\ H \in Int /\ H > 0 /\ n \in Int /\ n + 1 \in Int /\ n \in Nat
  BY RingSize
<1>. HIDE DEF H
<1>1. p \in Int /\ p >= 0 /\ p < H /\ n \div H \in Int /\ n = H * (n \div H) + p
  <2>1. p = n % H  BY DEF H
  <2>. QED  BY ONLY <1>0, <2>1, Z3T(30)
<1>2. PICK q \in Int : n = H * q + p  BY ONLY <1>1, Zenon
<1>3. CASE p + 1 < H
  <2>1. n + 1 = H * q + (p + 1)  BY ONLY <1>0, <1>1, <1>2
  <2>2. p + 1 = (n + 1) % H
    <3>1. p + 1 \in Int /\ p + 1 >= 0  BY ONLY <1>1
    <3>. QED  BY ONLY <1>0, <1>2, <1>3, <2>1, <3>1, Remainder, Zenon
  <2>3. p + 1 = (p + 1) % H
    <3>1. p + 1 \in Int /\ p + 1 >= 0 /\ 0 \in Int /\ p + 1 = H * 0 + (p + 1)  BY ONLY <1>0, <1>1
    <3>. QED  BY ONLY <1>0, <1>3, <3>1, Remainder, Zenon
  <2>. QED  BY ONLY <2>2, <2>3, <1>1 DEF H
<1>4. CASE p + 1 = H
  <2>1. PICK q1 \in Int : q1 = q + 1  BY <1>2
  <2>2. n + 1 = H * q1 + 0  BY ONLY <1>0, <1>1, <1>2, <1>4, <2>1
  <2>3. 0 = (n + 1) % H
    <3>1. 0 \in Int /\ 0 >= 0 /\ 0 < H  BY ONLY <1>0
    <3>. QED  BY ONLY <1>0, <2>1, <2>2, <3>1, Remainder, Zenon
  <2>4. 0 = H % H
    <3>1. 0 \in Int /\ 0 >= 0 /\ 0 < H /\ 1 \in Int /\ H = H * 1 + 0  BY ONLY <1>0
    <3>. QED  BY ONLY <1>0, <3>1, Remainder, Zenon
  <2>5. 0 # p  BY ONLY <1>0, <1>1, <1>4
  <2>. QED  BY ONLY <1>4, <2>3, <2>4, <2>5, Zenon DEF H
<1>. QED  BY ONLY <1>0, <1>1, <1>3, <1>4

\* What one more completion adds.
LEMMA DoneAppend ==
  ASSUME NEW s \in Seq(Ids), NEW e \in Ids
  PROVE  /\ Append(s, e) \in Seq(Ids) /\ Len(s) \in Nat /\ Len(Append(s, e)) = Len(s) + 1
         /\ \A n \in 0 .. Len(s) : DoneIn(Append(s, e), n) = DoneIn(s, n)
         /\ DoneIn(Append(s, e), Len(s) + 1) = DoneIn(s, Len(s)) \cup {e}
<1>. DEFINE a == Append(s, e)
<1>1. /\ a \in Seq(Ids) /\ Len(s) \in Nat /\ Len(a) = Len(s) + 1 /\ a[Len(s) + 1] = e
      /\ \A j \in 1 .. Len(s) : a[j] = s[j]
  OBVIOUS
<1>. HIDE DEF a
<1>2. ASSUME NEW n \in 0 .. Len(s) PROVE DoneIn(a, n) = DoneIn(s, n)
  <2>1. {j \in 1 .. Len(a) : j <= n} = {j \in 1 .. Len(s) : j <= n}  BY ONLY <1>1, <1>2
  <2>2. \A k \in {j \in 1 .. Len(s) : j <= n} : a[k] = s[k]  BY ONLY <1>1, Zenon
  <2>. QED  BY ONLY <2>1, <2>2, Zenon DEF DoneIn
<1>3. DoneIn(a, Len(s) + 1) = DoneIn(s, Len(s)) \cup {e}
  <2>1. {j \in 1 .. Len(a) : j <= Len(s) + 1} = {j \in 1 .. Len(s) : j <= Len(s)} \cup {Len(s) + 1}
    BY ONLY <1>1
  <2>2. \A k \in {j \in 1 .. Len(s) : j <= Len(s)} : a[k] = s[k]  BY ONLY <1>1, Zenon
  <2>3. {a[k] : k \in {j \in 1 .. Len(s) : j <= Len(s)} \cup {Len(s) + 1}}
          = {s[k] : k \in {j \in 1 .. Len(s) : j <= Len(s)}} \cup {e}
    BY ONLY <1>1, <2>2, Zenon
  <2>. QED  BY ONLY <2>1, <2>3, Zenon DEF DoneIn
<1>. QED  BY <1>1, <1>2, <1>3, Zenon DEF a

\* What is done stays done, from version to version.
LEMMA DoneGrows ==
  ASSUME NEW s \in Seq(Ids), NEW n \in Nat
  PROVE  /\ DoneIn(s, n) \subseteq DoneIn(s, Len(s))
         /\ \A m \in Nat : m <= n => DoneIn(s, m) \subseteq DoneIn(s, n)
         /\ DoneIn(s, Len(s) + 1) = DoneIn(s, Len(s))
<1>1. {j \in 1 .. Len(s) : j <= n} \subseteq {j \in 1 .. Len(s) : j <= Len(s)}  OBVIOUS
<1>2. \A m \in Nat : m <= n => {j \in 1 .. Len(s) : j <= m} \subseteq {j \in 1 .. Len(s) : j <= n}
  OBVIOUS
<1>3. {j \in 1 .. Len(s) : j <= Len(s) + 1} = {j \in 1 .. Len(s) : j <= Len(s)}  OBVIOUS
<1>. QED  BY ONLY <1>1, <1>2, <1>3, Zenon DEF DoneIn
-----------------------------------------------------------------------------
\* What else a step leaves alone of thread u.
SameBuild(u) == copied'[u] = copied[u] /\ build_from'[u] = build_from[u] /\ own_done'[u] = own_done[u]

\* A thread changes nothing of the build of another thread.
LEMMA BuildFrame ==
  ASSUME TypeInv, OrderTypes, NEW t \in Trans, ThreadStep(t), NEW u \in Trans, u # t
  PROVE  SameBuild(u)
<1>0. /\ copied \in [Trans -> [done : SUBSET Ids, start : Nat \ {0}]]
      /\ build_from \in [Trans -> Nat] /\ own_done \in [Trans -> SUBSET Ids]
      /\ u \in Trans /\ u # t
  BY Zenon DEF TypeInv, OrderTypes
<1>1. CASE GetNewMvccid(t)
  BY ONLY <1>0, <1>1, ExceptOther, Zenon DEF GetNewMvccid, SameBuild, ghostVars
<1>2. CASE GetNewSubtransactionMvccid(t)
  BY ONLY <1>0, <1>2, ExceptOther, Zenon DEF GetNewSubtransactionMvccid, SameBuild, ghostVars
<1>3. CASE BuildStart(t)
  BY ONLY <1>0, <1>3, ExceptOther, Zenon DEF BuildStart, Goto, SameBuild, ghostVars
<1>4. CASE BuildMark(t)
  BY ONLY <1>0, <1>4, ExceptOther, Zenon DEF BuildMark, Goto, SameBuild, ghostVars
<1>5. CASE BuildLoadLowest(t)
  BY ONLY <1>0, <1>5, ExceptOther, Zenon DEF BuildLoadLowest, Goto, SameBuild, ghostVars
<1>6. CASE BuildStoreLowest(t)
  BY ONLY <1>0, <1>6, ExceptOther, Zenon DEF BuildStoreLowest, Goto, SameBuild, ghostVars
<1>7. CASE BuildLoadPosition(t)
  BY ONLY <1>0, <1>7, ExceptOther, Zenon DEF BuildLoadPosition, Goto, SameBuild, ghostVars
<1>8. CASE BuildLoadVersion(t)
  BY ONLY <1>0, <1>8, ExceptOther, Zenon DEF BuildLoadVersion, Goto, SameBuild, ghostVars
<1>9. CASE BuildCopy(t)
  BY ONLY <1>0, <1>9, ExceptOther, Zenon DEF BuildCopy, Goto, SameBuild, ghostVars
<1>10. CASE BuildAccept(t)
  BY ONLY <1>0, <1>10, ExceptOther, Zenon DEF BuildAccept, Return, Goto, SameBuild, ghostVars
<1>11. CASE BuildRetry(t)
  BY ONLY <1>0, <1>11, ExceptOther, Zenon DEF BuildRetry, Goto, SameBuild, ghostVars
<1>12. CASE InvalidateSnapshot(t)
  BY ONLY <1>0, <1>12, ExceptOther, Zenon DEF InvalidateSnapshot, NoSnapshot, SameBuild, ghostVars
<1>13. CASE EndReadOnly(t)
  BY ONLY <1>0, <1>13, ExceptOther, Zenon DEF EndReadOnly, NoSnapshot, SameBuild, ghostVars
<1>14. ASSUME NEW o \in {"commit", "abort", "sub"}, CompleteStart(t, o) PROVE SameBuild(u)
  BY ONLY <1>0, <1>14, ExceptOther, Zenon DEF CompleteStart, Goto, SameBuild, ghostVars
<1>15. CASE CompletePublish(t)
  BY ONLY <1>0, <1>15, ExceptOther, Zenon DEF CompletePublish, Goto, SameBuild, ghostVars
<1>16. CASE CompleteSlot(t)
  BY ONLY <1>0, <1>16, ExceptOther, Zenon DEF CompleteSlot, Goto, SameBuild, ghostVars
<1>17. CASE CompleteSub(t)
  BY ONLY <1>0, <1>17, ExceptOther, Zenon DEF CompleteSub, Return, Goto, SameBuild, ghostVars
<1>18. CASE CompleteLoadGlobal(t)
  BY ONLY <1>0, <1>18, ExceptOther, Zenon DEF CompleteLoadGlobal, Goto, SameBuild, ghostVars
<1>19. CASE CompleteCompute(t)
  BY ONLY <1>0, <1>19, ExceptOther, Zenon DEF CompleteCompute, Goto, SameBuild, ghostVars
<1>20. CASE CompleteCheckVersion(t)
  BY ONLY <1>0, <1>20, ExceptOther, Zenon DEF CompleteCheckVersion, Goto, SameBuild, ghostVars
<1>21. CASE AdvanceOldestActive(t)
  BY ONLY <1>0, <1>21, ExceptOther, Zenon DEF AdvanceOldestActive, Goto, SameBuild, ghostVars
<1>22. CASE CompleteResetInfo(t)
  BY ONLY <1>0, <1>22, ExceptOther, Zenon
  DEF CompleteResetInfo, Return, Goto, NoSnapshot, SameBuild, ghostVars
<1>23. CASE LogComplete(t)
  BY ONLY <1>0, <1>23, ExceptOther, Zenon DEF LogComplete, Goto, SameBuild, ghostVars
<1>24. CASE LockOldestVisible(t)
  BY ONLY <1>0, <1>24, ExceptOther, Zenon DEF LockOldestVisible, Goto, SameBuild, ghostVars
<1>25. CASE ReadThreshold(t)
  BY ONLY <1>0, <1>25, ExceptOther, Zenon DEF ReadThreshold, Goto, SameBuild, ghostVars
<1>. QED
  BY <1>1, <1>2, <1>3, <1>4, <1>5, <1>6, <1>7, <1>8, <1>9, <1>10, <1>11, <1>12, <1>13, <1>14,
     <1>15, <1>16, <1>17, <1>18, <1>19, <1>20, <1>21, <1>22, <1>23, <1>24, <1>25, Zenon
  DEF ThreadStep


\* The steps that change a snapshot or where its build began, and those of a build.
PointFrame(t) ==
  /\ \/ UNCHANGED <<snapshot, own_done, build_from>>
     \/ BuildStart(t) \/ BuildAccept(t) \/ InvalidateSnapshot(t) \/ EndReadOnly(t)
     \/ CompleteSub(t) \/ CompleteResetInfo(t)
  /\ \/ pc'[t] \notin {"store_lowest", "load_position", "load_version", "copy_from", "recheck"}
     \/ BuildLoadLowest(t) \/ BuildStoreLowest(t) \/ BuildLoadPosition(t)
     \/ BuildLoadVersion(t) \/ BuildCopy(t)

\* Which steps of a thread have to do with its snapshot.
LEMMA PointFrames ==
  ASSUME IInv, NEW t \in Trans, ThreadStep(t)
  PROVE  PointFrame(t)
<1>0. pc \in [Trans -> Labels] /\ t \in Trans  BY Zenon DEF IInv, TypeInv
<1>1. CASE GetNewMvccid(t)
  BY ONLY <1>0, <1>1, ExceptSame, Zenon DEF GetNewMvccid, PointFrame, ghostVars
<1>2. CASE GetNewSubtransactionMvccid(t)
  BY ONLY <1>0, <1>2, ExceptSame, Zenon DEF GetNewSubtransactionMvccid, PointFrame, ghostVars
<1>3. CASE BuildStart(t)
  BY ONLY <1>0, <1>3, ExceptSame, Zenon DEF BuildStart, Goto, PointFrame, ghostVars
<1>4. CASE BuildMark(t)
  BY ONLY <1>0, <1>4, ExceptSame, Zenon DEF BuildMark, Goto, PointFrame, ghostVars
<1>5. CASE BuildLoadLowest(t)
  BY ONLY <1>5, Zenon DEF BuildLoadLowest, PointFrame, ghostVars
<1>6. CASE BuildStoreLowest(t)
  BY ONLY <1>0, <1>6, ExceptSame, Zenon DEF BuildStoreLowest, Goto, PointFrame, ghostVars
<1>7. CASE BuildLoadPosition(t)
  BY ONLY <1>0, <1>7, ExceptSame, Zenon DEF BuildLoadPosition, Goto, PointFrame, ghostVars
<1>8. CASE BuildLoadVersion(t)
  BY ONLY <1>0, <1>8, ExceptSame, Zenon DEF BuildLoadVersion, Goto, PointFrame, ghostVars
<1>9. CASE BuildCopy(t)
  BY ONLY <1>0, <1>9, ExceptSame, Zenon DEF BuildCopy, Goto, PointFrame, ghostVars
<1>10. CASE BuildAccept(t)
  BY ONLY <1>0, <1>10, ExceptSame, Zenon DEF BuildAccept, Return, Goto, PointFrame, ghostVars
<1>11. CASE BuildRetry(t)
  BY ONLY <1>0, <1>11, ExceptSame, Zenon DEF BuildRetry, Goto, PointFrame, ghostVars
<1>12. CASE InvalidateSnapshot(t)
  BY ONLY <1>0, <1>12, ExceptSame, Zenon DEF InvalidateSnapshot, NoSnapshot, PointFrame, ghostVars
<1>13. CASE EndReadOnly(t)
  BY ONLY <1>0, <1>13, ExceptSame, Zenon DEF EndReadOnly, NoSnapshot, PointFrame, ghostVars
<1>14. ASSUME NEW o \in {"commit", "abort", "sub"}, CompleteStart(t, o) PROVE PointFrame(t)
  BY ONLY <1>0, <1>14, ExceptSame, Zenon DEF CompleteStart, Goto, PointFrame, ghostVars
<1>15. CASE CompletePublish(t)
  BY ONLY <1>0, <1>15, ExceptSame, Zenon DEF CompletePublish, Goto, PointFrame, ghostVars
<1>16. CASE CompleteSlot(t)
  BY ONLY <1>0, <1>16, ExceptSame, Zenon DEF CompleteSlot, Goto, PointFrame, ghostVars
<1>17. CASE CompleteSub(t)
  BY ONLY <1>0, <1>17, ExceptSame, Zenon DEF CompleteSub, Return, Goto, PointFrame, ghostVars
<1>18. CASE CompleteLoadGlobal(t)
  BY ONLY <1>0, <1>18, ExceptSame, Zenon DEF CompleteLoadGlobal, Goto, PointFrame, ghostVars
<1>19. CASE CompleteCompute(t)
  <2>1. TypeInv  BY Zenon DEF IInv
  <2>2. pc'[t] \in {"check_version", "reset_info"}
    BY ONLY <2>1, <1>19, t \in Trans, ComputeFacts, Zenon
  <2>. QED  BY ONLY <1>19, <2>2, Zenon DEF CompleteCompute, PointFrame, ghostVars
<1>20. CASE CompleteCheckVersion(t)
  BY ONLY <1>0, <1>20, ExceptSame, Zenon DEF CompleteCheckVersion, Goto, PointFrame, ghostVars
<1>21. CASE AdvanceOldestActive(t)
  BY ONLY <1>0, <1>21, ExceptSame, Zenon DEF AdvanceOldestActive, Goto, PointFrame, ghostVars
<1>22. CASE CompleteResetInfo(t)
  BY ONLY <1>0, <1>22, ExceptSame, Zenon
  DEF CompleteResetInfo, Return, Goto, NoSnapshot, PointFrame, ghostVars
<1>23. CASE LogComplete(t)
  BY ONLY <1>0, <1>23, ExceptSame, Zenon DEF LogComplete, Goto, PointFrame, ghostVars
<1>24. CASE LockOldestVisible(t)
  BY ONLY <1>0, <1>24, ExceptSame, Zenon DEF LockOldestVisible, Goto, PointFrame, ghostVars
<1>25. CASE ReadThreshold(t)
  BY ONLY <1>0, <1>25, ExceptSame, Zenon DEF ReadThreshold, Goto, PointFrame, ghostVars
<1>. QED
  BY <1>1, <1>2, <1>3, <1>4, <1>5, <1>6, <1>7, <1>8, <1>9, <1>10, <1>11, <1>12, <1>13, <1>14,
     <1>15, <1>16, <1>17, <1>18, <1>19, <1>20, <1>21, <1>22, <1>23, <1>24, <1>25, Zenon
  DEF ThreadStep

-----------------------------------------------------------------------------
\* Who copies the current status to an entry, after each step.
LEMMA CopyingStep ==
  ASSUME IInv, NEW t \in Trans, ThreadStep(t)
  PROVE  /\ Completes(t) => \A h \in Trans : ~Copying(h) /\ (Copying(h)' <=> h = t)
         /\ CompletePublish(t) => \A h \in Trans : (Copying(h) <=> h = t) /\ ~Copying(h)'
         /\ ~Completes(t) /\ ~CompletePublish(t) =>
              /\ ~Copying(t) /\ ~Copying(t)'
              /\ \A h \in Trans : (Copying(h)' <=> Copying(h)) /\ (Copying(h) => Same(h))
<1>0. /\ TypeInv /\ MutexInv /\ \A u \in Trans : u # t => Same(u)
      /\ \A u \in Trans : u # t => (u \in mutex' <=> u \in mutex)
  <2>1. TypeInv /\ MutexInv  BY Zenon DEF IInv
  <2>2. \A u \in Trans : u # t => Same(u)  BY <2>1, ThreadFrame, Zenon
  <2>. QED  BY <2>1, <2>2, MutexOther, Zenon
<1>1. CASE Completes(t)
  <2>1. mutex = {} /\ mutex' = {t} /\ pc'[t] = "copy_to"  BY <1>1, StartEntry, Zenon
  <2>2. ~CompletePublish(t)
    <3>1. pc[t] = "run"  BY <1>1, StartEntry, Zenon
    <3>. QED  BY <3>1, Zenon DEF CompletePublish
  <2>. QED  BY ONLY <1>1, <2>1, <2>2, Zenon DEF Copying
<1>2. CASE CompletePublish(t)
  <2>1. t \in mutex /\ pc[t] = "copy_to" /\ pc'[t] = "slot"  BY <1>2, PublishEntry, Zenon
  <2>2. ~Completes(t)
    <3>1. Completes(t) => pc[t] = "run"  BY StartEntry, Zenon
    <3>. QED  BY <2>1, <3>1
  <2>3. mutex' = mutex  BY <1>2, Zenon DEF CompletePublish
  <2>. QED  BY ONLY <1>0, <1>2, <2>1, <2>2, <2>3, Zenon DEF Copying, MutexInv
<1>3. CASE ~Completes(t) /\ ~CompletePublish(t)
  <2>1. t \in mutex => (CompleteSlot(t) \/ CompleteSub(t)) /\ pc[t] = "slot" /\ mutex' = {}
    <3>1. t \in mutex => CompleteSlot(t) \/ CompleteSub(t)  BY <1>3, HolderSteps, Zenon
    <3>. QED  BY <3>1, Zenon DEF CompleteSlot, CompleteSub
  <2>2. ~Copying(t)  BY <2>1 DEF Copying
  <2>3. mutex' = mutex \/ mutex' = {}
    <3>1. TableFrame(t)  BY TableFrames, Zenon
    <3>2. CompleteSlot(t) \/ CompleteSub(t) => mutex' = {}  BY Zenon DEF CompleteSlot, CompleteSub
    <3>. QED  BY ONLY <1>3, <3>1, <3>2, Zenon DEF TableFrame
  <2>4. ~Copying(t)'  BY ONLY <2>1, <2>3, Zenon DEF Copying
  <2>5. ASSUME NEW h \in Trans PROVE (Copying(h)' <=> Copying(h)) /\ (Copying(h) => Same(h))
    <3>1. CASE h = t  BY ONLY <2>2, <2>4, <3>1, Zenon
    <3>2. CASE h # t  BY ONLY <1>0, <2>5, <3>2, Zenon DEF Copying, Same
    <3>. QED  BY <3>1, <3>2, Zenon
  <2>. QED  BY ONLY <1>3, <2>2, <2>4, <2>5, Zenon
<1>. QED  BY <1>1, <1>2, <1>3, Zenon

\* The entry that is being written is the one of who copies.
LEMMA WritingStep ==
  ASSUME IInv, NEW t \in Trans, ThreadStep(t), NEW k
  PROVE  /\ Completes(t) => ~BeingWritten(k) /\ (BeingWritten(k)' <=> k = index'[t])
         /\ CompletePublish(t) => (BeingWritten(k) <=> k = index[t]) /\ ~BeingWritten(k)'
         /\ ~Completes(t) /\ ~CompletePublish(t) => (BeingWritten(k)' <=> BeingWritten(k))
<1>1. BeingWritten(k) <=> \E h \in Trans : Copying(h) /\ index[h] = k
  <2>1. mutex \subseteq Trans  BY Zenon DEF IInv, TypeInv
  <2>. QED  BY ONLY <2>1, Zenon DEF BeingWritten, Copying
<1>2. BeingWritten(k)' <=> \E h \in Trans : Copying(h)' /\ index'[h] = k
  <2>1. mutex' \subseteq Trans
    <3>1. mutex' = mutex \/ mutex' = {} \/ mutex' = {t}
      <4>1. TableFrame(t)  BY TableFrames, Zenon
      <4>2. CompleteSlot(t) \/ CompleteSub(t) => mutex' = {}
        BY Zenon
        DEF CompleteSlot, CompleteSub
      <4>3. Completes(t) => mutex' = {t}  BY StartEntry, Zenon
      <4>. QED  BY ONLY <4>1, <4>2, <4>3, Zenon DEF TableFrame
    <3>. QED  BY <3>1, Zenon DEF IInv, TypeInv
  <2>. QED  BY ONLY <2>1, Zenon DEF BeingWritten, Copying
<1>3. CASE Completes(t)
  <2>1. \A h \in Trans : ~Copying(h) /\ (Copying(h)' <=> h = t)  BY <1>3, CopyingStep, Zenon
  <2>2. ~CompletePublish(t)  BY <1>3, <2>1, CopyingStep, Zenon
  <2>. QED  BY ONLY <1>1, <1>2, <1>3, <2>1, <2>2, t \in Trans, Zenon
<1>4. CASE CompletePublish(t)
  <2>1. \A h \in Trans : (Copying(h) <=> h = t) /\ ~Copying(h)'  BY <1>4, CopyingStep, Zenon
  <2>2. ~Completes(t)  BY <1>4, <2>1, CopyingStep, Zenon
  <2>. QED  BY ONLY <1>1, <1>2, <1>4, <2>1, <2>2, t \in Trans, Zenon
<1>5. CASE ~Completes(t) /\ ~CompletePublish(t)
  <2>1. \A h \in Trans : (Copying(h)' <=> Copying(h)) /\ (Copying(h) => Same(h))
    BY <1>5, CopyingStep, Zenon
  <2>. QED  BY ONLY <1>1, <1>2, <1>5, <2>1, Zenon DEF Same
<1>. QED  BY <1>3, <1>4, <1>5, Zenon
-----------------------------------------------------------------------------
\* The sub-transactions, through every step.
LEMMA SubStep == IInv /\ PInv /\ [Next]_vars => SubInv'
<1>. SUFFICES ASSUME IInv, PInv, [Next]_vars PROVE SubInv'  BY Zenon
<1>0. SubInv /\ TypeInv  BY Zenon DEF PInv, IInv
<1>1. ASSUME NEW t \in Trans, ThreadStep(t) PROVE SubInv'
  <2>. DEFINE Of(u) == /\ op'[u] \in {"commit", "abort"} => sub_ids'[u] = <<>>
                       /\ \A i \in Members(sub_ids'[u]) : id'[u] # MVCCID_NULL /\ id'[u] < i
  <2>0. /\ op[t] \in {"commit", "abort"} => sub_ids[t] = <<>>
        /\ \A i \in Members(sub_ids[t]) : id[t] # MVCCID_NULL /\ id[t] < i
    BY ONLY <1>0, <1>1, Zenon DEF SubInv
  <2>t. /\ id \in [Trans -> Ids \cup {MVCCID_NULL}] /\ sub_ids \in [Trans -> Seq(Ids)]
        /\ op \in [Trans -> {"none", "commit", "abort", "sub"}] /\ t \in Trans
        /\ sub_ids[t] \in Seq(Ids)
    BY ONLY <1>0, <1>1, Zenon DEF TypeInv
  <2>f. TableFrame(t) /\ ThreadInv(t)  BY <1>1, TableFrames, Zenon DEF IInv
  <2>1. ASSUME GetNewMvccid(t) PROVE Of(t)
    <3>1. /\ id[t] = MVCCID_NULL /\ id' = [id EXCEPT ![t] = mvcc_next_id] /\ UNCHANGED <<op, sub_ids>>
      BY ONLY <2>1, Zenon DEF GetNewMvccid
    <3>2. Members(sub_ids[t]) = {}  BY ONLY <2>0, <3>1, Zenon
    <3>. QED  BY ONLY <2>0, <3>1, <3>2, Zenon
  <2>2. ASSUME GetNewSubtransactionMvccid(t) PROVE Of(t)
    <3>1. /\ pc[t] = "run" /\ UNCHANGED op
          /\ \E m, s : /\ m = (IF id[t] = MVCCID_NULL THEN mvcc_next_id ELSE id[t])
                       /\ s = (IF id[t] = MVCCID_NULL THEN mvcc_next_id + 1 ELSE mvcc_next_id)
                       /\ id' = [id EXCEPT ![t] = m]
                       /\ sub_ids' = [sub_ids EXCEPT ![t] = Append(@, s)]
      BY ONLY <2>2, Zenon DEF GetNewSubtransactionMvccid
    <3>2. PICK m, s : /\ m = (IF id[t] = MVCCID_NULL THEN mvcc_next_id ELSE id[t])
                      /\ s = (IF id[t] = MVCCID_NULL THEN mvcc_next_id + 1 ELSE mvcc_next_id)
                      /\ id' = [id EXCEPT ![t] = m]
                      /\ sub_ids' = [sub_ids EXCEPT ![t] = Append(sub_ids[t], s)]
      BY ONLY <3>1, Zenon
    <3>3. id'[t] = m /\ sub_ids'[t] = Append(sub_ids[t], s)
      BY ONLY <2>t, <3>2, ExceptSame, Zenon
    <3>4. op'[t] = "none"  BY ONLY <2>f, <3>1, Zenon DEF ThreadInv
    <3>5. m # MVCCID_NULL /\ m < s
      <4>1. mvcc_next_id \in Lows /\ id[t] \in Ids \cup {MVCCID_NULL}
        BY ONLY <1>0, <2>t, Zenon DEF TypeInv
      <4>2. id[t] # MVCCID_NULL => id[t] < mvcc_next_id
        BY <1>1, Zenon DEF IInv, IdInv, IdsAssigned
      <4>. QED  BY ONLY <3>2, <4>1, <4>2, Bounds DEF Lows, Ids
    <3>6. id[t] # MVCCID_NULL => m = id[t]  BY ONLY <3>2, Zenon
    <3>7. Members(sub_ids'[t]) \subseteq Members(sub_ids[t]) \cup {s}
      BY ONLY <2>t, <3>3, AppendFacts, Zenon
    <3>. QED  BY ONLY <2>0, <3>3, <3>4, <3>5, <3>6, <3>7, Zenon
  <2>3. ASSUME Completes(t) PROVE Of(t)
    <3>1. PICK o \in {"commit", "abort", "sub"} : CompleteStart(t, o)
      BY ONLY <2>3, Zenon DEF Completes
    <3>2. /\ (o = "sub" <=> sub_ids[t] # <<>>) /\ UNCHANGED <<id, sub_ids>>
          /\ op' = [op EXCEPT ![t] = o]
      BY ONLY <3>1, Zenon DEF CompleteStart, idVars
    <3>3. op'[t] = o  BY ONLY <2>t, <3>2, ExceptSame, Zenon
    <3>. QED  BY ONLY <2>0, <3>2, <3>3, Zenon
  <2>4. ASSUME CompleteSub(t) PROVE Of(t)
    <3>1. /\ op' = [op EXCEPT ![t] = "none"] /\ UNCHANGED id /\ op[t] = "sub"
          /\ sub_ids' = [sub_ids EXCEPT ![t] = Front(@)]
      BY ONLY <2>4, Zenon DEF CompleteSub
    <3>2. op'[t] = "none" /\ sub_ids'[t] = Front(sub_ids[t])
      BY ONLY <2>t, <3>1, ExceptSame, Zenon
    <3>3. sub_ids[t] # <<>>  BY ONLY <2>f, <3>1, Zenon DEF ThreadInv
    <3>4. Members(sub_ids'[t]) \subseteq Members(sub_ids[t])
      BY ONLY <2>t, <3>2, <3>3, FrontFacts, Zenon
    <3>. QED  BY ONLY <2>0, <3>1, <3>2, <3>4, Zenon
  <2>5. ASSUME CompleteResetInfo(t) PROVE Of(t)
    <3>1. pc[t] = "reset_info" /\ UNCHANGED <<op, sub_ids>>
      BY ONLY <2>5, Zenon DEF CompleteResetInfo
    <3>2. op[t] \in {"commit", "abort"}  BY ONLY <2>f, <3>1, Zenon DEF ThreadInv, Completing
    <3>3. sub_ids'[t] = <<>>  BY ONLY <2>0, <3>1, <3>2, Zenon
    <3>4. Members(sub_ids'[t]) = {}  BY ONLY <3>3 DEF Members
    <3>. QED  BY ONLY <3>3, <3>4, Zenon
  <2>6. ASSUME LogComplete(t) PROVE Of(t)
    <3>1. UNCHANGED <<id, sub_ids>> /\ op' = [op EXCEPT ![t] = "none"]
      BY ONLY <2>6, Zenon DEF LogComplete, idVars
    <3>2. op'[t] = "none"  BY ONLY <2>t, <3>1, ExceptSame, Zenon
    <3>. QED  BY ONLY <2>0, <3>1, <3>2, Zenon
  <2>7. Of(t)
    <3>1. CASE UNCHANGED <<op, id, sub_ids>>  BY ONLY <2>0, <3>1, Zenon
    <3>. HIDE DEF Of
    <3>. QED  BY ONLY <2>1, <2>2, <2>3, <2>4, <2>5, <2>6, <2>f, <3>1, Zenon DEF TableFrame
  <2>8. ASSUME NEW u \in Trans, u # t PROVE Of(u)
    <3>1. Same(u)  BY ONLY <1>0, <1>1, <2>8, ThreadFrame, Zenon
    <3>. QED  BY ONLY <1>0, <2>8, <3>1, Zenon DEF SubInv, Same
  <2>. QED  BY ONLY <2>7, <2>8, Zenon DEF SubInv
<1>2. CASE VacuumStep \/ UNCHANGED vars
  <2>1. UNCHANGED TableVars  BY <1>2, VacuumFrame, Zenon
  <2>. QED  BY ONLY <1>0, <2>1, Zenon DEF SubInv, TableVars
<1>. QED  BY <1>1, <1>2, Steps, Zenon

\* The watermark is below every id that is not published: an id that is being
\* published has its own or its parent's id at or above the watermark.
LEMMA LowestPublished ==
  ASSUME IInv, PInv
  PROVE  AllBelow(lowest_active, Published)
<1>0. /\ TypeInv /\ LowInv /\ IdInv /\ MutexInv /\ SubInv /\ CurrentInv
      /\ \A t \in Trans : ThreadInv(t)
  BY Zenon DEF IInv, PInv
<1>1. ASSUME NEW i \in Ids, i < lowest_active PROVE i \in Published
  <2>1. i \in Settled  BY ONLY <1>0, <1>1, Zenon DEF LowInv, Below
  <2>2. CASE \A h \in Trans : ~Copying(h)
    BY ONLY <1>0, <2>1, <2>2, Zenon DEF CurrentInv, Settled
  <2>3. ASSUME NEW h \in Trans, Copying(h) PROVE i \in Published
    <3>1. /\ current.done = Published \cup {CompletedId(h)} /\ h \in mutex /\ pc[h] = "copy_to"
      BY ONLY <1>0, <2>3, Zenon DEF CurrentInv, Copying
    <3>2. i \in current.done /\ (op[h] # "sub" => i # id[h])
      BY ONLY <2>1, <3>1, Zenon DEF Settled
    <3>3. op[h] = "sub" => i # CompletedId(h)
      <4>. SUFFICES ASSUME op[h] = "sub" PROVE i # CompletedId(h)  BY Zenon
      <4>1. sub_ids[h] # <<>> /\ sub_ids[h] \in Seq(Ids) /\ ThreadInv(h)
        BY ONLY <1>0, <2>3, op[h] = "sub", Zenon DEF ThreadInv, TypeInv
      <4>2. Last(sub_ids[h]) \in Members(sub_ids[h])  BY ONLY <4>1, FrontFacts, Zenon
      <4>3. id[h] # MVCCID_NULL /\ id[h] < Last(sub_ids[h])
        BY ONLY <1>0, <2>3, <4>2, Zenon DEF SubInv
      <4>4. id[h] \notin current.done
        BY ONLY <1>0, <2>3, <4>3, op[h] = "sub", Zenon DEF IdInv, OwnersActive
      <4>5. id[h] \in Ids  BY ONLY <1>0, <2>3, <4>3, Zenon DEF TypeInv
      <4>6. ~(id[h] < lowest_active)
        BY ONLY <1>0, <4>4, <4>5, Zenon DEF LowInv, Below, Settled
      <4>7. lowest_active \in Lows /\ Last(sub_ids[h]) \in Ids
        <5>1. Last(sub_ids[h]) \in Ids  BY ONLY <4>1, <4>2, MembersFacts, Zenon
        <5>. QED  BY ONLY <1>0, <5>1, Zenon DEF TypeInv
      <4>8. i # Last(sub_ids[h])
        BY ONLY <1>1, <4>3, <4>5, <4>6, <4>7, Bounds DEF Ids, Lows
      <4>. QED  BY ONLY <4>8, op[h] = "sub", Zenon DEF CompletedId
    <3>4. op[h] # "sub" => CompletedId(h) = id[h]  BY ONLY Zenon DEF CompletedId
    <3>. QED  BY ONLY <3>1, <3>2, <3>3, <3>4, Zenon
  <2>. QED  BY ONLY <2>2, <2>3, Zenon
<1>. QED  BY ONLY <1>1, Zenon DEF AllBelow
-----------------------------------------------------------------------------
\* The completions that are published never change.
OrderFrame ==
  /\ order \in Seq(Ids) /\ order' \in Seq(Ids) /\ Len(order) \in Nat /\ Len(order') \in Nat
  /\ Len(order) <= Len(order') /\ Published \subseteq Published'
  /\ \A n \in 0 .. Len(order) : DoneIn(order', n) = DoneIn(order, n)
  /\ \A n \in Nat : DoneIn(order, n) \subseteq DoneIn(order', n)

\* What next_tran_status_finish adds to them.
LEMMA PublishOrder ==
  ASSUME IInv, OrderTypes, NEW t \in Trans, CompletePublish(t)
  PROVE  /\ OrderFrame /\ Len(order') = Len(order) + 1
         /\ Published' = Published \cup {CompletedId(t)}
<1>1. order \in Seq(Ids) /\ TypeInv /\ ThreadInv(t)  BY Zenon DEF OrderTypes, IInv
<1>2. order' = Append(order, CompletedId(t)) /\ pc[t] = "copy_to"  BY Zenon DEF CompletePublish
<1>3. CompletedId(t) \in Ids
  <2>1. CASE op[t] = "sub"
    <3>1. sub_ids[t] # <<>> /\ sub_ids[t] \in Seq(Ids)
      BY ONLY <1>1, <2>1, t \in Trans, Zenon DEF ThreadInv, TypeInv
    <3>2. Last(sub_ids[t]) \in Ids  BY ONLY <3>1, FrontFacts, MembersFacts, Zenon
    <3>. QED  BY ONLY <2>1, <3>2, Zenon DEF CompletedId
  <2>2. CASE op[t] # "sub"
    <3>1. op[t] \in {"commit", "abort"} /\ id[t] \in Ids \cup {MVCCID_NULL}
      BY ONLY <1>1, <1>2, <2>2, t \in Trans, Zenon DEF TypeInv, ThreadInv, Locked
    <3>2. id[t] \in Ids  BY ONLY <1>1, <1>2, <3>1, Zenon DEF ThreadInv
    <3>. QED  BY ONLY <2>2, <3>2, Zenon DEF CompletedId
  <2>. QED  BY <2>1, <2>2, Zenon
<1>4. /\ order' \in Seq(Ids) /\ Len(order) \in Nat /\ Len(order') = Len(order) + 1
      /\ \A n \in 0 .. Len(order) : DoneIn(order', n) = DoneIn(order, n)
      /\ DoneIn(order', Len(order) + 1) = DoneIn(order, Len(order)) \cup {CompletedId(t)}
  BY ONLY <1>1, <1>2, <1>3, DoneAppend, Zenon
<1>5. Published' = Published \cup {CompletedId(t)}  BY ONLY <1>4, Zenon DEF Published
<1>6. ASSUME NEW n \in Nat PROVE DoneIn(order, n) \subseteq DoneIn(order', n)
  <2>1. CASE n <= Len(order)
    <3>1. n \in 0 .. Len(order)  BY ONLY <1>4, <1>6, <2>1
    <3>. QED  BY ONLY <1>4, <3>1, Zenon
  <2>2. CASE ~(n <= Len(order))
    <3>1. DoneIn(order, n) \subseteq DoneIn(order, Len(order))
      BY ONLY <1>1, <1>6, DoneGrows, Zenon
    <3>2. Len(order) \in 0 .. Len(order) /\ Len(order) \in Nat /\ Len(order) <= n
      BY ONLY <1>4, <1>6, <2>2
    <3>3. DoneIn(order', Len(order)) \subseteq DoneIn(order', n)
      BY ONLY <1>4, <1>6, <3>2, DoneGrows, Zenon
    <3>. QED  BY ONLY <1>4, <3>1, <3>2, <3>3, Zenon
  <2>. QED  BY <2>1, <2>2, Zenon
<1>7. Len(order) <= Len(order') /\ Len(order') \in Nat  BY ONLY <1>4
<1>. QED  BY ONLY <1>1, <1>4, <1>5, <1>6, <1>7, Zenon DEF OrderFrame

\* Nothing else changes them.
LEMMA OrderStep ==
  ASSUME IInv, OrderTypes, NEW t \in Trans, ThreadStep(t)
  PROVE  OrderFrame
<1>1. CASE CompletePublish(t)  BY ONLY <1>1, IInv, OrderTypes, t \in Trans, PublishOrder, Zenon
<1>2. CASE order' = order
  <2>1. order \in Seq(Ids)  BY Zenon DEF OrderTypes
  <2>2. Len(order) \in Nat /\ Len(order) <= Len(order)  BY ONLY <2>1
  <2>. QED  BY ONLY <1>2, <2>1, <2>2, Zenon DEF OrderFrame, Published
<1>. QED  BY <1>1, <1>2, TableFrames, Zenon DEF TableFrame

\* The current status, through every step.
LEMMA CurrentStep == IInv /\ PInv /\ [Next]_vars => CurrentInv'
<1>. SUFFICES ASSUME IInv, PInv, [Next]_vars PROVE CurrentInv'  BY Zenon
<1>0. CurrentInv /\ TypeInv /\ OrderTypes  BY Zenon DEF PInv, IInv
<1>1. ASSUME NEW t \in Trans, ThreadStep(t) PROVE CurrentInv'
  <2>1. CASE Completes(t)
    <3>1. PICK o \in {"commit", "abort", "sub"} : CompleteStart(t, o)
      BY ONLY <2>1, Zenon DEF Completes
    <3>2. \A h \in Trans : ~Copying(h) /\ (Copying(h)' <=> h = t)
      BY <1>1, <2>1, CopyingStep, Zenon
    <3>3. current.done = Published /\ current.version = Len(order)
      BY ONLY <1>0, <3>2, Zenon DEF CurrentInv
    <3>4. PICK i : i = IF o = "sub" THEN Last(sub_ids[t]) ELSE id[t]  OBVIOUS
    <3>5. current'.version = current.version + 1 /\ current'.done = current.done \cup {i}
      BY ONLY <1>0, <1>1, <3>1, <3>4, CompleteStartFacts, Zenon
    <3>6. UNCHANGED <<id, sub_ids, order>> /\ op' = [op EXCEPT ![t] = o]
      BY ONLY <3>1, Zenon DEF CompleteStart, idVars, ghostVars
    <3>7. op'[t] = o
      <4>1. op \in [Trans -> {"none", "commit", "abort", "sub"}]  BY ONLY <1>0, Zenon DEF TypeInv
      <4>. QED  BY ONLY <1>1, <3>6, <4>1, ExceptSame, Zenon
    <3>8. CompletedId(t)' = i  BY ONLY <3>4, <3>6, <3>7, Zenon DEF CompletedId
    <3>9. Published' = Published  BY ONLY <3>6, Zenon DEF Published
    <3>10. current'.done = Published' \cup {CompletedId(t)'} /\ current'.version = Len(order') + 1
      BY ONLY <3>3, <3>5, <3>6, <3>8, <3>9, Zenon
    <3>. QED  BY ONLY <1>1, <3>2, <3>10, Zenon DEF CurrentInv
  <2>2. CASE CompletePublish(t)
    <3>1. \A h \in Trans : (Copying(h) <=> h = t) /\ ~Copying(h)'
      BY <1>1, <2>2, CopyingStep, Zenon
    <3>2. current.done = Published \cup {CompletedId(t)} /\ current.version = Len(order) + 1
      BY ONLY <1>0, <1>1, <3>1, Zenon DEF CurrentInv
    <3>3. Len(order') = Len(order) + 1 /\ Published' = Published \cup {CompletedId(t)}
      BY <1>0, <1>1, <2>2, PublishOrder, Zenon
    <3>4. current' = current  BY ONLY <2>2, Zenon DEF CompletePublish
    <3>. QED  BY ONLY <3>1, <3>2, <3>3, <3>4, Zenon DEF CurrentInv
  <2>3. CASE ~Completes(t) /\ ~CompletePublish(t)
    <3>1. \A h \in Trans : (Copying(h)' <=> Copying(h)) /\ (Copying(h) => Same(h))
      BY <1>1, <2>3, CopyingStep, Zenon
    <3>2. current' = current /\ order' = order
      BY ONLY <1>1, <2>3, TableFrames, Zenon
      DEF TableFrame
    <3>3. \A h \in Trans : Copying(h) => CompletedId(h)' = CompletedId(h)
      BY ONLY <3>1, Zenon DEF Same, CompletedId
    <3>4. Published' = Published  BY ONLY <3>2, Zenon DEF Published
    <3>. QED  BY ONLY <1>0, <3>1, <3>2, <3>3, <3>4, Zenon DEF CurrentInv
  <2>. QED  BY <2>1, <2>2, <2>3, Zenon
<1>2. CASE VacuumStep \/ UNCHANGED vars
  <2>1. UNCHANGED TableVars  BY <1>2, VacuumFrame, Zenon
  <2>2. Published' = Published /\ \A h \in Trans : (Copying(h)' <=> Copying(h)) /\ CompletedId(h)' = CompletedId(h)
    BY ONLY <2>1, Zenon DEF TableVars, Published, Copying, CompletedId
  <2>3. current' = current /\ order' = order  BY ONLY <2>1, Zenon DEF TableVars
  <2>. QED  BY ONLY <1>0, <2>2, <2>3, Zenon DEF CurrentInv
<1>. QED  BY <1>1, <1>2, Steps, Zenon

\* The version of the current status, as the holder of the mutex has set it.
LEMMA CopyingVersion ==
  ASSUME IInv, NEW t \in Trans, CompletePublish(t)
  PROVE  history[index[t]].version = current.version
<1>1. VersionInv /\ t \in mutex
  BY PublishEntry, Zenon DEF IInv
<1>. QED  BY ONLY <1>1, Zenon DEF VersionInv

\* The positions, through every step.
LEMMA PositionStep == IInv /\ PInv /\ [Next]_vars => PositionInv'
<1>. SUFFICES ASSUME IInv, PInv, [Next]_vars PROVE PositionInv'  BY Zenon
<1>0. CurrentInv /\ TypeInv /\ OrderTypes /\ PositionInv /\ Len(order) \in Nat /\ position \in Indices
  <2>1. CurrentInv /\ TypeInv /\ OrderTypes /\ PositionInv /\ position \in Indices
    BY Zenon DEF PInv, IInv, TypeInv
  <2>2. order \in Seq(Ids)  BY ONLY <2>1, Zenon DEF OrderTypes
  <2>3. Len(order) \in Nat  BY ONLY <2>2
  <2>. QED  BY ONLY <2>1, <2>3, Zenon
<1>e. /\ (position + 1) % HISTORY_MAX_SIZE = (Len(order) + 1) % HISTORY_MAX_SIZE
      /\ (Len(order) + 1) % HISTORY_MAX_SIZE # position
  <2>1. position = Len(order) % HISTORY_MAX_SIZE  BY ONLY <1>0, Zenon DEF PositionInv
  <2>. QED  BY ONLY <1>0, <2>1, NextEntry, Zenon
<1>1. ASSUME NEW t \in Trans, ThreadStep(t) PROVE PositionInv'
  <2>1. CASE Completes(t)
    <3>1. \A h \in Trans : ~Copying(h) /\ (Copying(h)' <=> h = t)
      BY <1>1, <2>1, CopyingStep, Zenon
    <3>2. /\ index'[t] = (position + 1) % HISTORY_MAX_SIZE
          /\ \A k \in Indices : k # index'[t] => history'[k] = history[k]
      BY <1>1, <2>1, StartEntry, Zenon
    <3>3. position' = position /\ order' = order
      BY ONLY <2>1, Zenon DEF Completes, CompleteStart, ghostVars
    <3>. QED  BY ONLY <1>0, <1>e, <3>1, <3>2, <3>3, Zenon DEF PositionInv
  <2>2. CASE CompletePublish(t)
    <3>1. \A h \in Trans : (Copying(h) <=> h = t) /\ ~Copying(h)'
      BY <1>1, <2>2, CopyingStep, Zenon
    <3>2. current.version = Len(order) + 1 /\ index[t] = (Len(order) + 1) % HISTORY_MAX_SIZE
      BY ONLY <1>0, <1>1, <3>1, Zenon DEF CurrentInv, PositionInv
    <3>3. Len(order') = Len(order) + 1  BY <1>0, <1>1, <2>2, PublishOrder, Zenon
    <3>4. position' = index[t] /\ history'[index[t]].version = current.version
      BY <1>1, <2>2, PublishEntry, Zenon
    <3>. QED  BY ONLY <3>1, <3>2, <3>3, <3>4, Zenon DEF PositionInv
  <2>3. CASE ~Completes(t) /\ ~CompletePublish(t)
    <3>1. \A h \in Trans : (Copying(h)' <=> Copying(h)) /\ (Copying(h) => Same(h))
      BY <1>1, <2>3, CopyingStep, Zenon
    <3>2. UNCHANGED <<history, order, position>>
      BY ONLY <1>1, <2>3, TableFrames, Zenon DEF TableFrame
    <3>. QED  BY ONLY <1>0, <3>1, <3>2, Zenon DEF PositionInv, Same
  <2>. QED  BY <2>1, <2>2, <2>3, Zenon
<1>2. CASE VacuumStep \/ UNCHANGED vars
  <2>1. UNCHANGED TableVars  BY <1>2, VacuumFrame, Zenon
  <2>. QED  BY ONLY <1>0, <2>1, Zenon DEF PositionInv, TableVars, Copying
<1>. QED  BY <1>1, <1>2, Steps, Zenon

\* The ring, through every step.
LEMMA RingStep == IInv /\ PInv /\ [Next]_vars => RingInv'
<1>. SUFFICES ASSUME IInv, PInv, [Next]_vars PROVE RingInv'  BY Zenon
<1>0. CurrentInv /\ TypeInv /\ OrderTypes /\ RingInv  BY Zenon DEF PInv, IInv
<1>n. \A k \in Indices : history[k].version \in Nat
  <2>1. history \in [Indices -> Status]  BY ONLY <1>0, Zenon DEF TypeInv
  <2>. QED  BY ONLY <2>1 DEF Status
<1>. DEFINE Of(k) == /\ history'[k].version <= Len(order')
                     /\ history'[k].version # 0 \/ k = 0 =>
                          history'[k].done = DoneIn(order', history'[k].version)
<1>1. ASSUME NEW t \in Trans, ThreadStep(t) PROVE RingInv'
  <2>0. OrderFrame  BY ONLY <1>0, <1>1, IInv, OrderStep, Zenon
  <2>1. ASSUME NEW k \in Indices, history'[k] = history[k], ~BeingWritten(k) PROVE Of(k)
    <3>1. /\ history[k].version <= Len(order) /\ history[k].version \in Nat
          /\ history[k].version # 0 \/ k = 0 => history[k].done = DoneIn(order, history[k].version)
      BY ONLY <1>0, <1>n, <2>1, Zenon DEF RingInv
    <3>2. history[k].version \in 0 .. Len(order) /\ history[k].version <= Len(order')
      <4>1. Len(order) \in Nat /\ Len(order') \in Nat /\ Len(order) <= Len(order')
        BY ONLY <2>0, Zenon DEF OrderFrame
      <4>. QED  BY ONLY <3>1, <4>1
    <3>3. DoneIn(order', history[k].version) = DoneIn(order, history[k].version)
      BY ONLY <2>0, <3>2, Zenon DEF OrderFrame
    <3>. QED  BY ONLY <2>1, <3>1, <3>2, <3>3, Zenon
  <2>2. ASSUME NEW k \in Indices, ~BeingWritten(k)' PROVE Of(k)
    <3>1. CASE Completes(t)
      <4>1. ~BeingWritten(k) /\ k # index'[t]
        BY ONLY <1>1, <2>2, <3>1, IInv, WritingStep, Zenon
      <4>2. history'[k] = history[k]  BY <1>1, <2>2, <3>1, <4>1, StartEntry, Zenon
      <4>. QED  BY ONLY <2>1, <2>2, <4>1, <4>2, Zenon
    <3>2. CASE CompletePublish(t)
      <4>0. /\ index[t] \in Indices /\ history'[index[t]].version = current.version
            /\ history'[index[t]].done = current.done
            /\ k # index[t] => history'[k] = history[k]
        BY <1>1, <2>2, <3>2, PublishEntry, Zenon
      <4>1. CASE k # index[t]
        <5>1. ~BeingWritten(k)  BY ONLY <1>1, <3>2, <4>1, IInv, WritingStep, Zenon
        <5>. QED  BY ONLY <2>1, <2>2, <4>0, <4>1, <5>1, Zenon
      <4>2. CASE k = index[t]
        <5>1. current.done = Published \cup {CompletedId(t)} /\ current.version = Len(order) + 1
          <6>1. Copying(t)  BY ONLY <1>1, <3>2, IInv, CopyingStep, Zenon
          <6>. QED  BY ONLY <1>0, <1>1, <6>1, Zenon DEF CurrentInv
        <5>2. Len(order') = Len(order) + 1 /\ Published' = Published \cup {CompletedId(t)}
          BY ONLY <1>0, <1>1, <3>2, IInv, PublishOrder, Zenon
        <5>3. history'[k].version = Len(order') /\ history'[k].done = Published'
          BY ONLY <4>0, <4>2, <5>1, <5>2, Zenon
        <5>4. Len(order') <= Len(order')
          <6>1. Len(order') \in Nat  BY ONLY <2>0, Zenon DEF OrderFrame
          <6>. QED  BY ONLY <6>1
        <5>. QED  BY ONLY <5>3, <5>4, Zenon DEF Published
      <4>. QED  BY <4>1, <4>2, Zenon
    <3>3. CASE ~Completes(t) /\ ~CompletePublish(t)
      <4>1. ~BeingWritten(k)  BY ONLY <1>1, <2>2, <3>3, IInv, WritingStep, Zenon
      <4>2. history' = history  BY ONLY <1>1, <3>3, TableFrames, Zenon DEF TableFrame
      <4>. QED  BY ONLY <2>1, <2>2, <4>1, <4>2, Zenon
    <3>. QED  BY <3>1, <3>2, <3>3, Zenon
  <2>. QED  BY ONLY <2>2, Zenon DEF RingInv
<1>2. CASE VacuumStep \/ UNCHANGED vars
  <2>1. UNCHANGED TableVars  BY <1>2, VacuumFrame, Zenon
  <2>2. \A k : BeingWritten(k)' <=> BeingWritten(k)
    BY ONLY <2>1, Zenon
    DEF TableVars, BeingWritten
  <2>3. history' = history /\ order' = order  BY ONLY <2>1, Zenon DEF TableVars
  <2>. QED  BY ONLY <1>0, <2>2, <2>3, Zenon DEF RingInv
<1>. QED  BY <1>1, <1>2, Steps, Zenon
-----------------------------------------------------------------------------
\* The build of another thread.

\* Good, after a step.
GoodNext(u, n) ==
  build_from'[u] <= n /\ (n # 0 \/ index'[u] = 0) /\ AllBelow(low'[u], DoneIn(order', n))

\* A later version is as good.
LEMMA GoodGrows ==
  ASSUME OrderFrame, NEW u \in Trans, NEW m \in Nat, NEW n \in Nat, m <= n, Good(u, m),
         build_from[u] \in Nat, index'[u] = index[u], low'[u] = low[u],
           build_from'[u] = build_from[u]
  PROVE  GoodNext(u, n)
<1>1. build_from[u] <= n /\ (m # 0 => n # 0)
  <2>1. build_from[u] <= m  BY Zenon DEF Good
  <2>. QED  BY ONLY <2>1, m \in Nat, n \in Nat, m <= n, build_from[u] \in Nat
<1>2. DoneIn(order, m) \subseteq DoneIn(order', n)
  <2>1. DoneIn(order, m) \subseteq DoneIn(order', m) /\ order' \in Seq(Ids)
    BY Zenon
    DEF OrderFrame
  <2>2. DoneIn(order', m) \subseteq DoneIn(order', n)
    BY ONLY <2>1, m \in Nat, n \in Nat, m <= n, DoneGrows, Zenon
  <2>. QED  BY ONLY <2>1, <2>2, Zenon
<1>. QED  BY <1>1, <1>2, Zenon DEF Good, GoodNext, AllBelow

\* next_trans_status_start gives the entry that it takes a newer version than any.
LEMMA EntryVersions ==
  ASSUME IInv, PInv, NEW t \in Trans, ThreadStep(t), NEW k \in Indices
  PROVE  /\ history[k].version \in Nat /\ history'[k].version \in Nat
         /\ history[k].version <= history'[k].version
         /\ \/ history'[k].version = history[k].version /\ ~(Completes(t) /\ k = index'[t])
            \/ history'[k].version = Len(order) + 1
<1>0. CurrentInv /\ TypeInv /\ RingInv /\ Len(order) \in Nat /\ order \in Seq(Ids)
  <2>1. CurrentInv /\ TypeInv /\ RingInv /\ order \in Seq(Ids)
    BY Zenon
    DEF PInv, IInv, OrderTypes
  <2>. QED  BY <2>1
<1>1. history[k].version \in Nat
  <2>1. history \in [Indices -> Status]  BY ONLY <1>0, Zenon DEF TypeInv
  <2>. QED  BY <2>1 DEF Status
<1>2. CASE Completes(t)
  <2>1. /\ history'[index'[t]].version = current.version + 1
        /\ k # index'[t] => history'[k] = history[k]
    BY <1>2, StartEntry, Zenon
  <2>2. CASE k # index'[t]
    <3>1. history[k].version <= history[k].version  BY ONLY <1>1
    <3>. QED  BY ONLY <1>1, <2>1, <2>2, <3>1, Zenon
  <2>3. CASE k = index'[t]
    <3>1. (\A h \in Trans : ~Copying(h)) /\ ~BeingWritten(k)
      BY ONLY <1>2, IInv, t \in Trans, ThreadStep(t), CopyingStep, WritingStep, Zenon
    <3>2. current.version = Len(order) /\ history[k].version <= Len(order)
      BY ONLY <1>0, <3>1, k \in Indices, Zenon DEF CurrentInv, RingInv
    <3>3. history'[k].version = Len(order) + 1  BY ONLY <2>1, <2>3, <3>2, Zenon
    <3>. QED  BY ONLY <1>0, <1>1, <3>2, <3>3
  <2>. QED  BY <2>2, <2>3, Zenon
<1>3. CASE CompletePublish(t)
  <2>1. /\ index[t] \in Indices /\ history'[index[t]].version = current.version
        /\ k # index[t] => history'[k] = history[k]
    BY <1>3, PublishEntry, Zenon
  <2>2. history[index[t]].version = current.version  BY <1>3, CopyingVersion, Zenon
  <2>3. history'[k].version = history[k].version  BY ONLY <2>1, <2>2, Zenon
  <2>4. ~Completes(t)
    BY ONLY <1>3, IInv, t \in Trans, ThreadStep(t), CopyingStep, Zenon
  <2>5. history[k].version <= history[k].version  BY ONLY <1>1
  <2>. QED  BY ONLY <1>1, <2>3, <2>4, <2>5, Zenon
<1>4. CASE ~Completes(t) /\ ~CompletePublish(t)
  <2>1. history' = history  BY <1>4, TableFrames, Zenon DEF TableFrame
  <2>2. history[k].version <= history[k].version  BY ONLY <1>1
  <2>. QED  BY ONLY <1>1, <1>4, <2>1, <2>2, Zenon
<1>. QED  BY <1>2, <1>3, <1>4, Zenon

\* A build of a snapshot survives the steps of the other threads: what they
\* write shows in the version of the entry.
LEMMA OtherBuild ==
  ASSUME IInv, PInv, NEW t \in Trans, ThreadStep(t), NEW u \in Trans, u # t
  PROVE  BuildInv(u)'
<1>. DEFINE k == index[u]
            v == history[k].version
            w == history'[k].version
<1>0. /\ Same(u) /\ SameBuild(u) /\ OrderFrame /\ BuildInv(u) /\ index[u] \in Indices
      /\ version[u] \in Nat /\ build_from[u] \in Nat
  <2>1. TypeInv /\ OrderTypes /\ BuildInv(u)  BY Zenon DEF IInv, PInv
  <2>2. Same(u)  BY <2>1, ThreadFrame, Zenon
  <2>3. SameBuild(u)  BY <2>1, BuildFrame, Zenon
  <2>4. OrderFrame  BY <2>1, OrderStep, Zenon
  <2>. QED  BY <2>1, <2>2, <2>3, <2>4, Zenon DEF TypeInv, OrderTypes
<1>1. /\ pc'[u] = pc[u] /\ index'[u] = index[u] /\ version'[u] = version[u] /\ low'[u] = low[u]
      /\ copied'[u] = copied[u] /\ build_from'[u] = build_from[u]
  BY ONLY <1>0, Zenon DEF Same, SameBuild
<1>2. /\ Len(order) \in Nat /\ Len(order') \in Nat /\ Len(order) <= Len(order')
      /\ Published \subseteq Published'
      /\ \A n \in 0 .. Len(order) : DoneIn(order', n) = DoneIn(order, n)
  BY ONLY <1>0, Zenon DEF OrderFrame
<1>3. /\ v \in Nat /\ w \in Nat /\ v <= w
      /\ (w = v /\ ~(Completes(t) /\ k = index'[t])) \/ w = Len(order) + 1
  BY ONLY <1>0, IInv, PInv, t \in Trans, ThreadStep(t), EntryVersions, Zenon
<1>. HIDE DEF v, w
<1>4. build_from'[u] <= Len(order')
  <2>1. build_from[u] <= Len(order)  BY ONLY <1>0, Zenon DEF BuildInv
  <2>. QED  BY ONLY <1>0, <1>1, <1>2, <2>1
<1>5. pc'[u] \in {"store_lowest", "load_position"} => AllBelow(low'[u], Published')
  BY ONLY <1>0, <1>1, <1>2, Zenon DEF BuildInv, AllBelow
<1>6. pc'[u] \in {"load_version", "copy_from", "recheck"} => GoodNext(u, w)
  <2>. SUFFICES ASSUME pc[u] \in {"load_version", "copy_from", "recheck"} PROVE GoodNext(u, w)
    BY <1>1, Zenon
  <2>1. Good(u, v)
    BY ONLY <1>0, pc[u] \in {"load_version", "copy_from", "recheck"}, Zenon
    DEF BuildInv, v
  <2>. QED  BY ONLY <1>0, <1>1, <1>3, <2>1, u \in Trans, GoodGrows, Zenon
<1>7. pc'[u] = "load_version" =>
        \E n \in build_from'[u] .. Len(order') : index'[u] = n % HISTORY_MAX_SIZE
  <2>1. build_from[u] .. Len(order) \subseteq build_from[u] .. Len(order')  BY ONLY <1>0, <1>2
  <2>. QED  BY ONLY <1>0, <1>1, <2>1, Zenon DEF BuildInv
<1>8. ASSUME pc[u] \in {"copy_from", "recheck"}
      PROVE  /\ GoodNext(u, version[u]) /\ version[u] <= Len(order')
             /\ version[u] \in 0 .. Len(order)
             /\ version[u] = w => version[u] = v /\ ~BeingWritten(k)'
  <2>1. Good(u, version[u]) /\ version[u] <= Len(order) /\ (version[u] = v => ~BeingWritten(k))
    BY ONLY <1>0, <1>8, Zenon DEF BuildInv, v
  <2>2. GoodNext(u, version[u])
    <3>1. version[u] <= version[u]  BY ONLY <1>0
    <3>. QED  BY ONLY <1>0, <1>1, <2>1, <3>1, u \in Trans, GoodGrows, Zenon
  <2>3. version[u] <= Len(order') /\ version[u] \in 0 .. Len(order)  BY ONLY <1>0, <1>2, <2>1
  <2>4. version[u] # Len(order) + 1  BY ONLY <1>0, <1>2, <2>1
  <2>5. ASSUME version[u] = w PROVE version[u] = v /\ ~BeingWritten(k)'
    <3>1. version[u] = v /\ ~(Completes(t) /\ k = index'[t])  BY ONLY <1>3, <2>4, <2>5, Zenon
    <3>2. ~BeingWritten(k)  BY ONLY <2>1, <3>1, Zenon
    <3>3. ~BeingWritten(k)'
      <4>. DEFINE W(j) == \E h \in mutex' : pc'[h] = "copy_to" /\ index'[h] = j
      <4>1. /\ Completes(t) => (W(index[u]) <=> index[u] = index'[t])
            /\ CompletePublish(t) => ~W(index[u])
            /\ ~Completes(t) /\ ~CompletePublish(t) => (W(index[u]) <=> BeingWritten(index[u]))
        <5>1. PICK x : x = index[u]  OBVIOUS
        <5>2. /\ Completes(t) => (BeingWritten(x)' <=> x = index'[t])
              /\ CompletePublish(t) => ~BeingWritten(x)'
              /\ ~Completes(t) /\ ~CompletePublish(t) => (BeingWritten(x)' <=> BeingWritten(x))
          BY ONLY IInv, t \in Trans, ThreadStep(t), WritingStep, Zenon
        <5>3. BeingWritten(x)' <=> W(x)  BY ONLY Zenon DEF BeingWritten
        <5>. HIDE DEF W
        <5>. QED  BY ONLY <5>1, <5>2, <5>3, Zenon
      <4>. HIDE DEF W
      <4>2. ~W(index[u])  BY ONLY <3>1, <3>2, <4>1, Zenon
      <4>. QED  BY ONLY <1>1, <4>2, Zenon DEF BeingWritten, W
    <3>. QED  BY ONLY <3>1, <3>3, Zenon
  <2>. QED  BY ONLY <2>2, <2>3, <2>5, Zenon
<1>9. ASSUME pc[u] = "recheck", version[u] = w PROVE copied'[u].done = DoneIn(order', version[u])
  <2>1. version[u] = v /\ version[u] \in 0 .. Len(order)  BY ONLY <1>8, <1>9, Zenon
  <2>2. copied[u].done = DoneIn(order, version[u])
    BY ONLY <1>0, <1>9, <2>1, Zenon
    DEF BuildInv, v
  <2>. QED  BY ONLY <1>1, <1>2, <2>1, <2>2, Zenon
<1>. QED
  <2>1. w = history'[index'[u]].version  BY ONLY <1>1, Zenon DEF w
  <2>2. pc[u] \in {"copy_from", "recheck"} /\ version[u] = w => ~BeingWritten(index[u])'
    <3>1. pc[u] \in {"copy_from", "recheck"} /\ version[u] = w =>
            ~\E h \in mutex' : pc'[h] = "copy_to" /\ index'[h] = index[u]
      BY ONLY <1>1, <1>8, Zenon DEF BeingWritten
    <3>. QED  BY ONLY <1>1, <3>1, Zenon DEF BeingWritten
  <2>3. /\ pc'[u] \in {"copy_from", "recheck"} => GoodNext(u, version'[u]) /\ version'[u] <= Len(order')
        /\ pc'[u] \in {"copy_from", "recheck"} /\ version'[u] = w => ~BeingWritten(index[u])'
        /\ pc'[u] = "recheck" /\ version'[u] = w => copied'[u].done = DoneIn(order', version'[u])
    BY ONLY <1>1, <1>8, <1>9, <2>2, Zenon
  <2>. QED  BY ONLY <1>4, <1>5, <1>6, <1>7, <2>1, <2>3, Zenon DEF BuildInv, Good, GoodNext
-----------------------------------------------------------------------------
\* The build of a thread itself.

\* As many completions as the ring has entries lie between two uses of an entry.
LEMMA NotOverwritten ==
  ASSUME IInv, PInv, BuildsAreShort, NEW t \in Trans, pc[t] = "load_version"
  PROVE  ~BeingWritten(index[t])
<1>. SUFFICES ASSUME BeingWritten(index[t]) PROVE FALSE  OBVIOUS
<1>0. PositionInv /\ BuildInv(t) /\ mutex \subseteq Trans /\ order \in Seq(Ids) /\ build_from[t] \in Nat
  BY Zenon DEF IInv, PInv, TypeInv, OrderTypes
<1>1. PICK h \in mutex : pc[h] = "copy_to" /\ index[h] = index[t]  BY Zenon DEF BeingWritten
<1>2. index[t] = (Len(order) + 1) % HISTORY_MAX_SIZE
  BY ONLY <1>0, <1>1, Zenon DEF PositionInv, Copying
<1>3. PICK n \in build_from[t] .. Len(order) : index[t] = n % HISTORY_MAX_SIZE
  BY ONLY <1>0, pc[t] = "load_version", Zenon DEF BuildInv
<1>4. Len(Completions) = Len(order) + 1
  <2>1. Completions = Append(order, CompletedId(CHOOSE x \in mutex : TRUE))
    BY ONLY <1>1, Zenon DEF Completions
  <2>. HIDE DEF Completions
  <2>. QED  BY ONLY <1>0, <2>1
<1>5. Len(Completions) - build_from[t] < HISTORY_MAX_SIZE
  BY pc[t] = "load_version", Zenon DEF BuildsAreShort
<1>6. Len(order) \in Nat  BY ONLY <1>0
<1>7. n = Len(order) + 1
  <2>1. n \in Int /\ Len(order) + 1 \in Int /\ n <= Len(order) + 1 /\ Len(order) + 1 - n < HISTORY_MAX_SIZE
    BY ONLY <1>0, <1>3, <1>4, <1>5, <1>6, RingSize
  <2>2. HISTORY_MAX_SIZE \in Int /\ HISTORY_MAX_SIZE > 0  BY ONLY RingSize
  <2>3. n % HISTORY_MAX_SIZE = (Len(order) + 1) % HISTORY_MAX_SIZE  BY ONLY <1>2, <1>3, Zenon
  <2>. QED  BY ONLY <2>1, <2>2, <2>3, SameEntry, SMT
<1>. QED  BY ONLY <1>0, <1>3, <1>6, <1>7

\* Where a build began is a point in the order of completions.
LEMMA BuildFromStep ==
  ASSUME IInv, PInv, NEW t \in Trans, ThreadStep(t)
  PROVE  build_from'[t] \in Nat /\ build_from'[t] <= Len(order')
<1>0. /\ PointFrame(t) /\ OrderFrame /\ BuildInv(t) /\ build_from \in [Trans -> Nat]
      /\ OrderTypes /\ t \in Trans
  <2>1. OrderTypes /\ BuildInv(t)  BY Zenon DEF PInv
  <2>. QED  BY <2>1, PointFrames, OrderStep, Zenon DEF OrderTypes
<1>1. build_from'[t] \in {0, Len(order), build_from[t]}
  <2>1. CASE UNCHANGED <<snapshot, own_done, build_from>>  BY ONLY <2>1, Zenon
  <2>2. CASE BuildStart(t)  BY ONLY <1>0, <2>2, ExceptSame, Zenon DEF BuildStart
  <2>3. CASE BuildAccept(t)  BY ONLY <2>3, Zenon DEF BuildAccept
  <2>4. CASE InvalidateSnapshot(t)  BY ONLY <1>0, <2>4, ExceptSame, Zenon DEF InvalidateSnapshot
  <2>5. CASE EndReadOnly(t)  BY ONLY <1>0, <2>5, ExceptSame, Zenon DEF EndReadOnly
  <2>6. CASE CompleteSub(t)  BY ONLY <2>6, Zenon DEF CompleteSub
  <2>7. CASE CompleteResetInfo(t)  BY ONLY <1>0, <2>7, ExceptSame, Zenon DEF CompleteResetInfo
  <2>. QED  BY ONLY <1>0, <2>1, <2>2, <2>3, <2>4, <2>5, <2>6, <2>7, Zenon DEF PointFrame
<1>2. Len(order) \in Nat /\ Len(order') \in Nat /\ Len(order) <= Len(order')
  BY ONLY <1>0, Zenon DEF OrderFrame
<1>3. build_from[t] \in Nat /\ build_from[t] <= Len(order)  BY ONLY <1>0, Zenon DEF BuildInv
<1>. QED  BY ONLY <1>1, <1>2, <1>3

\* build_mvcc_info, step by step.
LEMMA OwnBuild ==
  ASSUME IInv, PInv, BuildsAreShort, NEW t \in Trans, ThreadStep(t)
  PROVE  BuildInv(t)'
<1>0. /\ TypeInv /\ OrderTypes /\ PositionInv /\ RingInv /\ BuildInv(t) /\ t \in Trans
  BY Zenon DEF IInv, PInv
<1>t. /\ pc \in [Trans -> Labels] /\ index \in [Trans -> Indices] /\ version \in [Trans -> Nat]
      /\ low \in [Trans -> Lows \cup {MVCCID_NULL}] /\ build_from \in [Trans -> Nat]
      /\ copied \in [Trans -> [done : SUBSET Ids, start : Nat \ {0}]]
      /\ position \in Indices /\ history \in [Indices -> Status] /\ order \in Seq(Ids)
      /\ index[t] \in Indices /\ build_from[t] \in Nat
  BY ONLY <1>0, Zenon DEF TypeInv, OrderTypes
<1>n. Len(order) \in Nat  BY ONLY <1>t
<1>b. build_from'[t] <= Len(order')  BY BuildFromStep, Zenon
<1>l. build_from[t] <= Len(order)  BY ONLY <1>0, Zenon DEF BuildInv
<1>1. CASE pc'[t] \notin {"store_lowest", "load_position", "load_version", "copy_from", "recheck"}
  BY ONLY <1>1, <1>b, Zenon DEF BuildInv
<1>2. CASE BuildLoadLowest(t)
  <2>1. /\ pc' = [pc EXCEPT ![t] = IF fresh[t] THEN "store_lowest" ELSE "load_position"]
        /\ low' = [low EXCEPT ![t] = lowest_active] /\ order' = order
    BY ONLY <1>2, Zenon DEF BuildLoadLowest, Goto, ghostVars
  <2>2. pc'[t] \in {"store_lowest", "load_position"} /\ low'[t] = lowest_active
    BY ONLY <1>0, <1>t, <2>1, ExceptSame, Zenon
  <2>3. AllBelow(low'[t], Published')
    <3>1. AllBelow(lowest_active, Published)  BY LowestPublished, Zenon
    <3>2. Published' = Published  BY ONLY <2>1, Zenon DEF Published
    <3>. QED  BY ONLY <2>2, <3>1, <3>2, Zenon
  <2>. QED  BY ONLY <1>b, <2>2, <2>3, Zenon DEF BuildInv
<1>3. CASE BuildStoreLowest(t)
  <2>1. /\ pc[t] = "store_lowest" /\ pc' = [pc EXCEPT ![t] = "load_position"]
        /\ low' = low /\ order' = order
    BY ONLY <1>3, Zenon DEF BuildStoreLowest, Goto, ghostVars
  <2>2. pc'[t] = "load_position"  BY ONLY <1>0, <1>t, <2>1, ExceptSame, Zenon
  <2>3. AllBelow(low'[t], Published')
    <3>1. AllBelow(low[t], Published)  BY ONLY <1>0, <2>1, Zenon DEF BuildInv
    <3>2. Published' = Published  BY ONLY <2>1, Zenon DEF Published
    <3>. QED  BY ONLY <2>1, <3>1, <3>2, Zenon
  <2>. QED  BY ONLY <1>b, <2>2, <2>3, Zenon DEF BuildInv
<1>4. CASE BuildLoadPosition(t)
  <2>1. /\ pc[t] = "load_position" /\ pc' = [pc EXCEPT ![t] = "load_version"]
        /\ index' = [index EXCEPT ![t] = position] /\ UNCHANGED <<low, order, history, build_from>>
    BY ONLY <1>4, Zenon DEF BuildLoadPosition, Goto, ghostVars, statusVars
  <2>2. pc'[t] = "load_version" /\ index'[t] = position
    BY ONLY <1>0, <1>t, <2>1, ExceptSame, Zenon
  <2>3. AllBelow(low[t], DoneIn(order, Len(order)))
    BY ONLY <1>0, <2>1, Zenon DEF BuildInv, Published
  <2>4. history[position].version = Len(order) /\ position = Len(order) % HISTORY_MAX_SIZE
    BY ONLY <1>0, Zenon DEF PositionInv
  <2>5. Len(order) # 0 \/ position = 0
    <3>1. 0 % HISTORY_MAX_SIZE = 0
      <4>1. 0 \in Int /\ 0 >= 0 /\ HISTORY_MAX_SIZE \in Int /\ HISTORY_MAX_SIZE > 0
            /\ 0 < HISTORY_MAX_SIZE /\ 0 = HISTORY_MAX_SIZE * 0 + 0
        BY ONLY RingSize
      <4>. QED  BY ONLY <4>1, Remainder, Zenon
    <3>. QED  BY ONLY <2>4, <3>1, Zenon
  <2>6. GoodNext(t, history'[index'[t]].version)
    BY ONLY <1>l, <2>1, <2>2, <2>3, <2>4, <2>5, Zenon DEF GoodNext
  <2>7. \E n \in build_from'[t] .. Len(order') : index'[t] = n % HISTORY_MAX_SIZE
    <3>1. Len(order) \in build_from[t] .. Len(order)  BY ONLY <1>t, <1>n, <1>l
    <3>. QED  BY ONLY <2>1, <2>2, <2>4, <3>1, Zenon
  <2>. QED  BY ONLY <1>b, <2>2, <2>6, <2>7, Zenon DEF BuildInv, Good, GoodNext
<1>5. CASE BuildLoadVersion(t)
  <2>1. /\ pc[t] = "load_version" /\ pc' = [pc EXCEPT ![t] = "copy_from"]
        /\ version' = [version EXCEPT ![t] = history[index[t]].version]
        /\ UNCHANGED <<low, order, history, build_from, index, mutex>>
    BY ONLY <1>5, Zenon DEF BuildLoadVersion, Goto, ghostVars, statusVars
  <2>2. pc'[t] = "copy_from" /\ version'[t] = history[index[t]].version
    BY ONLY <1>0, <1>t, <2>1, ExceptSame, Zenon
  <2>3. Good(t, history[index[t]].version)  BY ONLY <1>0, <2>1, Zenon DEF BuildInv
  <2>4. ~BeingWritten(index[t])  BY <2>1, NotOverwritten, Zenon
  <2>5. history[index[t]].version <= Len(order)  BY ONLY <1>0, <1>t, <2>4, Zenon DEF RingInv
  <2>6. ~BeingWritten(index[t])'
    <3>1. ASSUME NEW h \in mutex', pc'[h] = "copy_to", index'[h] = index'[t] PROVE FALSE
      <4>1. h # t  BY ONLY <2>2, <3>1
      <4>2. h \in Trans  BY ONLY <1>0, <2>1, <3>1, Zenon DEF TypeInv
      <4>3. pc[h] = "copy_to"  BY ONLY <1>t, <2>1, <3>1, <4>1, <4>2, ExceptOther, Zenon
      <4>. QED  BY ONLY <2>1, <2>4, <3>1, <4>3, Zenon DEF BeingWritten
    <3>. QED  BY ONLY <3>1, Zenon DEF BeingWritten
  <2>. QED  BY ONLY <1>b, <2>1, <2>2, <2>3, <2>5, <2>6, Zenon DEF BuildInv, Good
<1>6. CASE BuildCopy(t)
  <2>1. /\ pc[t] = "copy_from" /\ pc' = [pc EXCEPT ![t] = "recheck"]
        /\ UNCHANGED <<low, order, history, build_from, index, mutex, version>>
        /\ \E c \in ReadsOf(index[t]) : copied' = [copied EXCEPT ![t] = c]
    BY ONLY <1>6, Zenon DEF BuildCopy, Goto, ghostVars, statusVars
  <2>2. pc'[t] = "recheck"  BY ONLY <1>0, <1>t, <2>1, ExceptSame, Zenon
  <2>3. /\ Good(t, history[index[t]].version) /\ Good(t, version[t]) /\ version[t] <= Len(order)
        /\ version[t] = history[index[t]].version => ~BeingWritten(index[t])
    BY ONLY <1>0, <2>1, Zenon DEF BuildInv
  <2>4. ~BeingWritten(index[t]) => ~BeingWritten(index[t])'
    <3>. SUFFICES ASSUME ~BeingWritten(index[t]),
                         NEW h \in mutex', pc'[h] = "copy_to", index'[h] = index'[t] PROVE FALSE
      BY Zenon DEF BeingWritten
    <3>1. h # t  BY ONLY <2>2, pc'[h] = "copy_to"
    <3>2. h \in Trans  BY ONLY <1>0, <2>1, h \in mutex', Zenon DEF TypeInv
    <3>3. pc[h] = "copy_to"
      BY ONLY <1>t, <2>1, <3>1, <3>2, pc'[h] = "copy_to", ExceptOther, Zenon
    <3>. QED
      BY ONLY <2>1, <3>3, ~BeingWritten(index[t]), h \in mutex', index'[h] = index'[t], Zenon
      DEF BeingWritten
  <2>5. version[t] = history[index[t]].version => copied'[t].done = DoneIn(order, version[t])
    <3>. SUFFICES ASSUME version[t] = history[index[t]].version
                  PROVE  copied'[t].done = DoneIn(order, version[t])
      OBVIOUS
    <3>1. ~BeingWritten(index[t])  BY ONLY <2>3, version[t] = history[index[t]].version, Zenon
    <3>2. PICK c \in ReadsOf(index[t]) : copied' = [copied EXCEPT ![t] = c]  BY ONLY <2>1, Zenon
    <3>3. copied'[t] = c  BY ONLY <1>0, <1>t, <3>2, ExceptSame, Zenon
    <3>4. c = [done |-> history[index[t]].done, start |-> history[index[t]].start]
      BY ONLY <3>1, <3>2, Zenon DEF ReadsOf
    <3>5. c.done = history[index[t]].done  BY ONLY <3>4
    <3>6. version[t] # 0 \/ index[t] = 0  BY ONLY <2>3, Zenon DEF Good
    <3>7. history[index[t]].done = DoneIn(order, history[index[t]].version)
      BY ONLY <1>0, <1>t, <3>1, <3>6, version[t] = history[index[t]].version, Zenon DEF RingInv
    <3>. QED  BY ONLY <3>3, <3>5, <3>7, version[t] = history[index[t]].version, Zenon
  <2>. QED  BY ONLY <1>b, <2>1, <2>2, <2>3, <2>4, <2>5, Zenon DEF BuildInv, Good
<1>. QED
  <2>1. PointFrame(t)  BY PointFrames, Zenon
  <2>. QED  BY ONLY <2>1, <1>1, <1>2, <1>3, <1>4, <1>5, <1>6, Zenon DEF PointFrame
-----------------------------------------------------------------------------
\* Snapshots.

\* Snapshot s with the adjustments d is a point in the order of completions,
\* from the completion of number f on.
Point(s, d, f, q) ==
  \E n \in f .. Len(q) : /\ s.done = DoneIn(q, n) \cup d
                         /\ AllBelow(s.lowest, DoneIn(q, n))
                         /\ \A i \in s.done : i < s.highest

\* It stays one as transactions complete.
LEMMA PointStays ==
  ASSUME OrderFrame, NEW s, NEW d, NEW f \in Nat, Point(s, d, f, order)
  PROVE  Point(s, d, f, order')
<1>1. PICK n \in f .. Len(order) : /\ s.done = DoneIn(order, n) \cup d
                                   /\ AllBelow(s.lowest, DoneIn(order, n))
                                   /\ \A i \in s.done : i < s.highest
  BY Zenon DEF Point
<1>2. /\ Len(order) \in Nat /\ Len(order') \in Nat /\ Len(order) <= Len(order')
      /\ \A j \in 0 .. Len(order) : DoneIn(order', j) = DoneIn(order, j)
  BY Zenon DEF OrderFrame
<1>3. n \in 0 .. Len(order) /\ n \in f .. Len(order')  BY ONLY <1>1, <1>2, f \in Nat
<1>. QED  BY ONLY <1>1, <1>2, <1>3, Zenon DEF Point

\* logtb_complete_sub_mvcc adds the sub-transaction to the snapshot of its parent.
LEMMA AdjustedPoint ==
  ASSUME NEW s \in Snapshots, s.valid, NEW i \in Ids, NEW d, NEW f, NEW q, Point(s, d, f, q)
  PROVE  Point(Adjusted(s, i), d \cup {i}, f, q)
<1>1. PICK n \in f .. Len(q) : /\ s.done = DoneIn(q, n) \cup d
                               /\ AllBelow(s.lowest, DoneIn(q, n))
                               /\ \A j \in s.done : j < s.highest
  BY Zenon DEF Point
<1>2. i \in Int /\ s.highest \in Int /\ s.done \in SUBSET Ids /\ \A j \in Ids : j \in Int
  BY Bounds DEF Ids, Snapshots
<1>3. PICK h \in Int : h = IF i >= s.highest THEN i + 1 ELSE s.highest  BY ONLY <1>2
<1>4. Adjusted(s, i) = [s EXCEPT !.highest = h, !.done = s.done \cup {i}]
  BY <1>3, s.valid, Zenon DEF Adjusted
<1>5. /\ Adjusted(s, i).highest = h /\ Adjusted(s, i).done = s.done \cup {i}
      /\ Adjusted(s, i).lowest = s.lowest
  BY ONLY <1>4, s \in Snapshots DEF Snapshots
<1>6. ASSUME NEW j \in s.done \cup {i} PROVE j < h
  <2>1. j \in Int /\ (j = i \/ j < s.highest)  BY ONLY <1>1, <1>2, <1>6, Zenon
  <2>. QED  BY ONLY <1>2, <1>3, <2>1
<1>7. Adjusted(s, i).done = DoneIn(q, n) \cup (d \cup {i})  BY ONLY <1>1, <1>5, Zenon
<1>. QED  BY ONLY <1>1, <1>5, <1>6, <1>7, Zenon DEF Point

\* The sub-transaction that logtb_complete_sub_mvcc completes is the innermost.
LEMMA SubId ==
  ASSUME IInv, NEW t \in Trans, CompleteSub(t)
  PROVE  Last(sub_ids[t]) \in Ids
<1>1. op[t] = "sub" /\ ThreadInv(t) /\ sub_ids[t] \in Seq(Ids)
  BY Zenon DEF CompleteSub, IInv, TypeInv
<1>2. sub_ids[t] # <<>>  BY ONLY <1>1, Zenon DEF ThreadInv
<1>. QED  BY ONLY <1>1, <1>2, FrontFacts, MembersFacts, Zenon

\* The snapshot of a thread, through its own steps.
LEMMA OwnSnapshot ==
  ASSUME IInv, PInv, NEW t \in Trans, ThreadStep(t)
  PROVE  SnapshotInv(t)'
<1>0. /\ TypeInv /\ OrderTypes /\ SnapshotInv(t) /\ BuildInv(t) /\ ThreadInv(t) /\ t \in Trans
  BY Zenon DEF IInv, PInv
<1>t. /\ snapshot \in [Trans -> Snapshots] /\ own_done \in [Trans -> SUBSET Ids]
      /\ build_from \in [Trans -> Nat] /\ op \in [Trans -> {"none", "commit", "abort", "sub"}]
      /\ build_from[t] \in Nat /\ snapshot[t] \in Snapshots
  BY ONLY <1>0, Zenon DEF TypeInv, OrderTypes
<1>f. OrderFrame /\ TableFrame(t) /\ PointFrame(t)
  BY <1>0, OrderStep, TableFrames, PointFrames, Zenon
<1>p. InUse(t) => Point(snapshot[t], own_done[t], build_from[t], order)
  BY ONLY <1>0, Zenon DEF SnapshotInv, Point
<1>. SUFFICES ASSUME snapshot'[t].valid, op'[t] \in {"none", "sub"}
              PROVE  Point(snapshot'[t], own_done'[t], build_from'[t], order')
  BY Zenon DEF SnapshotInv, InUse, Point
<1>1. CASE UNCHANGED <<snapshot, own_done, build_from>>
  <2>1. InUse(t)
    <3>1. snapshot[t].valid  BY ONLY <1>1, snapshot'[t].valid, Zenon
    <3>2. CASE op' = op  BY ONLY <3>1, <3>2, op'[t] \in {"none", "sub"}, Zenon DEF InUse
    <3>3. CASE Completes(t)
      <4>1. pc[t] = "run"  BY ONLY <3>3, Zenon DEF Completes, CompleteStart
      <4>. QED  BY ONLY <1>0, <3>1, <4>1, Zenon DEF InUse, ThreadInv
    <3>4. CASE CompleteSub(t)
      BY ONLY <3>1, <3>4, Zenon DEF CompleteSub, InUse
    <3>5. CASE LogComplete(t)
      <4>1. pc[t] = "eot"  BY ONLY <3>5, Zenon DEF LogComplete
      <4>. QED  BY ONLY <1>0, <3>1, <4>1, Zenon DEF ThreadInv
    <3>. QED  BY ONLY <1>f, <3>2, <3>3, <3>4, <3>5, Zenon DEF TableFrame
  <2>. QED  BY ONLY <1>1, <1>f, <1>p, <1>t, <2>1, PointStays, Zenon
<1>2. CASE BuildStart(t)
  BY ONLY <1>2, snapshot'[t].valid, Zenon DEF BuildStart
<1>3. CASE InvalidateSnapshot(t) \/ EndReadOnly(t) \/ CompleteResetInfo(t)
  <2>1. snapshot'[t] = NoSnapshot
    BY ONLY <1>3, <1>t, <1>0, ExceptSame, Zenon
    DEF InvalidateSnapshot, EndReadOnly, CompleteResetInfo
  <2>. QED  BY ONLY <2>1, snapshot'[t].valid DEF NoSnapshot
<1>4. CASE BuildAccept(t)
  <2>. DEFINE s == [valid |-> TRUE, lowest |-> low[t],
                    highest |-> HighestCompletedOf(copied[t]) + 1, done |-> copied[t].done]
  <2>1. /\ pc[t] = "recheck" /\ version[t] = history[index[t]].version
        /\ snapshot' = [snapshot EXCEPT ![t] = s]
        /\ own_done' = [own_done EXCEPT ![t] = {}] /\ UNCHANGED <<order, build_from>>
    BY ONLY <1>4, Zenon DEF BuildAccept
  <2>2. snapshot'[t] = s /\ own_done'[t] = {}
    BY ONLY <1>0, <1>t, <2>1, ExceptSame, Zenon
  <2>3. /\ copied[t].done = DoneIn(order, version[t]) /\ version[t] <= Len(order)
        /\ build_from[t] <= version[t] /\ AllBelow(low[t], DoneIn(order, version[t]))
    BY ONLY <1>0, <2>1, Zenon DEF BuildInv, Good
  <2>4. /\ HighestCompletedOf(copied[t]) \in Nat
        /\ \A i \in copied[t].done : i <= HighestCompletedOf(copied[t])
    <3>1. copied[t] \in [done : SUBSET Ids, start : Nat \ {0}]  BY ONLY <1>0, Zenon DEF TypeInv
    <3>2. copied[t].done \in SUBSET Ids /\ copied[t].start \in Nat \ {0}  BY ONLY <3>1
    <3>. QED  BY ONLY <3>2, HighestFacts, Zenon
  <2>5. \A i \in copied[t].done : i < HighestCompletedOf(copied[t]) + 1
    <3>1. copied[t].done \subseteq Int
      <4>1. copied[t] \in [done : SUBSET Ids, start : Nat \ {0}]  BY ONLY <1>0, Zenon DEF TypeInv
      <4>. QED  BY ONLY <4>1, Bounds DEF Ids
    <3>. QED  BY ONLY <2>4, <3>1
  <2>6. version[t] \in build_from[t] .. Len(order)
    <3>1. version[t] \in Nat /\ order \in Seq(Ids)  BY ONLY <1>0, Zenon DEF TypeInv, OrderTypes
    <3>. QED  BY ONLY <1>t, <2>3, <3>1
  <2>7. s.done = copied[t].done /\ s.lowest = low[t] /\ s.highest = HighestCompletedOf(copied[t]) + 1
    OBVIOUS
  <2>. HIDE DEF s
  <2>8. s.done = DoneIn(order, version[t]) \cup {}  BY ONLY <2>3, <2>7, Zenon
  <2>9. Point(s, {}, build_from[t], order)
    BY ONLY <2>3, <2>5, <2>6, <2>7, <2>8, Zenon DEF Point
  <2>. QED  BY ONLY <2>1, <2>2, <2>9, Zenon
<1>5. CASE CompleteSub(t)
  <2>1. /\ op[t] = "sub" /\ UNCHANGED <<order, build_from>>
        /\ snapshot' = [snapshot EXCEPT ![t] = Adjusted(snapshot[t], Last(sub_ids[t]))]
        /\ own_done' = [own_done EXCEPT ![t] = IF snapshot[t].valid THEN own_done[t] \cup {Last(sub_ids[t])}
                                                                    ELSE own_done[t]]
    BY ONLY <1>5, Zenon DEF CompleteSub
  <2>2. Last(sub_ids[t]) \in Ids  BY <1>5, SubId, Zenon
  <2>3. snapshot'[t] = Adjusted(snapshot[t], Last(sub_ids[t]))
    BY ONLY <1>0, <1>t, <2>1, ExceptSame, Zenon
  <2>4. snapshot[t].valid
    BY ONLY <1>t, <2>2, <2>3, snapshot'[t].valid, AdjustedFacts, Zenon
  <2>5. own_done'[t] = own_done[t] \cup {Last(sub_ids[t])}
    BY ONLY <1>0, <1>t, <2>1, <2>4, ExceptSame, Zenon
  <2>6. Point(snapshot[t], own_done[t], build_from[t], order)
    BY ONLY <1>p, <2>1, <2>4, Zenon DEF InUse
  <2>7. Point(Adjusted(snapshot[t], Last(sub_ids[t])), own_done[t] \cup {Last(sub_ids[t])}, build_from[t], order)
    BY ONLY <1>t, <2>2, <2>4, <2>6, AdjustedPoint, Zenon
  <2>. QED  BY ONLY <2>1, <2>3, <2>5, <2>7, Zenon
<1>. QED  BY ONLY <1>f, <1>1, <1>2, <1>3, <1>4, <1>5, Zenon DEF PointFrame

\* The builds and the snapshots, through every step.
LEMMA BuildsStep ==
  IInv /\ PInv /\ BuildsAreShort /\ [Next]_vars => (\A u \in Trans : BuildInv(u) /\ SnapshotInv(u))'
<1>. SUFFICES ASSUME IInv, PInv, BuildsAreShort, [Next]_vars, NEW u \in Trans
              PROVE  BuildInv(u)' /\ SnapshotInv(u)'
  BY Zenon
<1>1. ASSUME NEW t \in Trans, ThreadStep(t) PROVE BuildInv(u)' /\ SnapshotInv(u)'
  <2>1. CASE u = t
    <3>1. BuildInv(t)' /\ SnapshotInv(t)'  BY <1>1, OwnBuild, OwnSnapshot, Zenon
    <3>. QED  BY ONLY <2>1, <3>1, Zenon
  <2>2. CASE u # t
    <3>1. BuildInv(u)'  BY <1>1, <2>2, OtherBuild, Zenon
    <3>2. OrderTypes /\ TypeInv /\ SnapshotInv(u) /\ build_from[u] \in Nat
      BY Zenon DEF PInv, IInv, OrderTypes
    <3>3. Same(u) /\ SameBuild(u) /\ OrderFrame
      BY <1>1, <2>2, <3>2, ThreadFrame, BuildFrame, OrderStep, Zenon
    <3>4. InUse(u)' => Point(snapshot[u], own_done[u], build_from[u], order)
      BY ONLY <3>2, <3>3, Zenon DEF InUse, Same, SnapshotInv, Point
    <3>5. InUse(u)' => Point(snapshot[u], own_done[u], build_from[u], order')
      BY ONLY <3>2, <3>3, <3>4, PointStays, Zenon
    <3>6. SnapshotInv(u)'
      BY ONLY <3>3, <3>5, Zenon DEF SnapshotInv, Point, Same, SameBuild
    <3>. QED  BY ONLY <3>1, <3>6, Zenon
  <2>. QED  BY <2>1, <2>2, Zenon
<1>2. CASE VacuumStep \/ UNCHANGED vars
  <2>1. UNCHANGED TableVars  BY <1>2, VacuumFrame, Zenon
  <2>2. BuildInv(u) /\ SnapshotInv(u)  BY Zenon DEF PInv
  <2>3. BuildInv(u)'
    BY ONLY <2>1, <2>2, Zenon DEF BuildInv, Good, BeingWritten, Published, TableVars
  <2>4. SnapshotInv(u)'
    BY ONLY <2>1, <2>2, Zenon DEF SnapshotInv, InUse, TableVars
  <2>. QED  BY ONLY <2>3, <2>4, Zenon
<1>. QED  BY <1>1, <1>2, Steps, Zenon
\* The history variables have their types.
LEMMA OrderTypesStep == IInv /\ PInv /\ [Next]_vars => OrderTypes'
<1>. SUFFICES ASSUME IInv, PInv, [Next]_vars PROVE OrderTypes'  BY Zenon
<1>0. /\ order \in Seq(Ids) /\ build_from \in [Trans -> Nat] /\ own_done \in [Trans -> SUBSET Ids]
      /\ OrderTypes /\ TypeInv
  BY Zenon DEF PInv, IInv, OrderTypes
<1>1. ASSUME NEW t \in Trans, ThreadStep(t) PROVE OrderTypes'
  <2>1. order' \in Seq(Ids)  BY <1>0, <1>1, OrderStep, Zenon DEF OrderFrame
  <2>2. Len(order) \in Nat /\ 0 \in Nat  BY ONLY <1>0
  <2>3. {} \in SUBSET Ids  OBVIOUS
  <2>4. PointFrame(t)  BY <1>1, PointFrames, Zenon
  <2>5. build_from' \in [Trans -> Nat] /\ own_done' \in [Trans -> SUBSET Ids]
    <3>1. CASE UNCHANGED <<snapshot, own_done, build_from>>  BY ONLY <1>0, <3>1, Zenon
    <3>2. CASE BuildStart(t)
      BY ONLY <1>0, <2>2, <3>2, ExceptType, Zenon DEF BuildStart
    <3>3. CASE BuildAccept(t)
      BY ONLY <1>0, <2>3, <3>3, ExceptType, Zenon DEF BuildAccept
    <3>4. CASE InvalidateSnapshot(t)
      BY ONLY <1>0, <2>2, <2>3, <3>4, ExceptType, Zenon DEF InvalidateSnapshot
    <3>5. CASE EndReadOnly(t)
      BY ONLY <1>0, <2>2, <2>3, <3>5, ExceptType, Zenon DEF EndReadOnly
    <3>6. CASE CompleteSub(t)
      <4>1. Last(sub_ids[t]) \in Ids  BY <1>1, <3>6, SubId, Zenon
      <4>2. PICK d : d = IF snapshot[t].valid THEN own_done[t] \cup {Last(sub_ids[t])} ELSE own_done[t]
        OBVIOUS
      <4>3. build_from' = build_from /\ own_done' = [own_done EXCEPT ![t] = d]
        BY ONLY <3>6, <4>2, Zenon DEF CompleteSub
      <4>4. own_done[t] \in SUBSET Ids  BY ONLY <1>0, <1>1, Zenon
      <4>5. d \in SUBSET Ids  BY ONLY <4>1, <4>2, <4>4, Zenon
      <4>. QED  BY ONLY <1>0, <4>3, <4>5, ExceptType, Zenon
    <3>7. CASE CompleteResetInfo(t)
      BY ONLY <1>0, <2>2, <2>3, <3>7, ExceptType, Zenon DEF CompleteResetInfo
    <3>. QED  BY ONLY <2>4, <3>1, <3>2, <3>3, <3>4, <3>5, <3>6, <3>7, Zenon DEF PointFrame
  <2>. QED  BY ONLY <2>1, <2>5, Zenon DEF OrderTypes
<1>2. CASE VacuumStep \/ UNCHANGED vars
  <2>1. UNCHANGED TableVars  BY <1>2, VacuumFrame, Zenon
  <2>. QED  BY ONLY <1>0, <2>1, Zenon DEF OrderTypes, TableVars
<1>. QED  BY <1>1, <1>2, Steps, Zenon

\* The state after restart.
LEMMA InitPInv == Init => PInv
<1>. SUFFICES ASSUME Init PROVE PInv  BY Zenon
<1>0. /\ order = <<>> /\ build_from = [t \in Trans |-> 0] /\ own_done = [t \in Trans |-> {}]
      /\ current = RestartStatus /\ position = 0 /\ mutex = {} /\ sub_ids = [t \in Trans |-> <<>>]
      /\ op = [t \in Trans |-> "none"] /\ pc = [t \in Trans |-> "run"]
      /\ snapshot = [t \in Trans |-> NoSnapshot]
      /\ history = [k \in Indices |->
                      IF k = 0 THEN RestartStatus ELSE [version |-> 0, done |-> {},
                        start |-> MVCCID_FIRST]]
  BY Zenon DEF Init
<1>1. Len(order) = 0 /\ 0 <= 0 /\ order \in Seq(Ids)  BY ONLY <1>0
<1>2. RestartStatus.version = 0  BY DEF RestartStatus
<1>3. DoneIn(order, 0) = RestartStatus.done
  <2>1. {j \in 1 .. Len(order) : j <= 0} = {}  BY ONLY <1>1
  <2>. QED  BY ONLY <2>1, Zenon DEF DoneIn
<1>4. 0 % HISTORY_MAX_SIZE = 0 /\ 0 \in Indices
  <2>1. 0 \in Int /\ 0 >= 0 /\ HISTORY_MAX_SIZE \in Int /\ HISTORY_MAX_SIZE > 0
        /\ 0 < HISTORY_MAX_SIZE /\ 0 = HISTORY_MAX_SIZE * 0 + 0
    BY ONLY RingSize
  <2>2. 0 % HISTORY_MAX_SIZE = 0  BY ONLY <2>1, Remainder, Zenon
  <2>3. 0 \in Indices  BY ONLY RingSize DEF Indices
  <2>. QED  BY ONLY <2>2, <2>3, Zenon
<1>5. \A k \in Indices : history[k].version = 0
  <2>. SUFFICES ASSUME NEW k \in Indices PROVE history[k].version = 0  OBVIOUS
  <2>1. CASE k = 0  BY ONLY <1>0, <1>2, <2>1, k \in Indices, Zenon
  <2>2. CASE k # 0
    <3>1. history[k] = [version |-> 0, done |-> {}, start |-> MVCCID_FIRST]
      BY ONLY <1>0, <2>2, k \in Indices, Zenon
    <3>. QED  BY ONLY <3>1
  <2>. QED  BY <2>1, <2>2, Zenon
<1>6. history[0] = RestartStatus  BY ONLY <1>0, <1>4, Zenon
<1>7. OrderTypes
  <2>1. 0 \in Nat  OBVIOUS
  <2>. QED  BY ONLY <1>0, <1>1, <2>1, Zenon DEF OrderTypes
<1>8. SubInv
  <2>1. Members(<<>>) = {}  BY DEF Members
  <2>. QED  BY ONLY <1>0, <2>1, Zenon DEF SubInv
<1>9. \A h \in Trans : ~Copying(h)  BY ONLY <1>0, Zenon DEF Copying
<1>10. CurrentInv  BY ONLY <1>0, <1>1, <1>2, <1>3, <1>9, Zenon DEF CurrentInv, Published
<1>11. PositionInv  BY ONLY <1>0, <1>1, <1>4, <1>5, <1>9, Zenon DEF PositionInv
<1>12. RingInv  BY ONLY <1>1, <1>3, <1>5, <1>6, Zenon DEF RingInv
<1>13. ASSUME NEW t \in Trans PROVE BuildInv(t) /\ SnapshotInv(t)
  <2>1. build_from[t] = 0 /\ pc[t] = "run" /\ snapshot[t] = NoSnapshot  BY ONLY <1>0, <1>13, Zenon
  <2>2. ~snapshot[t].valid  BY ONLY <2>1 DEF NoSnapshot
  <2>. QED  BY ONLY <1>1, <2>1, <2>2, Zenon DEF BuildInv, SnapshotInv, InUse
<1>. QED  BY ONLY <1>7, <1>8, <1>10, <1>11, <1>12, <1>13, Zenon DEF PInv

\* mvcc_is_id_in_snapshot takes just the other ids for active.
LEMMA SnapshotsArePoints == IInv /\ PInv => SnapshotIsAPointInTime
<1>. SUFFICES ASSUME IInv, PInv, NEW t \in Trans, InUse(t)
              PROVE  \E n \in build_from[t] .. Len(Completions) :
                       {i \in Ids : ~InSnapshot(t, i)}
                         = (RestartStatus.done \cup {Completions[k] : k \in 1 .. n}) \cup own_done[t]
  BY Zenon DEF SnapshotIsAPointInTime
<1>0. /\ order \in Seq(Ids) /\ snapshot[t] \in Snapshots /\ SnapshotInv(t)
      /\ build_from[t] \in Nat
  BY Zenon DEF IInv, PInv, TypeInv, OrderTypes
<1>1. PICK n \in build_from[t] .. Len(order) :
        /\ snapshot[t].done = DoneIn(order, n) \cup own_done[t]
        /\ AllBelow(snapshot[t].lowest, DoneIn(order, n))
        /\ \A i \in snapshot[t].done : i < snapshot[t].highest
  BY ONLY <1>0, InUse(t), Zenon DEF SnapshotInv
<1>2. /\ Len(order) \in Nat /\ Len(Completions) \in Nat /\ Len(order) <= Len(Completions)
      /\ \A k \in 1 .. Len(order) : Completions[k] = order[k]
  <2>1. PICK e : Completions = order \/ Completions = Append(order, e)
    BY ONLY Zenon
    DEF Completions
  <2>. HIDE DEF Completions
  <2>2. CASE Completions = order  BY ONLY <1>0, <2>2
  <2>3. CASE Completions = Append(order, e)  BY ONLY <1>0, <2>3
  <2>. QED  BY ONLY <2>1, <2>2, <2>3
<1>3. n \in build_from[t] .. Len(Completions) /\ 1 .. n = {j \in 1 .. Len(order) : j <= n}
      /\ \A k \in 1 .. n : k \in 1 .. Len(order)
  <2>. HIDE DEF Completions
  <2>. QED  BY ONLY <1>0, <1>1, <1>2
<1>4. RestartStatus.done \cup {Completions[k] : k \in 1 .. n} = DoneIn(order, n)
  <2>1. \A k \in 1 .. n : Completions[k] = order[k]  BY ONLY <1>2, <1>3, Zenon
  <2>2. {Completions[k] : k \in 1 .. n} = {order[k] : k \in 1 .. n}  BY ONLY <2>1, Zenon
  <2>. QED  BY ONLY <1>3, <2>2, Zenon DEF DoneIn
<1>5. {i \in Ids : ~InSnapshot(t, i)} = snapshot[t].done
  <2>0. /\ snapshot[t].done \subseteq Ids /\ snapshot[t].lowest \in Int /\ snapshot[t].highest \in Int
        /\ \A i \in Ids : i \in Int
    BY ONLY <1>0, Bounds DEF Snapshots, Ids
  <2>1. \A i \in Ids : /\ i < snapshot[t].lowest <=> ~(i >= snapshot[t].lowest)
                       /\ i < snapshot[t].highest <=> ~(i >= snapshot[t].highest)
    BY ONLY <2>0
  <2>2. \A i \in Ids : i < snapshot[t].lowest => i \in snapshot[t].done
    BY ONLY <1>1, Zenon DEF AllBelow
  <2>3. \A i \in Ids : ~InSnapshot(t, i) <=> i \in snapshot[t].done
    BY ONLY <1>1, <2>1, <2>2, Zenon DEF InSnapshot
  <2>. QED  BY ONLY <2>0, <2>3, Zenon
<1>. QED  BY ONLY <1>1, <1>3, <1>4, <1>5, Zenon

\* PInv is kept as long as builds are short.
LEMMA PointStep == IInv /\ PInv /\ BuildsAreShort /\ [Next]_vars => PInv'
  BY OrderTypesStep, SubStep, CurrentStep, PositionStep, RingStep, BuildsStep, Zenon DEF PInv

\* A snapshot that build_mvcc_info accepts is the status of the table at one
\* point between the start and the end of the build, although it is copied
\* from the history without a lock while other transactions complete: neither
\* a torn copy nor a mix of two versions passes the recheck of the version.
\* This holds as long as no build falls behind by the whole history before it
\* loads the version; the recheck catches a writer that comes later.
THEOREM PointInTime == Spec /\ []BuildsAreShort => []SnapshotIsAPointInTime
<1>1. Init => PInv  BY InitPInv
<1>2. IInv /\ PInv /\ BuildsAreShort /\ [Next]_vars => PInv'  BY PointStep
<1>3. IInv /\ PInv => SnapshotIsAPointInTime  BY SnapshotsArePoints
<1>. QED  BY <1>1, <1>2, <1>3, Inductive, PTL DEF Spec
=============================================================================
