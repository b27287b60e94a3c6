--------------------------- MODULE MvccTableProofs ---------------------------
(***************************************************************************)
(* Proofs about MvccTable, for any number of transactions and ids, any     *)
(* size of the history ring, any unit of the bit area and any set of       *)
(* in-doubt transactions at restart: the second half of the inductive      *)
(* invariant (the history, the versions, the watermark, the vacuum master  *)
(* and the slots of committed transactions), and the theorems.             *)
(***************************************************************************)
EXTENDS MvccTableInv

-----------------------------------------------------------------------------
\* What the holder of the mutex can do.
LEMMA HolderSteps ==
  ASSUME IInv, NEW t \in Trans, ThreadStep(t), t \in mutex
  PROVE  CompletePublish(t) \/ CompleteSlot(t) \/ CompleteSub(t)
<1>0. pc[t] = "copy_to" \/ pc[t] = "slot"  BY Zenon DEF IInv, ThreadInv, Locked
<1>1. ~GetNewMvccid(t) /\ ~GetNewSubtransactionMvccid(t) /\ ~BuildStart(t) /\ ~BuildMark(t)
  BY ONLY <1>0, Zenon DEF GetNewMvccid, GetNewSubtransactionMvccid, BuildStart, BuildMark
<1>2. ~BuildLoadLowest(t) /\ ~BuildStoreLowest(t) /\ ~BuildLoadPosition(t) /\ ~BuildLoadVersion(t)
  BY ONLY <1>0, Zenon DEF BuildLoadLowest, BuildStoreLowest, BuildLoadPosition, BuildLoadVersion
<1>3. ~BuildCopy(t) /\ ~BuildAccept(t) /\ ~BuildRetry(t) /\ ~InvalidateSnapshot(t)
  BY ONLY <1>0, Zenon DEF BuildCopy, BuildAccept, BuildRetry, InvalidateSnapshot
<1>4. ~EndReadOnly(t) /\ ~Completes(t) /\ ~CompleteLoadGlobal(t) /\ ~CompleteCompute(t)
  BY ONLY <1>0, Zenon
  DEF EndReadOnly, Completes, CompleteStart, CompleteLoadGlobal, CompleteCompute
<1>5. ~CompleteCheckVersion(t) /\ ~AdvanceOldestActive(t) /\ ~CompleteResetInfo(t) /\ ~LogComplete(t)
  BY ONLY <1>0, Zenon
  DEF CompleteCheckVersion, AdvanceOldestActive, CompleteResetInfo, LogComplete
<1>6. ~LockOldestVisible(t) /\ ~ReadThreshold(t)
  BY ONLY <1>0, Zenon DEF LockOldestVisible, ReadThreshold
<1>. QED  BY <1>1, <1>2, <1>3, <1>4, <1>5, <1>6, Zenon DEF ThreadStep, Completes

\* A completed id stays completed.
LEMMA SettledGrows ==
  ASSUME IInv, NEW t \in Trans, ThreadStep(t)
  PROVE  Settled \subseteq Settled' /\ current.done \subseteq current'.done
<1>0. TypeInv /\ OwnersActive /\ ThreadInv(t) /\ t \in Trans /\ MutexInv  BY Zenon DEF IInv, IdInv
<1>1. TableFrame(t)  BY TableFrames, Zenon
<1>2. \A u \in Trans : u # t => Same(u)  BY <1>0, ThreadFrame, Zenon
<1>3. mutex \subseteq Trans  BY <1>0, Zenon DEF TypeInv
<1>4. CASE Completes(t)
  <2>1. PICK o \in {"commit", "abort", "sub"} : CompleteStart(t, o)  BY <1>4, Zenon DEF Completes
  <2>2. PICK i : i = IF o = "sub" THEN Last(sub_ids[t]) ELSE id[t]  BY Zenon
  <2>3. current'.done = current.done \cup {i}
    BY ONLY <1>0, <2>1, <2>2, CompleteStartFacts, Zenon
  <2>4. op \in [Trans -> {"none", "commit", "abort", "sub"}]  BY <1>0, Zenon DEF TypeInv
  <2>5. /\ mutex = {} /\ mutex' = {t} /\ op' = [op EXCEPT ![t] = o] /\ id' = id /\ id[t] # MVCCID_NULL
        /\ pc[t] = "run"
    BY <2>1, Zenon DEF CompleteStart, idVars
  <2>6. op[t] = "none" /\ op'[t] = o
    BY ONLY <1>0, <2>4, <2>5, ExceptSame, Zenon DEF ThreadInv
  <2>7. id[t] \notin current.done  BY ONLY <1>0, <2>5, <2>6, Zenon DEF OwnersActive
  <2>. QED  BY ONLY <2>3, <2>5, <2>6, <2>7, Zenon DEF Settled
<1>5. CASE CompleteSlot(t) \/ CompleteSub(t)
  <2>1. mutex' = {} /\ current' = current
    BY <1>5, Zenon DEF CompleteSlot, CompleteSub
  <2>. QED  BY ONLY <2>1, Zenon DEF Settled
<1>6. CASE current' = current /\ mutex' = mutex
  <2>1. t \in mutex => op'[t] = op[t] /\ id'[t] = id[t]
    <3>1. t \in mutex => CompletePublish(t) \/ CompleteSlot(t) \/ CompleteSub(t)
      BY HolderSteps, Zenon
    <3>. QED  BY ONLY <1>6, <3>1, Zenon DEF CompletePublish, CompleteSlot, CompleteSub, idVars
  <2>2. \A h \in mutex : op'[h] = op[h] /\ id'[h] = id[h]
    BY ONLY <1>2, <1>3, <2>1, Zenon DEF Same
  <2>. QED  BY ONLY <1>6, <2>2, Zenon DEF Settled
<1>. QED  BY ONLY <1>1, <1>4, <1>5, <1>6, Zenon DEF TableFrame

\* What was completed below an id stays so.
LEMMA BelowGrows ==
  ASSUME IInv, NEW t \in Trans, ThreadStep(t), NEW n, Below(n)
  PROVE  \A i \in Ids : i < n => i \in Settled'
  BY SettledGrows, Zenon DEF Below

\* What the steps under the mutex do to the entries and the versions.
LEMMA StartEntry ==
  ASSUME IInv, NEW t \in Trans, Completes(t)
  PROVE  /\ mutex = {} /\ mutex' = {t} /\ pc[t] = "run" /\ pc'[t] = "copy_to"
         /\ index'[t] \in Indices /\ index'[t] = (position + 1) % HISTORY_MAX_SIZE
         /\ version'[t] = current.version + 1
         /\ current'.version = current.version + 1
         /\ history'[index'[t]].version = current.version + 1
         /\ history'[index'[t]].done = history[index'[t]].done
         /\ \A k \in Indices : k # index'[t] => history'[k] = history[k]
<1>0. TypeInv  BY Zenon DEF IInv
<1>1. /\ pc \in [Trans -> Labels] /\ index \in [Trans -> Indices] /\ version \in [Trans -> Nat]
      /\ history \in [Indices -> Status] /\ position \in Indices /\ t \in Trans
  BY <1>0, Zenon DEF TypeInv
<1>2. PICK o \in {"commit", "abort", "sub"} : CompleteStart(t, o)  BY Zenon DEF Completes
<1>3. PICK n, k : n = current.version + 1 /\ k = (position + 1) % HISTORY_MAX_SIZE  BY Zenon
<1>4. /\ pc[t] = "run" /\ mutex = {} /\ mutex' = {t} /\ Goto(t, "copy_to")
      /\ index' = [index EXCEPT ![t] = k] /\ version' = [version EXCEPT ![t] = n]
      /\ history' = [history EXCEPT ![k].version = n]
  BY ONLY <1>2, <1>3, Zenon DEF CompleteStart
<1>5. k \in Indices
  BY ONLY <1>1, <1>3, Bounds DEF Indices
<1>6. pc'[t] = "copy_to" /\ index'[t] = k /\ version'[t] = n
  BY ONLY <1>1, <1>4, ExceptSame, Zenon DEF Goto
<1>7. current'.version = n
  <2>1. PICK i : i = IF o = "sub" THEN Last(sub_ids[t]) ELSE id[t]  BY Zenon
  <2>. QED  BY ONLY <1>0, <1>2, <1>3, <2>1, t \in Trans, CompleteStartFacts, Zenon
<1>8. history'[k].version = n /\ history'[k].done = history[k].done
  BY ONLY <1>1, <1>4, <1>5 DEF Status
<1>9. \A j \in Indices : j # k => history'[j] = history[j]
  BY ONLY <1>1, <1>4, ExceptOther, Zenon
<1>. QED  BY ONLY <1>3, <1>4, <1>5, <1>6, <1>7, <1>8, <1>9, Zenon

\* next_tran_status_finish makes the entry of the completion a copy of the current status.
LEMMA PublishEntry ==
  ASSUME IInv, NEW t \in Trans, CompletePublish(t)
  PROVE  /\ t \in mutex /\ pc[t] = "copy_to" /\ pc'[t] = "slot"
         /\ index'[t] = index[t] /\ version'[t] = version[t]
         /\ index[t] \in Indices /\ position' = index[t]
         /\ history'[index[t]].version = current.version
         /\ history'[index[t]].done = current.done
         /\ \A k \in Indices : k # index[t] => history'[k] = history[k]
<1>0. /\ pc \in [Trans -> Labels] /\ index \in [Trans -> Indices] /\ history \in [Indices -> Status]
      /\ current \in Status /\ t \in Trans
  BY Zenon DEF IInv, TypeInv
<1>1. /\ pc[t] = "copy_to" /\ Goto(t, "slot") /\ UNCHANGED <<index, version>>
      /\ history' = [history EXCEPT ![index[t]] = [current EXCEPT !.version = version[t]]]
      /\ position' = index[t]
  BY Zenon DEF CompletePublish
<1>2. t \in mutex  BY <1>1, Zenon DEF IInv, ThreadInv, Locked
<1>3. version[t] = current.version  BY <1>2, Zenon DEF IInv, VersionInv
<1>4. [current EXCEPT !.version = version[t]] = current  BY ONLY <1>0, <1>3 DEF Status
<1>5. pc'[t] = "slot"  BY ONLY <1>0, <1>1, ExceptSame, Zenon DEF Goto
<1>6. history'[index[t]] = current /\ \A k \in Indices : k # index[t] => history'[k] = history[k]
  BY ONLY <1>0, <1>1, <1>4, ExceptSame, ExceptOther, Zenon
<1>. QED  BY ONLY <1>0, <1>1, <1>2, <1>5, <1>6, Zenon

\* The entries, through every step.
LEMMA EntryStep == IInv /\ [Next]_vars => EntryInv'
<1>. SUFFICES ASSUME IInv, [Next]_vars PROVE EntryInv'  BY Zenon
<1>0. EntryInv /\ MutexInv  BY Zenon DEF IInv
<1>t. /\ current.version \in Nat /\ current'.version \in Nat /\ \A k \in Indices : history[k].version \in Nat
  <2>1. TypeInv /\ TypeInv'  BY TypeStep, Zenon DEF IInv
  <2>. QED  BY ONLY <2>1 DEF TypeInv, Status
<1>1. ASSUME NEW t \in Trans, ThreadStep(t) PROVE EntryInv'
  <2>0. TableFrame(t)  BY <1>1, TableFrames, Zenon
  <2>1. Settled \subseteq Settled' /\ current.done \subseteq current'.done
    BY <1>1, SettledGrows, Zenon
  <2>2. CASE Completes(t)
    <3>1. PICK j \in Indices :
            /\ mutex = {} /\ mutex' = {t} /\ pc'[t] = "copy_to"
            /\ current'.version = current.version + 1
            /\ history'[j].version = current.version + 1 /\ history'[j].done = history[j].done
            /\ \A k \in Indices : k # j => history'[k] = history[k]
      <4>1. /\ mutex = {} /\ mutex' = {t} /\ pc'[t] = "copy_to" /\ index'[t] \in Indices
            /\ current'.version = current.version + 1
            /\ history'[index'[t]].version = current.version + 1
            /\ history'[index'[t]].done = history[index'[t]].done
            /\ \A k \in Indices : k # index'[t] => history'[k] = history[k]
        BY <2>2, StartEntry, Zenon
      <4>. QED  BY ONLY <4>1, Zenon
    <3>2. \A k \in Indices : history'[k].done = history[k].done  BY ONLY <3>1, Zenon
    <3>3. \A k \in Indices : history[k].version <= current.version
      BY ONLY <1>0, Zenon
      DEF EntryInv
    <3>4. \A k \in Indices : history'[k].version <= current'.version  BY ONLY <1>t, <3>1, <3>3
    <3>5. \A k \in Indices : history[k].done \subseteq Settled /\ history[k].done \subseteq current.done
      BY ONLY <1>0, <3>1, Zenon DEF EntryInv
    <3>. QED  BY ONLY <2>1, <3>2, <3>4, <3>5, Zenon DEF EntryInv
  <2>3. CASE CompletePublish(t)
    <3>1. /\ t \in mutex /\ pc[t] = "copy_to" /\ pc'[t] = "slot" /\ index'[t] = index[t]
          /\ index[t] \in Indices
          /\ history'[index[t]].version = current.version /\ history'[index[t]].done = current.done
          /\ \A k \in Indices : k # index[t] => history'[k] = history[k]
      BY <2>3, PublishEntry, Zenon
    <3>2. mutex' = mutex /\ current' = current  BY <2>3, Zenon DEF CompletePublish
    <3>3. \A h \in mutex : h = t  BY ONLY <1>0, <3>1, Zenon DEF MutexInv
    <3>4. current.version <= current.version  BY ONLY <1>t
    <3>. SUFFICES ASSUME NEW k \in Indices
                  PROVE  /\ history'[k].version <= current'.version
                         /\ history'[k].done \subseteq current'.done
                         /\ (\A h \in mutex' : pc'[h] = "slot" => index'[h] # k) =>
                              history'[k].done \subseteq Settled'
      BY Zenon DEF EntryInv
    <3>5. CASE k = index[t]  BY ONLY <3>1, <3>2, <3>4, <3>5, Zenon
    <3>6. CASE k # index[t]
      <4>1. \A h \in mutex : pc[h] # "slot"  BY ONLY <3>1, <3>3, Zenon
      <4>. QED  BY ONLY <1>0, <2>1, <3>1, <3>2, <3>6, <4>1, k \in Indices, Zenon DEF EntryInv
    <3>. QED  BY <3>5, <3>6, Zenon
  <2>4. CASE CompleteSlot(t) \/ CompleteSub(t)
    <3>1. mutex' = {} /\ UNCHANGED <<current, history>>
      BY <2>4, Zenon
      DEF CompleteSlot, CompleteSub
    <3>2. Settled' = current.done  BY ONLY <3>1, Zenon DEF Settled
    <3>. QED  BY ONLY <1>0, <3>1, <3>2, Zenon DEF EntryInv
  <2>5. CASE UNCHANGED <<current, history, mutex>> /\ ~CompletePublish(t) /\ ~CompleteSlot(t) /\ ~CompleteSub(t)
    <3>1. \A h \in mutex : pc'[h] = pc[h] /\ index'[h] = index[h]
      <4>1. t \notin mutex  BY <1>1, <2>5, HolderSteps, Zenon
      <4>2. TypeInv /\ mutex \subseteq Trans  BY Zenon DEF IInv, TypeInv
      <4>3. \A u \in Trans : u # t => Same(u)  BY <1>1, <4>2, ThreadFrame, Zenon
      <4>. QED  BY ONLY <4>1, <4>2, <4>3, Zenon DEF Same
    <3>. QED  BY ONLY <1>0, <2>1, <2>5, <3>1, Zenon DEF EntryInv
  <2>. QED  BY ONLY <2>0, <2>2, <2>3, <2>4, <2>5, Zenon DEF TableFrame
<1>2. CASE VacuumStep \/ UNCHANGED vars
  <2>1. UNCHANGED TableVars  BY <1>2, VacuumFrame, Zenon
  <2>. QED  BY ONLY <1>0, <2>1, ZenonT(60) DEF EntryInv, Settled, TableVars
<1>. QED  BY <1>1, <1>2, Steps, Zenon

-----------------------------------------------------------------------------
\* A thread keeps its version, and completes, until the completion is over.
LEMMA OwnVersion ==
  ASSUME IInv, NEW t \in Trans, ThreadStep(t), ~CompleteSlot(t), pc'[t] \in Completing
  PROVE  pc[t] \in Completing /\ UNCHANGED <<version, index>>
<1>0. pc \in [Trans -> Labels] /\ t \in Trans /\ pc'[t] \in Completing  BY Zenon DEF IInv, TypeInv
<1>1. CASE GetNewMvccid(t)
  BY ONLY <1>0, <1>1, ExceptSame, Zenon DEF GetNewMvccid, Completing
<1>2. CASE GetNewSubtransactionMvccid(t)
  BY ONLY <1>0, <1>2, ExceptSame, Zenon DEF GetNewSubtransactionMvccid, Completing
<1>3. CASE BuildStart(t)
  BY ONLY <1>0, <1>3, ExceptSame, Zenon DEF BuildStart, Goto, Completing
<1>4. CASE BuildMark(t)
  BY ONLY <1>0, <1>4, ExceptSame, Zenon DEF BuildMark, Goto, Completing
<1>5. CASE BuildLoadLowest(t)
  BY ONLY <1>0, <1>5, ExceptSame, Zenon DEF BuildLoadLowest, Goto, Completing
<1>6. CASE BuildStoreLowest(t)
  BY ONLY <1>0, <1>6, ExceptSame, Zenon DEF BuildStoreLowest, Goto, Completing
<1>7. CASE BuildLoadPosition(t)
  BY ONLY <1>0, <1>7, ExceptSame, Zenon DEF BuildLoadPosition, Goto, Completing
<1>8. CASE BuildLoadVersion(t)
  BY ONLY <1>0, <1>8, ExceptSame, Zenon DEF BuildLoadVersion, Goto, Completing
<1>9. CASE BuildCopy(t)
  BY ONLY <1>0, <1>9, ExceptSame, Zenon DEF BuildCopy, Goto, Completing
<1>10. CASE BuildAccept(t)
  BY ONLY <1>0, <1>10, ExceptSame, Zenon DEF BuildAccept, Return, Goto, Completing
<1>11. CASE BuildRetry(t)
  BY ONLY <1>0, <1>11, ExceptSame, Zenon DEF BuildRetry, Goto, Completing
<1>12. CASE InvalidateSnapshot(t)
  BY ONLY <1>0, <1>12, ExceptSame, Zenon DEF InvalidateSnapshot, Completing
<1>13. CASE EndReadOnly(t)
  BY ONLY <1>0, <1>13, ExceptSame, Zenon DEF EndReadOnly, Completing
<1>14. ASSUME NEW o, CompleteStart(t, o) PROVE pc[t] \in Completing /\ UNCHANGED <<version, index>>
  BY ONLY <1>0, <1>14, ExceptSame, Zenon DEF CompleteStart, Goto, Completing
<1>15. CASE CompletePublish(t)
  BY ONLY <1>0, <1>15, ExceptSame, Zenon DEF CompletePublish, Goto, Completing
<1>16. CASE CompleteSub(t)
  BY ONLY <1>0, <1>16, ExceptSame, Zenon DEF CompleteSub, Return, Goto, Completing
<1>17. CASE CompleteLoadGlobal(t)
  BY ONLY <1>0, <1>17, ExceptSame, Zenon DEF CompleteLoadGlobal, Goto, Completing
<1>18. CASE CompleteCompute(t)
  BY ONLY <1>18, Zenon DEF CompleteCompute, Completing
<1>19. CASE CompleteCheckVersion(t)
  BY ONLY <1>0, <1>19, ExceptSame, Zenon DEF CompleteCheckVersion, Goto, Completing
<1>20. CASE AdvanceOldestActive(t)
  BY ONLY <1>0, <1>20, ExceptSame, Zenon DEF AdvanceOldestActive, Goto, Completing
<1>21. CASE CompleteResetInfo(t)
  BY ONLY <1>0, <1>21, ExceptSame, Zenon DEF CompleteResetInfo, Return, Goto, Completing
<1>22. CASE LogComplete(t)
  BY ONLY <1>0, <1>22, ExceptSame, Zenon DEF LogComplete, Goto, Completing
<1>23. CASE LockOldestVisible(t)
  BY ONLY <1>0, <1>23, ExceptSame, Zenon DEF LockOldestVisible, Goto, Completing
<1>24. CASE ReadThreshold(t)
  BY ONLY <1>0, <1>24, ExceptSame, Zenon DEF ReadThreshold, Goto, Completing
<1>. QED
  BY <1>1, <1>2, <1>3, <1>4, <1>5, <1>6, <1>7, <1>8, <1>9, <1>10, <1>11, <1>12, <1>13, <1>14,
     <1>15, <1>16, <1>17, <1>18, <1>19, <1>20, <1>21, <1>22, <1>23, <1>24, Zenon
  DEF ThreadStep

\* The versions, through every step.
LEMMA VersionStep == IInv /\ [Next]_vars => VersionInv'
<1>. SUFFICES ASSUME IInv, [Next]_vars PROVE VersionInv'  BY Zenon
<1>0. VersionInv /\ MutexInv /\ \A t \in Trans : ThreadInv(t)  BY Zenon DEF IInv
<1>t. /\ current.version \in Nat /\ version \in [Trans -> Nat] /\ mutex \subseteq Trans
      /\ index \in [Trans -> Indices]
  <2>1. TypeInv  BY Zenon DEF IInv
  <2>. QED  BY ONLY <2>1 DEF TypeInv, Status
<1>1. ASSUME NEW t \in Trans, ThreadStep(t) PROVE VersionInv'
  <2>0. TableFrame(t) /\ t \in Trans  BY <1>1, TableFrames, Zenon
  <2>s. \A u \in Trans : u # t => Same(u)  BY <1>1, ThreadFrame, Zenon DEF IInv
  <2>1. CASE Completes(t)
    <3>1. /\ mutex = {} /\ mutex' = {t} /\ pc'[t] = "copy_to"
          /\ version'[t] = current.version + 1 /\ current'.version = current.version + 1
          /\ history'[index'[t]].version = current.version + 1
      BY <2>1, StartEntry, Zenon
    <3>2. ASSUME NEW u \in Trans, pc'[u] \in Completing
          PROVE  version'[u] <= current'.version /\ version'[u] < current'.version
      <4>1. u # t  BY ONLY <3>1, <3>2, Zenon DEF Completing
      <4>2. version'[u] = version[u] /\ pc[u] \in Completing
        BY ONLY <2>s, <3>2, <4>1, Zenon DEF Same
      <4>3. version[u] <= current.version  BY ONLY <1>0, <3>2, <4>2, Zenon DEF VersionInv
      <4>4. version[u] \in Nat  BY ONLY <1>t, <3>2, Zenon
      <4>. QED  BY ONLY <1>t, <3>1, <4>2, <4>3, <4>4
    <3>. QED  BY ONLY <3>1, <3>2, Zenon DEF VersionInv
  <2>2. CASE CompletePublish(t)
    <3>1. /\ t \in mutex /\ pc'[t] = "slot" /\ index'[t] = index[t] /\ version'[t] = version[t]
          /\ history'[index[t]].version = current.version
      BY <2>2, PublishEntry, Zenon
    <3>2. mutex' = mutex /\ current' = current  BY <2>2, Zenon DEF CompletePublish
    <3>3. \A h \in mutex : h = t  BY ONLY <1>0, <3>1, Zenon DEF MutexInv
    <3>4. \A h \in mutex' : version'[h] = current'.version /\ history'[index'[h]].version = current'.version
      BY ONLY <1>0, <3>1, <3>2, <3>3, Zenon DEF VersionInv
    <3>5. \A u \in Trans : pc'[u] \in Completing => pc[u] \in Completing /\ version'[u] = version[u]
      BY ONLY <2>s, <3>1, Zenon DEF Same, Completing
    <3>. QED  BY ONLY <1>0, <3>2, <3>4, <3>5, Zenon DEF VersionInv
  <2>3. CASE CompleteSlot(t) \/ CompleteSub(t)
    <3>1. mutex' = {} /\ current' = current  BY <2>3, Zenon DEF CompleteSlot, CompleteSub
    <3>2. ASSUME NEW u \in Trans, pc'[u] \in Completing PROVE version'[u] <= current'.version
      <4>1. CASE u # t
        BY ONLY <1>0, <2>s, <3>1, <3>2, <4>1, Zenon DEF VersionInv, Same
      <4>2. CASE u = t
        <5>0. pc \in [Trans -> Labels]  BY Zenon DEF IInv, TypeInv
        <5>1. ~CompleteSub(t)
          BY ONLY <2>0, <3>2, <4>2, <5>0, ExceptSame, Zenon
          DEF CompleteSub, Return, Goto, Completing
        <5>2. version' = version /\ pc[t] = "slot"  BY ONLY <2>3, <5>1, Zenon DEF CompleteSlot
        <5>3. t \in mutex  BY ONLY <1>0, <2>0, <5>2, Zenon DEF ThreadInv, Locked
        <5>4. version[t] = current.version  BY ONLY <1>0, <5>3, Zenon DEF VersionInv
        <5>5. current.version <= current.version  BY ONLY <1>t
        <5>. QED  BY ONLY <3>1, <4>2, <5>2, <5>4, <5>5, Zenon
      <4>. QED  BY <4>1, <4>2, Zenon
    <3>. QED  BY ONLY <3>1, <3>2, Zenon DEF VersionInv
  <2>4. CASE /\ UNCHANGED <<current, history, mutex>>
             /\ ~CompletePublish(t) /\ ~CompleteSlot(t) /\ ~CompleteSub(t)
    <3>1. t \notin mutex  BY <1>1, <2>4, HolderSteps, Zenon
    <3>2. \A h \in mutex : version'[h] = version[h] /\ index'[h] = index[h]
      BY ONLY <1>t, <2>s, <3>1, Zenon DEF Same
    <3>3. pc'[t] \in Completing => pc[t] \in Completing /\ version'[t] = version[t]
      BY <1>1, <2>4, OwnVersion, Zenon
    <3>4. \A u \in Trans : pc'[u] \in Completing => pc[u] \in Completing /\ version'[u] = version[u]
      BY ONLY <2>s, <3>3, Zenon DEF Same
    <3>. QED  BY ONLY <1>0, <2>4, <3>2, <3>4, Zenon DEF VersionInv
  <2>. QED  BY ONLY <2>0, <2>1, <2>2, <2>3, <2>4, Zenon DEF TableFrame
<1>2. CASE VacuumStep \/ UNCHANGED vars
  <2>1. UNCHANGED TableVars  BY <1>2, VacuumFrame, Zenon
  <2>. QED  BY ONLY <1>0, <2>1, Zenon DEF VersionInv, TableVars
<1>. QED  BY <1>1, <1>2, Steps, Zenon

-----------------------------------------------------------------------------
\* Where a low that will be stored comes from.
LEMMA OwnLow ==
  ASSUME IInv, NEW t \in Trans, ThreadStep(t),
         pc'[t] \in {"check_version", "advance", "store_lowest"}
  PROVE  CompleteCompute(t) \/ CompleteCheckVersion(t) \/ BuildLoadLowest(t)
<1>0. pc \in [Trans -> Labels] /\ t \in Trans  BY Zenon DEF IInv, TypeInv
<1>1. ASSUME GetNewMvccid(t) PROVE pc'[t] \notin {"check_version", "advance", "store_lowest"}
  BY ONLY <1>0, <1>1, ExceptSame, Zenon DEF GetNewMvccid
<1>2. ASSUME GetNewSubtransactionMvccid(t) PROVE pc'[t] \notin {"check_version", "advance", "store_lowest"}
  BY ONLY <1>0, <1>2, ExceptSame, Zenon DEF GetNewSubtransactionMvccid
<1>3. ASSUME BuildStart(t) PROVE pc'[t] \notin {"check_version", "advance", "store_lowest"}
  BY ONLY <1>0, <1>3, ExceptSame, Zenon DEF BuildStart, Goto
<1>4. ASSUME BuildMark(t) PROVE pc'[t] \notin {"check_version", "advance", "store_lowest"}
  BY ONLY <1>0, <1>4, ExceptSame, Zenon DEF BuildMark, Goto
<1>5. ASSUME BuildStoreLowest(t) PROVE pc'[t] \notin {"check_version", "advance", "store_lowest"}
  BY ONLY <1>0, <1>5, ExceptSame, Zenon DEF BuildStoreLowest, Goto
<1>6. ASSUME BuildLoadPosition(t) PROVE pc'[t] \notin {"check_version", "advance", "store_lowest"}
  BY ONLY <1>0, <1>6, ExceptSame, Zenon DEF BuildLoadPosition, Goto
<1>7. ASSUME BuildLoadVersion(t) PROVE pc'[t] \notin {"check_version", "advance", "store_lowest"}
  BY ONLY <1>0, <1>7, ExceptSame, Zenon DEF BuildLoadVersion, Goto
<1>8. ASSUME BuildCopy(t) PROVE pc'[t] \notin {"check_version", "advance", "store_lowest"}
  BY ONLY <1>0, <1>8, ExceptSame, Zenon DEF BuildCopy, Goto
<1>9. ASSUME BuildAccept(t) PROVE pc'[t] \notin {"check_version", "advance", "store_lowest"}
  BY ONLY <1>0, <1>9, ExceptSame, Zenon DEF BuildAccept, Return, Goto
<1>10. ASSUME BuildRetry(t) PROVE pc'[t] \notin {"check_version", "advance", "store_lowest"}
  BY ONLY <1>0, <1>10, ExceptSame, Zenon DEF BuildRetry, Goto
<1>11. ASSUME InvalidateSnapshot(t) PROVE pc'[t] \notin {"check_version", "advance", "store_lowest"}
  BY ONLY <1>0, <1>11, ExceptSame, Zenon DEF InvalidateSnapshot
<1>12. ASSUME EndReadOnly(t) PROVE pc'[t] \notin {"check_version", "advance", "store_lowest"}
  BY ONLY <1>0, <1>12, ExceptSame, Zenon DEF EndReadOnly
<1>13. ASSUME NEW o, CompleteStart(t, o) PROVE pc'[t] \notin {"check_version", "advance", "store_lowest"}
  BY ONLY <1>0, <1>13, ExceptSame, Zenon DEF CompleteStart, Goto
<1>14. ASSUME CompletePublish(t) PROVE pc'[t] \notin {"check_version", "advance", "store_lowest"}
  BY ONLY <1>0, <1>14, ExceptSame, Zenon DEF CompletePublish, Goto
<1>15. ASSUME CompleteSlot(t) PROVE pc'[t] \notin {"check_version", "advance", "store_lowest"}
  BY ONLY <1>0, <1>15, ExceptSame, Zenon DEF CompleteSlot, Goto
<1>16. ASSUME CompleteSub(t) PROVE pc'[t] \notin {"check_version", "advance", "store_lowest"}
  BY ONLY <1>0, <1>16, ExceptSame, Zenon DEF CompleteSub, Return, Goto
<1>17. ASSUME CompleteLoadGlobal(t) PROVE pc'[t] \notin {"check_version", "advance", "store_lowest"}
  BY ONLY <1>0, <1>17, ExceptSame, Zenon DEF CompleteLoadGlobal, Goto
<1>18. ASSUME AdvanceOldestActive(t) PROVE pc'[t] \notin {"check_version", "advance", "store_lowest"}
  BY ONLY <1>0, <1>18, ExceptSame, Zenon DEF AdvanceOldestActive, Goto
<1>19. ASSUME CompleteResetInfo(t) PROVE pc'[t] \notin {"check_version", "advance", "store_lowest"}
  BY ONLY <1>0, <1>19, ExceptSame, Zenon DEF CompleteResetInfo, Return, Goto
<1>20. ASSUME LogComplete(t) PROVE pc'[t] \notin {"check_version", "advance", "store_lowest"}
  BY ONLY <1>0, <1>20, ExceptSame, Zenon DEF LogComplete, Goto
<1>21. ASSUME LockOldestVisible(t) PROVE pc'[t] \notin {"check_version", "advance", "store_lowest"}
  BY ONLY <1>0, <1>21, ExceptSame, Zenon DEF LockOldestVisible, Goto
<1>22. ASSUME ReadThreshold(t) PROVE pc'[t] \notin {"check_version", "advance", "store_lowest"}
  BY ONLY <1>0, <1>22, ExceptSame, Zenon DEF ReadThreshold, Goto
<1>. QED
  BY <1>1, <1>2, <1>3, <1>4, <1>5, <1>6, <1>7, <1>8, <1>9, <1>10, <1>11, <1>12, <1>13, <1>14,
     <1>15, <1>16, <1>17, <1>18, <1>19, <1>20, <1>21, <1>22, Zenon
  DEF ThreadStep

\* compute_lowest_active_mvccid on an entry that is still the thread's own.
LEMMA ComputedLow ==
  ASSUME IInv, NEW t \in Trans, CompleteCompute(t), pc'[t] = "check_version"
  PROVE  /\ low'[t] \in Lows
         /\ history[index[t]].version = version[t] => Below(low'[t])
<1>0. TypeInv /\ IdInv /\ EntryInv /\ VersionInv  BY Zenon DEF IInv
<1>1. /\ pc \in [Trans -> Labels] /\ low \in [Trans -> Lows \cup {MVCCID_NULL}] /\ index[t] \in Indices
      /\ version[t] \in Nat /\ current.version \in Nat /\ t \in Trans /\ mutex \subseteq Trans
  BY <1>0 DEF TypeInv, Status
<1>2. PICK c \in ReadsOf(index[t]) :
        \/ low' = [low EXCEPT ![t] = LowestActiveOf(c.done)]
        \/ Goto(t, "reset_info")
  BY Zenon DEF CompleteCompute
<1>3. low'[t] = LowestActiveOf(c.done)
  <2>1. ~Goto(t, "reset_info")  BY ONLY <1>1, pc'[t] = "check_version", ExceptSame, Zenon DEF Goto
  <2>. QED  BY ONLY <1>1, <1>2, <2>1, ExceptSame, Zenon
<1>4. c.done \in SUBSET Ids
  <2>1. c \in [done : SUBSET Ids, start : Nat \ {0}]  BY <1>0, <1>1, <1>2, ReadsFacts, Zenon
  <2>. QED  BY ONLY <2>1
<1>5. low'[t] \in Lows /\ \A i \in Ids : i < low'[t] => i \in c.done
  BY ONLY <1>3, <1>4, LowestFacts, Zenon
<1>6. ASSUME history[index[t]].version = version[t] PROVE Below(low'[t])
  <2>1. ASSUME NEW h \in mutex PROVE index[h] # index[t]
    <3>1. pc[t] \in Completing  BY Zenon DEF CompleteCompute, Completing
    <3>2. version[t] < current.version  BY ONLY <1>0, <1>1, <2>1, <3>1, Zenon DEF VersionInv
    <3>3. history[index[h]].version = current.version  BY ONLY <1>0, <2>1, Zenon DEF VersionInv
    <3>4. version[t] # current.version  BY ONLY <1>1, <3>2
    <3>. QED  BY ONLY <1>6, <3>3, <3>4, Zenon
  <2>2. ~BeingWritten(index[t])  BY ONLY <2>1, Zenon DEF BeingWritten
  <2>3. c = [done |-> history[index[t]].done, start |-> history[index[t]].start]
    BY ONLY <1>2, <2>2, Zenon DEF ReadsOf
  <2>4. c.done = history[index[t]].done  BY ONLY <2>3
  <2>5. history[index[t]].done \subseteq Settled  BY ONLY <1>0, <1>1, <2>1, Zenon DEF EntryInv
  <2>. QED  BY ONLY <1>5, <2>4, <2>5, Zenon DEF Below
<1>. QED  BY <1>5, <1>6, Zenon

\* An entry that a step reuses never gets the version of a thread that has completed.
LEMMA EntryReused ==
  ASSUME IInv, NEW t \in Trans, ThreadStep(t), NEW u \in Trans, pc[u] \in Completing,
         history'[index[u]].version = version[u]
  PROVE  history[index[u]].version = version[u]
<1>0. VersionInv  BY Zenon DEF IInv
<1>1. /\ index[u] \in Indices /\ version[u] \in Nat /\ current.version \in Nat /\ u \in Trans
      /\ pc[u] \in Completing /\ history'[index[u]].version = version[u]
  <2>1. TypeInv  BY Zenon DEF IInv
  <2>. QED  BY <2>1 DEF TypeInv, Status
<1>2. version[u] <= current.version /\ \A h \in mutex : version[u] < current.version
  BY ONLY <1>0, <1>1, Zenon DEF VersionInv
<1>3. CASE Completes(t)
  <2>1. /\ history'[index'[t]].version = current.version + 1
        /\ \A k \in Indices : k # index'[t] => history'[k] = history[k]
    BY <1>3, StartEntry, Zenon
  <2>2. current.version + 1 # version[u]  BY ONLY <1>1, <1>2
  <2>. QED  BY ONLY <1>1, <2>1, <2>2, Zenon
<1>4. CASE CompletePublish(t)
  <2>1. /\ t \in mutex /\ history'[index[t]].version = current.version
        /\ \A k \in Indices : k # index[t] => history'[k] = history[k]
    BY <1>4, PublishEntry, Zenon
  <2>2. version[u] < current.version  BY ONLY <1>2, <2>1, Zenon
  <2>3. version[u] # current.version  BY ONLY <1>1, <2>2
  <2>. QED  BY ONLY <1>1, <2>1, <2>3, Zenon
<1>5. CASE history' = history  BY ONLY <1>1, <1>5, Zenon
<1>. QED  BY <1>3, <1>4, <1>5, TableFrames, Zenon DEF TableFrame

\* The watermark and what it will be raised to, through every step.
LEMMA LowStep == IInv /\ [Next]_vars => LowInv'
<1>. SUFFICES ASSUME IInv, [Next]_vars PROVE LowInv'  BY Zenon
<1>0. LowInv  BY Zenon DEF IInv
<1>1. ASSUME NEW t \in Trans, ThreadStep(t) PROVE LowInv'
  <2>0. t \in Trans /\ pc \in [Trans -> Labels]  BY Zenon DEF IInv, TypeInv
  <2>s. \A u \in Trans : u # t => Same(u)  BY <1>1, ThreadFrame, Zenon DEF IInv
  <2>g. ASSUME NEW n, Below(n) PROVE Below(n)'
    <3>1. Settled \subseteq Settled'  BY <1>1, SettledGrows, Zenon
    <3>. QED  BY ONLY <2>g, <3>1, Zenon DEF Below
  <2>1. Below(lowest_active)'
    <3>1. lowest_active' = lowest_active \/ AdvanceOldestActive(t)
      BY <1>1, TableFrames, Zenon DEF TableFrame
    <3>2. CASE AdvanceOldestActive(t)
      <4>1. lowest_active \in Lows  BY Zenon DEF IInv, TypeInv
      <4>2. pc[t] = "advance" /\ lowest_active' = Max({lowest_active, low[t]})
        BY <3>2, Zenon DEF AdvanceOldestActive
      <4>3. low[t] \in Lows /\ Below(low[t]) /\ Below(lowest_active)
        BY ONLY <1>0, <2>0, <4>2, Zenon DEF LowInv
      <4>4. Below(lowest_active')
        BY ONLY <4>1, <4>2, <4>3, MaxOfTwo, Zenon
      <4>. QED  BY <2>g, <4>4, Zenon
    <3>3. CASE lowest_active' = lowest_active
      <4>1. Below(lowest_active')  BY ONLY <1>0, <3>3, Zenon DEF LowInv
      <4>. QED  BY <2>g, <4>1, Zenon
    <3>. QED  BY <3>1, <3>2, <3>3, Zenon
  <2>2. ASSUME NEW u \in Trans, pc'[u] \in {"check_version", "advance"}
        PROVE  /\ low'[u] \in Lows
               /\ pc'[u] = "advance" \/ history'[index'[u]].version = version'[u] => Below(low[u])'
    <3>1. CASE u # t
      <4>1. Same(u)  BY <2>s, <3>1, Zenon
      <4>2. low[u] \in Lows  BY ONLY <1>0, <2>2, <4>1, Zenon DEF LowInv, Same
      <4>3. CASE pc[u] = "advance"
        <5>1. Below(low[u])  BY ONLY <1>0, <2>2, <4>3, Zenon DEF LowInv
        <5>2. Below(low'[u])  BY ONLY <4>1, <5>1, Zenon DEF Same
        <5>. QED  BY <2>g, <4>1, <4>2, <5>2, Zenon DEF Same
      <4>4. CASE pc[u] = "check_version"
        <5>1. pc[u] \in Completing  BY ONLY <4>4, Zenon DEF Completing
        <5>2. history'[index'[u]].version = version'[u] => history[index[u]].version = version[u]
          BY <1>1, <2>2, <4>1, <5>1, EntryReused, Zenon DEF Same
        <5>3. history'[index'[u]].version = version'[u] => Below(low[u])
          BY ONLY <1>0, <2>2, <4>4, <5>2, Zenon DEF LowInv
        <5>4. history'[index'[u]].version = version'[u] => Below(low'[u])
          BY ONLY <4>1, <5>3, Zenon DEF Same
        <5>. QED  BY <2>g, <4>1, <4>2, <4>4, <5>4, Zenon DEF Same
      <4>. QED  BY <2>2, <4>1, <4>3, <4>4, Zenon DEF Same
    <3>2. CASE u = t /\ CompleteCompute(t)
      <4>1. UNCHANGED <<history, index, version>>  BY <3>2, Zenon DEF CompleteCompute, statusVars
      <4>2. pc'[t] \in {"check_version", "reset_info"}  BY <3>2, ComputeFacts, Zenon DEF IInv
      <4>3. pc'[t] = "check_version"  BY ONLY <2>2, <3>2, <4>2, Zenon
      <4>4. low'[t] \in Lows /\ (history[index[t]].version = version[t] => Below(low'[t]))
        BY <3>2, <4>3, ComputedLow, Zenon
      <4>. QED  BY <2>g, <3>2, <4>1, <4>3, <4>4, Zenon
    <3>3. CASE u = t /\ CompleteCheckVersion(t)
      <4>1. /\ UNCHANGED <<history, index, version, low>> /\ pc[t] = "check_version"
            /\ pc'[t] = IF history[index[t]].version = version[t] THEN "advance" ELSE "reset_info"
        BY <2>0, <3>3, ExceptSame, Zenon DEF CompleteCheckVersion, statusVars, Goto
      <4>2. history[index[t]].version = version[t]  BY ONLY <2>2, <3>3, <4>1, Zenon
      <4>3. low[t] \in Lows /\ Below(low[t])  BY ONLY <1>0, <2>0, <4>1, <4>2, Zenon DEF LowInv
      <4>. QED  BY <2>g, <3>3, <4>1, <4>3, Zenon
    <3>4. ASSUME BuildLoadLowest(t) PROVE pc'[t] \in {"store_lowest", "load_position"}
      BY ONLY <2>0, <3>4, ExceptSame, Zenon DEF BuildLoadLowest, Goto
    <3>. QED  BY <1>1, <2>2, <3>1, <3>2, <3>3, <3>4, OwnLow, Zenon
  <2>. QED  BY ONLY <2>1, <2>2, Zenon DEF LowInv
<1>2. CASE VacuumStep \/ UNCHANGED vars
  <2>1. UNCHANGED TableVars  BY <1>2, VacuumFrame, Zenon
  <2>. QED  BY ONLY <1>0, <2>1, Zenon DEF LowInv, Below, Settled, TableVars
<1>. QED  BY <1>1, <1>2, Steps, Zenon

-----------------------------------------------------------------------------
\* The id of a completion that holds the mutex is not below the watermark yet.
LEMMA CompletedAbove ==
  ASSUME IInv, NEW t \in Trans, pc[t] = "slot", op[t] \in {"commit", "abort"}
  PROVE  /\ id[t] \in Ids /\ lowest_active \in Lows /\ lowest_active <= id[t]
         /\ lowest_visible[t] <= lowest_active /\ lowest_visible[t] \in Slots
<1>0. ThreadInv(t) /\ SlotInv(t) /\ Below(lowest_active)  BY Zenon DEF IInv, LowInv
<1>1. /\ id[t] \in Ids \cup {MVCCID_NULL} /\ lowest_active \in Lows /\ lowest_visible[t] \in Slots
      /\ pc[t] = "slot" /\ op[t] \in {"commit", "abort"}
  BY Zenon DEF IInv, TypeInv
<1>2. id[t] \in Ids /\ t \in mutex  BY ONLY <1>0, <1>1, Zenon DEF ThreadInv, Locked
<1>3. id[t] \notin Settled  BY ONLY <1>1, <1>2, Zenon DEF Settled
<1>4. ~(id[t] < lowest_active)  BY ONLY <1>0, <1>2, <1>3, Zenon DEF Below
<1>5. lowest_active <= id[t]  BY ONLY <1>1, <1>2, <1>4, Bounds DEF Ids, Lows
<1>6. lowest_visible[t] <= lowest_active  BY ONLY <1>0, <1>1, Zenon DEF SlotInv, Completing
<1>. QED  BY <1>1, <1>2, <1>5, <1>6, Zenon

\* What may be in a slot, as seen by the vacuum master.
Safe(t, v) == oldest_visible <= v /\ Seen(t, v)

\* The watermark is always safe: the vacuum master starts from it.
LEMMA WatermarkSafe ==
  ASSUME IInv, NEW t \in Trans, NEW v \in Lows, lowest_active <= v
  PROVE  Safe(t, v)
<1>0. VacuumInv /\ oldest_visible \in Lows \cup {MVCCID_NULL} /\ lowest_active \in Lows
  BY Zenon DEF IInv, TypeInv
<1>1. oldest_visible <= lowest_active /\ (vpc # "idle" => vlow \in Lows /\ vlow <= lowest_active)
  BY <1>0, Zenon DEF VacuumInv
<1>2. oldest_visible <= v /\ (vpc # "idle" => vlow <= v)
  BY ONLY <1>0, <1>1, v \in Lows, lowest_active <= v, Bounds DEF Lows
<1>. QED  BY ONLY <1>2, Zenon DEF Safe, Seen

\* The vacuum master's view, through the steps of a thread.
LEMMA VacuumThread ==
  ASSUME IInv, NEW t \in Trans, ThreadStep(t)
  PROVE  VacuumInv'
<1>0. VacuumInv /\ TableFrame(t) /\ t \in Trans  BY TableFrames, Zenon DEF IInv
<1>s. \A u \in Trans : u # t => Same(u)  BY ThreadFrame, Zenon DEF IInv
<1>t. /\ pc \in [Trans -> Labels] /\ lowest_visible \in [Trans -> Slots]
      /\ low \in [Trans -> Lows \cup {MVCCID_NULL}]
  BY Zenon DEF IInv, TypeInv
<1>1. UNCHANGED <<vpc, vlow, vnext, vwaiting, oldest_visible>>  BY ONLY <1>0, Zenon DEF TableFrame
<1>2. ASSUME NEW u, NEW v, Safe(u, v) PROVE oldest_visible' <= v /\ Seen(u, v)'
  BY ONLY <1>1, <1>2, Zenon DEF Safe, Seen
<1>3. \A u \in Trans : \A v \in Lows : Claims(u, v) => Safe(u, v)
  BY ONLY <1>0, Zenon DEF VacuumInv, Safe
<1>4. /\ oldest_visible <= lowest_active'
      /\ vpc # "idle" => vlow \in Lows /\ vlow <= lowest_active' /\ oldest_visible <= vlow
  <2>1. /\ lowest_active \in Lows /\ lowest_active' \in Lows /\ lowest_active' >= lowest_active
    BY WatermarkGrows, Zenon
  <2>2. /\ oldest_visible <= lowest_active /\ oldest_visible \in Lows \cup {MVCCID_NULL}
        /\ vpc # "idle" => vlow \in Lows /\ vlow <= lowest_active /\ oldest_visible <= vlow
    BY Zenon DEF IInv, TypeInv, VacuumInv
  <2>. QED  BY ONLY <2>1, <2>2, Bounds DEF Lows
<1>5. lowest_visible'[t] \in Lows => Safe(t, lowest_visible'[t])
  <2>c. MVCCID_NULL \notin Lows /\ MVCCID_ALL_VISIBLE \notin Lows  BY Bounds DEF Lows
  <2>1. CASE lowest_visible' = lowest_visible  BY ONLY <1>0, <1>3, <2>1, Zenon DEF Claims
  <2>2. CASE BuildMark(t)
    BY ONLY <1>0, <1>t, <2>c, <2>2, ExceptSame, Zenon DEF BuildMark
  <2>3. CASE BuildStoreLowest(t)
    <3>1. pc[t] = "store_lowest" /\ lowest_visible'[t] = low[t]
      BY ONLY <1>0, <1>t, <2>3, ExceptSame, Zenon DEF BuildStoreLowest
    <3>. QED  BY ONLY <1>0, <1>3, <3>1, Zenon DEF Claims
  <2>4. CASE EndReadOnly(t)
    BY ONLY <1>0, <1>t, <2>c, <2>4, ExceptSame, Zenon DEF EndReadOnly
  <2>5. CASE CompleteSlot(t)
    <3>1. /\ pc[t] = "slot" /\ op[t] \in {"commit", "abort"}
          /\ lowest_visible'[t] \in {MVCCID_NULL, id[t], lowest_visible[t]}
      BY ONLY <1>0, <1>t, <2>5, ExceptSame, Zenon DEF CompleteSlot
    <3>2. id[t] \in Ids /\ lowest_active <= id[t]  BY <3>1, CompletedAbove, Zenon
    <3>3. id[t] \in Lows  BY ONLY <3>2, Bounds DEF Ids, Lows
    <3>4. Safe(t, id[t])  BY <3>2, <3>3, WatermarkSafe, Zenon
    <3>. QED  BY ONLY <1>0, <1>3, <2>c, <3>1, <3>4, Zenon DEF Claims
  <2>6. CASE LogComplete(t)
    <3>1. lowest_visible'[t] \in {MVCCID_NULL, lowest_visible[t]}
      BY ONLY <1>0, <1>t, <2>6, ExceptSame, Zenon DEF LogComplete
    <3>. QED  BY ONLY <1>0, <1>3, <2>c, <3>1, Zenon DEF Claims
  <2>. QED  BY ONLY <1>0, <2>1, <2>2, <2>3, <2>4, <2>5, <2>6, Zenon DEF TableFrame
<1>6. pc'[t] = "store_lowest" => Safe(t, low'[t])
  <2>. SUFFICES ASSUME pc'[t] = "store_lowest" PROVE Safe(t, low'[t])  BY Zenon
  <2>1. BuildLoadLowest(t)
    <3>1. CompleteCompute(t) \/ CompleteCheckVersion(t) \/ BuildLoadLowest(t)  BY OwnLow, Zenon
    <3>2. ~CompleteCompute(t)  BY ComputeFacts, Zenon DEF IInv
    <3>3. ~CompleteCheckVersion(t)
      BY ONLY <1>0, <1>t, pc'[t] = "store_lowest", ExceptSame, Zenon
      DEF CompleteCheckVersion, Goto
    <3>. QED  BY <3>1, <3>2, <3>3, Zenon
  <2>2. low'[t] = lowest_active
    BY ONLY <1>0, <1>t, <2>1, ExceptSame, Zenon DEF BuildLoadLowest
  <2>3. lowest_active \in Lows  BY Zenon DEF IInv, TypeInv
  <2>4. lowest_active <= lowest_active  BY ONLY <2>3, Bounds DEF Lows
  <2>. QED  BY <2>2, <2>3, <2>4, WatermarkSafe, Zenon
<1>7. ASSUME NEW u \in Trans, NEW v \in Lows, Claims(u, v)' PROVE Safe(u, v)
  <2>1. CASE u = t  BY ONLY <1>5, <1>6, <1>7, <2>1, Zenon DEF Claims
  <2>2. CASE u # t  BY ONLY <1>s, <1>3, <1>7, <2>2, ZenonT(60) DEF Claims, Same
  <2>. QED  BY <2>1, <2>2, Zenon
<1>8. vpc # "scan" => vwaiting = {}  BY ONLY <1>0, Zenon DEF VacuumInv
<1>9. ASSUME NEW u \in Trans, NEW v \in Lows, Claims(u, v)' PROVE oldest_visible' <= v /\ Seen(u, v)'
  BY <1>2, <1>7, <1>9, Zenon
<1>. QED  BY ONLY <1>1, <1>4, <1>8, <1>9, Zenon DEF VacuumInv

\* The vacuum master's view, through its own steps.
LEMMA VacuumOwn ==
  ASSUME IInv, VacuumStep \/ UNCHANGED vars
  PROVE  VacuumInv'
<1>0. VacuumInv /\ \A t \in Trans : SlotInv(t)  BY Zenon DEF IInv
<1>f. UNCHANGED TableVars  BY VacuumFrame, Zenon
<1>t. /\ lowest_visible \in [Trans -> Slots] /\ oldest_visible \in Lows \cup {MVCCID_NULL}
      /\ lowest_active \in Lows /\ vnext \in 1 .. (NTrans + 1) /\ vwaiting \subseteq Trans
      /\ low \in [Trans -> Lows \cup {MVCCID_NULL}]
  BY Zenon DEF IInv, TypeInv
<1>a. \A v \in Lows : v <= v /\ MVCCID_NULL <= v  BY Bounds DEF Lows
<1>1. lowest_active' = lowest_active  BY ONLY <1>f, Zenon DEF TableVars
<1>2. \A u, v : Claims(u, v)' => Claims(u, v)  BY ONLY <1>f, Zenon DEF TableVars, Claims
<1>3. \A u \in Trans : \A v \in Lows : Claims(u, v) => oldest_visible <= v /\ Seen(u, v)
  BY ONLY <1>0, Zenon DEF VacuumInv
<1>4. CASE VacuumStart
  <2>1. /\ vpc = "idle" /\ vpc' = "scan" /\ vlow' = lowest_active /\ vnext' = 1
        /\ UNCHANGED <<vwaiting, oldest_visible>>
    BY <1>4, Zenon DEF VacuumStart, ovVars
  <2>2. \A u \in Trans : 1 <= u  BY Bounds DEF Trans
  <2>3. \A u \in Trans : \A v : Seen(u, v)'  BY ONLY <2>1, <2>2, Zenon DEF Seen
  <2>. QED  BY ONLY <1>0, <1>1, <1>2, <1>3, <1>a, <1>t, <2>1, <2>3, Zenon DEF VacuumInv
<1>5. CASE VacuumScan
  <2>1. /\ vpc = "scan" /\ vnext \in Trans /\ vnext' = vnext + 1 /\ UNCHANGED <<vpc, oldest_visible>>
        /\ \/ /\ lowest_visible[vnext] = MVCCID_ALL_VISIBLE
              /\ vwaiting' = vwaiting \cup {vnext} /\ vlow' = vlow
           \/ /\ lowest_visible[vnext] # MVCCID_ALL_VISIBLE
              /\ vwaiting' = vwaiting
              /\ vlow' = IF lowest_visible[vnext] # MVCCID_NULL /\ lowest_visible[vnext] < vlow
                           THEN lowest_visible[vnext] ELSE vlow
    BY <1>5, Zenon DEF VacuumScan, Lower, ovVars
  <2>2. vlow \in Lows /\ vlow <= lowest_active /\ oldest_visible <= vlow /\ oldest_visible <= lowest_active
    BY ONLY <1>0, <2>1, Zenon DEF VacuumInv
  <2>3. lowest_visible[vnext] \in Lows \cup {MVCCID_NULL, MVCCID_ALL_VISIBLE}
    BY ONLY <1>t, <2>1, Zenon DEF Slots
  <2>4. lowest_visible[vnext] \in Lows => oldest_visible <= lowest_visible[vnext]
    BY ONLY <1>3, <2>1, Zenon DEF Claims
  <2>5. /\ vlow' \in Lows /\ vlow' <= vlow /\ vlow' <= lowest_active /\ oldest_visible <= vlow'
        /\ lowest_visible[vnext] \in Lows => vlow' <= lowest_visible[vnext]
    BY ONLY <1>t, <2>1, <2>2, <2>3, <2>4, Bounds DEF Lows
  <2>6. ASSUME NEW u \in Trans, NEW v \in Lows, Claims(u, v) PROVE Seen(u, v)'
    <3>0. Seen(u, v)  BY ONLY <1>3, <2>6, Zenon
    <3>1. vlow <= v => vlow' <= v  BY ONLY <2>2, <2>5, <2>6, Bounds DEF Lows
    <3>2. CASE u # vnext
      <4>1. vnext <= u => vnext' <= u  BY ONLY <1>t, <2>1, <2>6, <3>2, Bounds DEF Trans
      <4>. QED  BY ONLY <2>1, <3>0, <3>1, <4>1, Zenon DEF Seen
    <3>3. CASE u = vnext /\ lowest_visible[u] = MVCCID_ALL_VISIBLE
      BY ONLY <2>1, <3>3, Zenon DEF Seen
    <3>4. CASE u = vnext /\ lowest_visible[u] # MVCCID_ALL_VISIBLE
      <4>1. v = lowest_visible[u]  BY ONLY <1>0, <2>6, <3>4, Zenon DEF Claims, SlotInv
      <4>. QED  BY ONLY <2>5, <2>6, <3>4, <4>1, Zenon DEF Seen
    <3>. QED  BY <3>2, <3>3, <3>4, Zenon
  <2>. QED  BY ONLY <1>1, <1>2, <1>3, <2>1, <2>2, <2>5, <2>6, Zenon DEF VacuumInv
<1>6. ASSUME NEW t \in Trans, VacuumWait(t) PROVE VacuumInv'
  <2>1. /\ vpc = "scan" /\ lowest_visible[t] # MVCCID_ALL_VISIBLE /\ UNCHANGED <<vpc, vnext, oldest_visible>>
        /\ vwaiting' = vwaiting \ {t} /\ t \in Trans
        /\ vlow' = IF lowest_visible[t] # MVCCID_NULL /\ lowest_visible[t] < vlow
                     THEN lowest_visible[t] ELSE vlow
    BY <1>6, Zenon DEF VacuumWait, Lower, ovVars
  <2>2. vlow \in Lows /\ vlow <= lowest_active /\ oldest_visible <= vlow /\ oldest_visible <= lowest_active
    BY ONLY <1>0, <2>1, Zenon DEF VacuumInv
  <2>3. lowest_visible[t] \in Lows \cup {MVCCID_NULL, MVCCID_ALL_VISIBLE}
    BY ONLY <1>t, <2>1, Zenon DEF Slots
  <2>4. lowest_visible[t] \in Lows => oldest_visible <= lowest_visible[t]
    BY ONLY <1>3, <2>1, Zenon DEF Claims
  <2>5. /\ vlow' \in Lows /\ vlow' <= vlow /\ vlow' <= lowest_active /\ oldest_visible <= vlow'
        /\ lowest_visible[t] \in Lows => vlow' <= lowest_visible[t]
    BY ONLY <1>t, <2>1, <2>2, <2>3, <2>4, Bounds DEF Lows
  <2>6. ASSUME NEW u \in Trans, NEW v \in Lows, Claims(u, v) PROVE Seen(u, v)'
    <3>0. Seen(u, v)  BY ONLY <1>3, <2>6, Zenon
    <3>1. vlow <= v => vlow' <= v  BY ONLY <2>2, <2>5, <2>6, Bounds DEF Lows
    <3>2. CASE u # t
      BY ONLY <2>1, <3>0, <3>1, <3>2, Zenon DEF Seen
    <3>3. CASE u = t
      <4>1. v = lowest_visible[u]  BY ONLY <1>0, <2>1, <2>6, <3>3, Zenon DEF Claims, SlotInv
      <4>. QED  BY ONLY <2>5, <2>6, <3>3, <4>1, Zenon DEF Seen
    <3>. QED  BY <3>2, <3>3, Zenon
  <2>. QED  BY ONLY <1>1, <1>2, <1>3, <2>1, <2>2, <2>5, <2>6, Zenon DEF VacuumInv
<1>7. CASE VacuumRecheck
  <2>1. /\ vpc = "scan" /\ vnext \notin Trans /\ vwaiting = {} /\ vwaiting' = vwaiting
        /\ oldest_visible' = oldest_visible
        /\ (vpc' = "store" /\ vlow' = vlow) \/ vpc' = "idle"
    BY <1>7, Zenon DEF VacuumRecheck, ovVars
  <2>2. \A u \in Trans : ~(vnext <= u)  BY ONLY <1>t, <2>1, Bounds DEF Trans
  <2>3. \A u \in Trans : \A v : Seen(u, v) => Seen(u, v)'
    BY ONLY <2>1, <2>2, Zenon DEF Seen
  <2>. QED  BY ONLY <1>0, <1>1, <1>2, <1>3, <2>1, <2>3, Zenon DEF VacuumInv
<1>8. CASE VacuumStore
  <2>1. vpc = "store" /\ vpc' = "idle" /\ oldest_visible' = vlow /\ vwaiting' = vwaiting
    BY <1>8, Zenon DEF VacuumStore
  <2>2. \A u \in Trans : \A v : Seen(u, v) => vlow <= v  BY ONLY <2>1, Zenon DEF Seen
  <2>3. \A u, v : Seen(u, v)'  BY ONLY <2>1, Zenon DEF Seen
  <2>. QED  BY ONLY <1>0, <1>1, <1>2, <1>3, <2>1, <2>2, <2>3, Zenon DEF VacuumInv
<1>9. CASE UNCHANGED vars
  <2>1. UNCHANGED <<vpc, vlow, vnext, vwaiting, oldest_visible>>
    BY <1>9, Zenon
    DEF vars, vacuumVars, ovVars
  <2>2. \A u, v : Seen(u, v) => Seen(u, v)'  BY ONLY <2>1, Zenon DEF Seen
  <2>. QED  BY ONLY <1>0, <1>1, <1>2, <1>3, <2>1, <2>2, Zenon DEF VacuumInv
<1>. QED  BY <1>4, <1>5, <1>6, <1>7, <1>8, <1>9, Zenon DEF VacuumStep

\* The vacuum master's view, through every step.
LEMMA VacuumInvStep == IInv /\ [Next]_vars => VacuumInv'
  BY Steps, VacuumThread, VacuumOwn, Zenon

-----------------------------------------------------------------------------
\* What CommitInv says of one thread.
CommitOf(t) ==
  /\ committing[t] # MVCCID_NULL => op[t] = "commit" /\ pc[t] \in Completing \cup {"slot", "eot"}
  /\ committing[t] # MVCCID_NULL /\ pc[t] # "eot" => committing[t] = id[t]
  /\ committing[t] # MVCCID_NULL /\ pc[t] # "slot" => lowest_visible[t] = committing[t]

\* A step of a thread keeps its own slot until LOG_COMMIT.
LEMMA OwnCommit ==
  ASSUME IInv, NEW t \in Trans, ThreadStep(t)
  PROVE  CommitOf(t)'
<1>0. /\ pc \in [Trans -> Labels] /\ op \in [Trans -> {"none", "commit", "abort", "sub"}]
      /\ id \in [Trans -> Ids \cup {MVCCID_NULL}] /\ lowest_visible \in [Trans -> Slots]
      /\ committing \in [Trans -> Ids \cup {MVCCID_NULL}] /\ t \in Trans
  BY Zenon DEF IInv, TypeInv
<1>t. ThreadInv(t) /\ CommitOf(t)  BY Zenon DEF IInv, CommitInv, CommitOf
<1>1. CASE GetNewMvccid(t)
  BY ONLY <1>0, <1>t, <1>1, ExceptSame, Zenon
  DEF GetNewMvccid, ThreadInv, CommitOf, Building, Completing, idVars, statusVars, ovVars,
      vacuumVars, ghostVars
<1>2. CASE GetNewSubtransactionMvccid(t)
  BY ONLY <1>0, <1>t, <1>2, ExceptSame, Zenon
  DEF GetNewSubtransactionMvccid, ThreadInv, CommitOf, Building, Completing, idVars, statusVars,
      ovVars, vacuumVars, ghostVars
<1>3. CASE BuildStart(t)
  BY ONLY <1>0, <1>t, <1>3, ExceptSame, Zenon
  DEF BuildStart, Goto, ThreadInv, CommitOf, Building, Completing, idVars, statusVars, ovVars,
      vacuumVars, ghostVars
<1>4. CASE BuildMark(t)
  BY ONLY <1>0, <1>t, <1>4, ExceptSame, Zenon
  DEF BuildMark, Goto, ThreadInv, CommitOf, Building, Completing, idVars, statusVars, ovVars,
      vacuumVars, ghostVars
<1>5. CASE BuildLoadLowest(t)
  BY ONLY <1>0, <1>t, <1>5, ExceptSame, Zenon
  DEF BuildLoadLowest, Goto, ThreadInv, CommitOf, Building, Completing, idVars, statusVars,
      ovVars, vacuumVars, ghostVars
<1>6. CASE BuildStoreLowest(t)
  BY ONLY <1>0, <1>t, <1>6, ExceptSame, Zenon
  DEF BuildStoreLowest, Goto, ThreadInv, CommitOf, Building, Completing, idVars, statusVars,
      ovVars, vacuumVars, ghostVars
<1>7. CASE BuildLoadPosition(t)
  BY ONLY <1>0, <1>t, <1>7, ExceptSame, Zenon
  DEF BuildLoadPosition, Goto, ThreadInv, CommitOf, Building, Completing, idVars, statusVars,
      ovVars, vacuumVars, ghostVars
<1>8. CASE BuildLoadVersion(t)
  BY ONLY <1>0, <1>t, <1>8, ExceptSame, Zenon
  DEF BuildLoadVersion, Goto, ThreadInv, CommitOf, Building, Completing, idVars, statusVars,
      ovVars, vacuumVars, ghostVars
<1>9. CASE BuildCopy(t)
  BY ONLY <1>0, <1>t, <1>9, ExceptSame, Zenon
  DEF BuildCopy, Goto, ThreadInv, CommitOf, Building, Completing, idVars, statusVars, ovVars,
      vacuumVars, ghostVars
<1>10. CASE BuildAccept(t)
  BY ONLY <1>0, <1>t, <1>10, ExceptSame, Zenon
  DEF BuildAccept, Return, Goto, ThreadInv, CommitOf, Building, Completing, idVars, statusVars,
      ovVars, vacuumVars, ghostVars
<1>11. CASE BuildRetry(t)
  BY ONLY <1>0, <1>t, <1>11, ExceptSame, Zenon
  DEF BuildRetry, Goto, ThreadInv, CommitOf, Building, Completing, idVars, statusVars, ovVars,
      vacuumVars, ghostVars
<1>12. CASE InvalidateSnapshot(t)
  BY ONLY <1>0, <1>t, <1>12, ExceptSame, Zenon
  DEF InvalidateSnapshot, NoSnapshot, ThreadInv, CommitOf, Building, Completing, idVars,
      statusVars, ovVars, vacuumVars, ghostVars
<1>13. CASE EndReadOnly(t)
  BY ONLY <1>0, <1>t, <1>13, ExceptSame, Zenon
  DEF EndReadOnly, NoSnapshot, ThreadInv, CommitOf, Building, Completing, idVars, statusVars,
      ovVars, vacuumVars, ghostVars
<1>14. ASSUME NEW o \in {"commit", "abort", "sub"}, CompleteStart(t, o) PROVE CommitOf(t)'
  BY ONLY <1>0, <1>t, <1>14, ExceptSame, Zenon
  DEF CompleteStart, Goto, ThreadInv, CommitOf, Building, Completing, idVars, statusVars, ovVars,
      vacuumVars, ghostVars
<1>15. CASE CompletePublish(t)
  BY ONLY <1>0, <1>t, <1>15, ExceptSame, Zenon
  DEF CompletePublish, Goto, ThreadInv, CommitOf, Building, Completing, idVars, statusVars,
      ovVars, vacuumVars, ghostVars
<1>16. CASE CompleteSlot(t)
  <2>1. /\ pc[t] = "slot" /\ pc'[t] = "load_global" /\ op[t] \in {"commit", "abort"}
        /\ UNCHANGED <<op, id, committing>>
        /\ op[t] = "commit" =>
             lowest_visible'[t] = IF lowest_visible[t] = MVCCID_NULL \/ lowest_visible[t] < id[t]
                                    THEN id[t] ELSE lowest_visible[t]
    BY ONLY <1>0, <1>16, ExceptSame, Zenon DEF CompleteSlot, Goto, idVars, ghostVars
  <2>2. /\ id[t] \in Ids /\ lowest_active \in Lows /\ lowest_active <= id[t]
        /\ lowest_visible[t] <= lowest_active /\ lowest_visible[t] \in Slots
    BY <2>1, CompletedAbove, Zenon
  <2>3. op[t] = "commit" => lowest_visible'[t] = id[t]
    BY ONLY <2>1, <2>2, Bounds DEF Ids, Lows, Slots
  <2>. QED  BY ONLY <1>t, <2>1, <2>3, Zenon DEF CommitOf, Completing
<1>17. CASE CompleteSub(t)
  BY ONLY <1>0, <1>t, <1>17, ExceptSame, Zenon
  DEF CompleteSub, Return, Goto, ThreadInv, CommitOf, Building, Completing, idVars, statusVars,
      ovVars, vacuumVars, ghostVars
<1>18. CASE CompleteLoadGlobal(t)
  BY ONLY <1>0, <1>t, <1>18, ExceptSame, Zenon
  DEF CompleteLoadGlobal, Goto, ThreadInv, CommitOf, Building, Completing, idVars, statusVars,
      ovVars, vacuumVars, ghostVars
<1>19. CASE CompleteCompute(t)
  <2>1. /\ pc[t] = "compute" /\ pc'[t] \in {"check_version", "reset_info"}
        /\ UNCHANGED <<op, id, lowest_visible, committing>>
    BY <1>19, ComputeFacts, Zenon DEF IInv
  <2>. QED  BY ONLY <1>t, <2>1, Zenon DEF CommitOf, Completing
<1>20. CASE CompleteCheckVersion(t)
  BY ONLY <1>0, <1>t, <1>20, ExceptSame, Zenon
  DEF CompleteCheckVersion, Goto, ThreadInv, CommitOf, Building, Completing, idVars, statusVars,
      ovVars, vacuumVars, ghostVars
<1>21. CASE AdvanceOldestActive(t)
  BY ONLY <1>0, <1>t, <1>21, ExceptSame, Zenon
  DEF AdvanceOldestActive, Goto, ThreadInv, CommitOf, Building, Completing, idVars, statusVars,
      ovVars, vacuumVars, ghostVars
<1>22. CASE CompleteResetInfo(t)
  BY ONLY <1>0, <1>t, <1>22, ExceptSame, Zenon
  DEF CompleteResetInfo, Return, Goto, NoSnapshot, ThreadInv, CommitOf, Building, Completing,
      idVars, statusVars, ovVars, vacuumVars, ghostVars
<1>23. CASE LogComplete(t)
  BY ONLY <1>0, <1>t, <1>23, ExceptSame, Zenon
  DEF LogComplete, Goto, ThreadInv, CommitOf, Building, Completing, idVars, statusVars, ovVars,
      vacuumVars, ghostVars
<1>24. CASE LockOldestVisible(t)
  BY ONLY <1>0, <1>t, <1>24, ExceptSame, Zenon
  DEF LockOldestVisible, Goto, ThreadInv, CommitOf, Building, Completing, idVars, statusVars,
      ovVars, vacuumVars, ghostVars
<1>25. CASE ReadThreshold(t)
  BY ONLY <1>0, <1>t, <1>25, ExceptSame, Zenon
  DEF ReadThreshold, Goto, ThreadInv, CommitOf, Building, Completing, idVars, statusVars, ovVars,
      vacuumVars, ghostVars
<1>. QED
  BY <1>1, <1>2, <1>3, <1>4, <1>5, <1>6, <1>7, <1>8, <1>9, <1>10, <1>11, <1>12, <1>13, <1>14,
     <1>15, <1>16, <1>17, <1>18, <1>19, <1>20, <1>21, <1>22, <1>23, <1>24, <1>25, Zenon
  DEF ThreadStep


\* The slots of committed transactions, through every step.
LEMMA CommitStep == IInv /\ [Next]_vars => CommitInv'
<1>. SUFFICES ASSUME IInv, [Next]_vars PROVE CommitInv'  BY Zenon
<1>0. CommitInv  BY Zenon DEF IInv
<1>1. ASSUME NEW t \in Trans, ThreadStep(t) PROVE CommitInv'
  <2>1. \A u \in Trans : u # t => Same(u)  BY <1>1, ThreadFrame, Zenon DEF IInv
  <2>2. CommitOf(t)'  BY <1>1, OwnCommit, Zenon
  <2>3. ASSUME NEW u \in Trans PROVE CommitOf(u)'
    <3>1. CASE u = t  BY ONLY <2>2, <3>1, Zenon
    <3>2. CASE u # t  BY ONLY <1>0, <2>1, <2>3, <3>2, ZenonT(60) DEF CommitInv, CommitOf, Same
    <3>. QED  BY <3>1, <3>2, Zenon
  <2>. QED  BY ONLY <2>3, Zenon DEF CommitInv, CommitOf
<1>2. CASE VacuumStep \/ UNCHANGED vars
  <2>1. UNCHANGED TableVars  BY <1>2, VacuumFrame, Zenon
  <2>. QED  BY ONLY <1>0, <2>1, Zenon DEF CommitInv, TableVars
<1>. QED  BY <1>1, <1>2, Steps, Zenon

\* Restart: reset_start_mvccid and rv_reactivate_mvccid leave the watermark at
\* the smallest id that is active again.
LEMMA RestartFacts ==
  /\ RestartStatus \in Status
  /\ Min({RestartNextId} \cup PreparedIds) \in Lows
  /\ \A i \in Ids : i < Min({RestartNextId} \cup PreparedIds) => i \in RestartStatus.done
  /\ RestartStatus.done \subseteq MVCCID_FIRST .. (RestartNextId - 1)
  /\ RestartStatus.version = 0 /\ \A i \in PreparedIds : i \notin RestartStatus.done
<1>1. /\ RestartNextId \in Nat /\ RestartNextId >= 4 /\ MaxId \in Nat /\ MaxId >= RestartNextId
      /\ \A t \in DOMAIN Prepared : Prepared[t] \in 4 .. (RestartNextId - 1)
  BY MvccTableAssumption DEF MVCCID_FIRST
<1>2. PreparedIds \subseteq 4 .. (RestartNextId - 1)  BY ONLY <1>1, Zenon DEF PreparedIds
<1>3. PICK S : S = {RestartNextId} \cup PreparedIds  BY Zenon
<1>4. S \in SUBSET Nat /\ S # {} /\ \A i \in S : i \in 4 .. RestartNextId
  BY ONLY <1>1, <1>2, <1>3
<1>5. Min(S) \in S /\ \A y \in S : Min(S) =< y  BY ONLY <1>4, MinFacts, Zenon
<1>6. Min(S) \in 4 .. RestartNextId /\ Min(S) <= RestartNextId  BY ONLY <1>3, <1>4, <1>5, Zenon
<1>7. Min(S) \in Lows  BY ONLY <1>1, <1>6 DEF Lows, MVCCID_FIRST
<1>8. RestartStatus.done = (4 .. (RestartNextId - 1)) \ PreparedIds /\ RestartStatus.version = 0
  BY DEF RestartStatus, MVCCID_FIRST
<1>9. \A i \in Ids : i < Min(S) => i \in RestartStatus.done
  <2>. SUFFICES ASSUME NEW i \in Ids, i < Min(S) PROVE i \in RestartStatus.done  BY Zenon
  <2>1. PICK m : m = Min(S)  BY Zenon
  <2>2. m \in 4 .. RestartNextId /\ i < m /\ i \in Ids /\ \A y \in S : m =< y
    BY ONLY <1>5, <1>6, <2>1, i < Min(S), i \in Ids, Zenon
  <2>3. i \in 4 .. (RestartNextId - 1) /\ ~(m =< i)  BY ONLY <1>1, <2>2 DEF Ids, MVCCID_FIRST
  <2>. QED  BY ONLY <1>3, <1>8, <2>2, <2>3, Zenon
<1>10. RestartStatus \in Status
  BY ONLY <1>1 DEF RestartStatus, Status, Ids, MVCCID_FIRST
<1>11. /\ RestartStatus.done \subseteq MVCCID_FIRST .. (RestartNextId - 1)
       /\ \A i \in PreparedIds : i \notin RestartStatus.done
  BY ONLY <1>8, Zenon DEF MVCCID_FIRST
<1>. QED  BY ONLY <1>3, <1>7, <1>8, <1>9, <1>10, <1>11, Zenon

\* What reset_start_mvccid and rv_reactivate_mvccid leave satisfies the invariant.
LEMMA InitIInv == Init => IInv
<1>. SUFFICES ASSUME Init PROVE IInv  BY Zenon
<1>1. /\ mvcc_next_id = RestartNextId /\ current = RestartStatus /\ position = 0
      /\ history = [k \in Indices |->
                      IF k = 0 THEN RestartStatus ELSE [version |-> 0, done |-> {},
                        start |-> MVCCID_FIRST]]
      /\ lowest_active = Min({RestartNextId} \cup PreparedIds)
      /\ lowest_visible = [t \in Trans |-> MVCCID_NULL] /\ mutex = {} /\ oldest_visible = MVCCID_NULL
      /\ pc = [t \in Trans |-> "run"] /\ op = [t \in Trans |-> "none"]
      /\ id = [t \in Trans |-> IF t \in DOMAIN Prepared THEN Prepared[t] ELSE MVCCID_NULL]
      /\ sub_ids = [t \in Trans |-> <<>>] /\ snapshot = [t \in Trans |-> NoSnapshot]
      /\ fresh = [t \in Trans |-> FALSE] /\ index = [t \in Trans |-> 0] /\ version = [t \in Trans |-> 0]
      /\ low = [t \in Trans |-> MVCCID_NULL] /\ copied = [t \in Trans |-> NoCopy]
      /\ vpc = "idle" /\ vlow = MVCCID_NULL /\ vnext = 1 /\ vwaiting = {}
      /\ committing = [t \in Trans |-> MVCCID_NULL]
  BY Zenon DEF Init
<1>2. /\ RestartNextId \in Lows /\ MVCCID_NULL \notin Lows /\ MVCCID_NULL # MVCCID_ALL_VISIBLE
      /\ 0 \in Indices /\ 1 \in 1 .. (NTrans + 1)
      /\ MVCCID_NULL \notin Ids
      /\ \A v \in Lows : MVCCID_NULL <= v
  BY Bounds, MvccTableAssumption DEF Lows, Indices, Ids
<1>3. /\ \A t \in DOMAIN Prepared : Prepared[t] \in Ids /\ Prepared[t] < RestartNextId
      /\ \A t, u \in DOMAIN Prepared : Prepared[t] = Prepared[u] => t = u
      /\ \A t \in DOMAIN Prepared : Prepared[t] \in PreparedIds
  BY Bounds, MvccTableAssumption DEF Ids, MVCCID_FIRST, PreparedIds
<1>4. \A t \in Trans :
        /\ pc[t] = "run" /\ op[t] = "none" /\ sub_ids[t] = <<>> /\ snapshot[t] = NoSnapshot
        /\ lowest_visible[t] = MVCCID_NULL /\ committing[t] = MVCCID_NULL
        /\ id[t] = IF t \in DOMAIN Prepared THEN Prepared[t] ELSE MVCCID_NULL
  BY ONLY <1>1, Zenon
<1>5. ~NoSnapshot.valid /\ NoSnapshot \in Snapshots /\ NoCopy \in [done : SUBSET Ids, start : Nat \ {0}]
  BY Bounds DEF NoSnapshot, NoCopy, Snapshots
<1>6. [version |-> 0, done |-> {}, start |-> MVCCID_FIRST] \in Status
  BY Bounds DEF Status
<1>7. TypeInv
  <2>1. history \in [Indices -> Status]  BY ONLY <1>1, <1>6, RestartFacts, Zenon
  <2>2. id \in [Trans -> Ids \cup {MVCCID_NULL}]  BY ONLY <1>1, <1>3, Zenon
  <2>3. sub_ids \in [Trans -> Seq(Ids)]
    <3>1. <<>> \in Seq(Ids)  OBVIOUS
    <3>. QED  BY ONLY <1>1, <3>1, Zenon
  <2>4. /\ pc \in [Trans -> Labels] /\ lowest_visible \in [Trans -> Slots]
        /\ op \in [Trans -> {"none", "commit", "abort", "sub"}]
    BY ONLY <1>1, Zenon DEF Labels, Slots
  <2>5. version \in [Trans -> Nat]  BY ONLY <1>1
  <2>6. /\ snapshot \in [Trans -> Snapshots] /\ copied \in [Trans -> [done : SUBSET Ids, start : Nat \ {0}]]
        /\ fresh \in [Trans -> BOOLEAN] /\ index \in [Trans -> Indices]
        /\ low \in [Trans -> Lows \cup {MVCCID_NULL}] /\ committing \in [Trans -> Ids \cup {MVCCID_NULL}]
    BY ONLY <1>1, <1>2, <1>5, Zenon
  <2>. QED
    BY ONLY <1>1, <1>2, <2>1, <2>2, <2>3, <2>4, <2>5, <2>6, RestartFacts, Zenon
    DEF TypeInv
<1>8. ASSUME NEW t \in Trans PROVE ThreadInv(t) /\ SlotInv(t)
  <2>1. lowest_active \in Lows  BY ONLY <1>7, Zenon DEF TypeInv
  <2>2. ~snapshot[t].valid  BY ONLY <1>4, <1>5, <1>8, Zenon
  <2>. QED  BY ONLY <1>1, <1>2, <1>4, <1>8, <2>1, <2>2, Zenon
       DEF ThreadInv, SlotInv, Building, Locked, Completing
<1>9. IdInv
  <2>1. DoneAssigned  BY ONLY <1>1, RestartFacts, Zenon DEF DoneAssigned, Assigned
  <2>2. IdsAssigned  BY ONLY <1>1, <1>3, <1>4, Zenon DEF IdsAssigned
  <2>3. IdsDiffer  BY ONLY <1>3, <1>4, Zenon DEF IdsDiffer
  <2>4. Members(<<>>) = {}  BY DEF Members
  <2>5. SubsAssigned /\ SubsDiffer  BY ONLY <1>4, <2>4, Zenon DEF SubsAssigned, SubsDiffer
  <2>6. OwnersActive  BY ONLY <1>1, <1>3, <1>4, RestartFacts, Zenon DEF OwnersActive
  <2>. QED  BY ONLY <2>1, <2>2, <2>3, <2>5, <2>6, Zenon DEF IdInv
<1>10. Settled = current.done  BY ONLY <1>1, Zenon DEF Settled
<1>11. EntryInv
  <2>1. \A k \in Indices : history[k].version = 0 /\ (history[k] = current \/ history[k].done = {})
    BY ONLY <1>1, RestartFacts
  <2>2. current.version = 0 /\ 0 <= 0  BY ONLY <1>1, RestartFacts
  <2>3. \A k \in Indices : history[k].version <= current.version  BY ONLY <2>1, <2>2, Zenon
  <2>4. \A k \in Indices : history[k].done \subseteq current.done  BY ONLY <2>1, Zenon
  <2>. QED  BY ONLY <1>10, <2>3, <2>4, Zenon DEF EntryInv
<1>12. VersionInv /\ MutexInv  BY ONLY <1>1, <1>4, Zenon DEF VersionInv, MutexInv, Completing
<1>13. LowInv  BY ONLY <1>1, <1>4, <1>10, RestartFacts, Zenon DEF LowInv, Below
<1>14. VacuumInv
  <2>1. lowest_active \in Lows  BY ONLY <1>7, Zenon DEF TypeInv
  <2>. QED  BY ONLY <1>1, <1>2, <1>4, <2>1, Zenon DEF VacuumInv, Claims, Seen
<1>15. CommitInv  BY ONLY <1>4, Zenon DEF CommitInv
<1>. QED  BY ONLY <1>7, <1>8, <1>9, <1>11, <1>12, <1>13, <1>14, <1>15, Zenon DEF IInv

\* The inductive invariant holds in every state that the MVCC table reaches.
THEOREM Inductive == Spec => []IInv
<1>1. IInv /\ [Next]_vars => IInv'
  BY TypeStep, ThreadsStep, MutexStep, IdStep, EntryStep, VersionStep, LowStep, VacuumInvStep,
     CommitStep, Zenon
  DEF IInv
<1>. QED  BY InitIInv, <1>1, PTL DEF Spec

-----------------------------------------------------------------------------
\* The watermark m_current_status_lowest_active_mvccid, which complete_mvcc
\* computes from a history entry outside the mutex and stores only while the
\* entry still has its version, never passes an active id: for any number of
\* transactions, sub-transactions and ids, any ring size, any torn read.
THEOREM Watermark == Spec => []WatermarkIsBelowActive
<1>1. IInv => WatermarkIsBelowActive
  BY Zenon DEF IInv, LowInv, Below, Settled, WatermarkIsBelowActive
<1>. QED  BY Inductive, <1>1, PTL

\* update_global_oldest_visible never passes what a snapshot in use takes for
\* active, however its scan of the slots meets the marks, stores and restarts
\* of build_mvcc_info and the completions.
THEOREM VacuumAndSnapshots == Spec => []VacuumRespectsSnapshots
<1>1. IInv => VacuumRespectsSnapshots
  <2>. SUFFICES ASSUME IInv, NEW t \in Trans, InUse(t), NEW i \in Ids, i < oldest_visible
                PROVE  ~InSnapshot(t, i)
    BY Zenon DEF VacuumRespectsSnapshots
  <2>1. SlotInv(t) /\ VacuumInv /\ snapshot[t] \in Snapshots /\ oldest_visible \in Lows \cup {MVCCID_NULL}
    BY Zenon DEF IInv, TypeInv
  <2>2. lowest_visible[t] \in Lows /\ lowest_visible[t] <= snapshot[t].lowest
    BY <2>1, Zenon DEF SlotInv, InUse
  <2>3. oldest_visible <= lowest_visible[t]
    BY <2>1, <2>2, Zenon DEF VacuumInv, Claims
  <2>4. ~(i >= snapshot[t].lowest)
    BY ONLY <2>1, <2>2, <2>3, i \in Ids, i < oldest_visible, Bounds DEF Ids, Lows, Snapshots
  <2>. QED  BY <2>4, Zenon DEF InSnapshot
<1>. QED  BY Inductive, <1>1, PTL

\* complete_mvcc leaves the id of a committing transaction in its slot, so the
\* oldest visible id stays at or below it until log_complete has written
\* LOG_COMMIT and clears the slot.
THEOREM CommitAndVacuum == Spec => []CommitIsLoggedBeforeVacuum
<1>1. IInv => CommitIsLoggedBeforeVacuum
  <2>. SUFFICES ASSUME IInv, NEW t \in Trans, committing[t] # MVCCID_NULL
                PROVE  oldest_visible <= committing[t]
    BY Zenon DEF CommitIsLoggedBeforeVacuum
  <2>1. /\ CommitOf(t) /\ VacuumInv /\ committing[t] \in Ids /\ oldest_visible \in Lows \cup {MVCCID_NULL}
    BY Zenon DEF IInv, TypeInv, CommitInv, CommitOf
  <2>2. committing[t] \in Lows  BY ONLY <2>1, Bounds DEF Ids, Lows
  <2>3. CASE pc[t] # "slot"
    BY <2>1, <2>2, <2>3, Zenon DEF CommitOf, VacuumInv, Claims
  <2>4. CASE pc[t] = "slot"
    <3>1. op[t] = "commit" /\ committing[t] = id[t]  BY <2>1, <2>4, Zenon DEF CommitOf
    <3>2. lowest_active \in Lows /\ lowest_active <= id[t]  BY <2>4, <3>1, CompletedAbove, Zenon
    <3>3. oldest_visible <= lowest_active  BY <2>1, Zenon DEF VacuumInv
    <3>. QED  BY ONLY <2>1, <2>2, <3>1, <3>2, <3>3, Bounds DEF Lows
  <2>. QED  BY <2>3, <2>4, Zenon
<1>. QED  BY Inductive, <1>1, PTL

\* What update_global_oldest_visible asserts: neither watermark goes back.
THEOREM NeverBack == Spec => WatermarksNeverGoBack
<1>. DEFINE A == oldest_visible' >= oldest_visible /\ lowest_active' >= lowest_active
<1>1. IInv /\ [Next]_vars => [A]_<<oldest_visible, lowest_active>>
  <2>. SUFFICES ASSUME IInv, [Next]_vars PROVE A  BY Zenon
  <2>0. oldest_visible \in Lows \cup {MVCCID_NULL} /\ lowest_active \in Lows /\ VacuumInv
    BY Zenon DEF IInv, TypeInv
  <2>1. ASSUME NEW t \in Trans, ThreadStep(t) PROVE A
    <3>1. lowest_active' >= lowest_active  BY <2>1, WatermarkGrows, Zenon
    <3>2. oldest_visible' = oldest_visible  BY <2>1, TableFrames, Zenon DEF TableFrame
    <3>. QED  BY ONLY <2>0, <3>1, <3>2, Bounds DEF Lows
  <2>2. CASE VacuumStep \/ UNCHANGED vars
    <3>1. lowest_active' = lowest_active  BY <2>2, VacuumFrame, Zenon DEF TableVars
    <3>2. oldest_visible' = oldest_visible \/ VacuumStore
      BY <2>2, Zenon
      DEF VacuumStep, VacuumStart, VacuumScan, VacuumWait, VacuumRecheck, vars, ovVars
    <3>3. VacuumStore => oldest_visible' \in Lows /\ oldest_visible <= oldest_visible'
      BY <2>0, Zenon DEF VacuumStore, VacuumInv
    <3>. QED  BY ONLY <2>0, <3>1, <3>2, <3>3, Bounds DEF Lows
  <2>. QED  BY <2>1, <2>2, Steps, Zenon
<1>. QED  BY Inductive, <1>1, PTL DEF Spec, WatermarksNeverGoBack

=============================================================================
