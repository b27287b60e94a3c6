-------------------------- MODULE LockfreeTranProofs --------------------------
(***************************************************************************)
(* TLAPS proofs about LockfreeTran, for any number of threads and nodes.   *)
(*                                                                         *)
(* NoReclaimWhileHeld is not inductive.  The argument is about the id k a  *)
(* node was tagged with when it was retired, and a reader r that still     *)
(* holds it: r published an id below k, because k was drawn after the      *)
(* unlink.  A scan by s either reads r's descriptor while r is inside its  *)
(* transaction, and its minimum is below k; or it read r's descriptor      *)
(* before r started, and then k was drawn after s published its own id,    *)
(* which is an upper bound of the scan's minimum.  HeldSafe states this    *)
(* for every minimum in use: the cached one, the one a reclaim pass has    *)
(* taken, and the one a running scan will produce.                         *)
(***************************************************************************)
EXTENDS LockfreeTran, TLAPS

(* Thread t has drawn the retire id of its victim.                         *)
HasId(t) == victim[t] # NoNode /\ (pc[t] # "run" \/ didIncr[t])

(* Node n is retired, or about to be, with retire id k.                    *)
Tagged(n, k) ==
  \/ status[n] = "retired" /\ retireTranid[n] = k
  \/ \E t \in Threads : victim[t] = n /\ HasId(t) /\ drawn[t] = k

(* Across a step, t keeps the retire id it had drawn or draws a new one.   *)
KeepsId(t) ==
  HasId(t)' => /\ victim'[t] = victim[t] /\ victim[t] # NoNode
               /\ (HasId(t) /\ drawn'[t] = drawn[t]) \/ drawn'[t] = globalTranid + 1

HeldSafe(r, k) ==
  /\ tranid[r] < k
  /\ minActive <= k
  /\ \A t \in Threads : pc[t] = "take" => minvalue[t] <= k
  /\ \A s \in Threads : pc[s] = "scan" =>
       k >= tranid[s] \/ r >= it[s] \/ minvalue[s] <= k

HeldInv ==
  \A r \in Threads : \A n \in hold[r] : \A k \in Ids : Tagged(n, k) => HeldSafe(r, k)

(* What each thread's descriptor and locals satisfy on their own.          *)
ThreadInv(t) ==
  /\ tranid[t] # INVALID_TRANID => tranid[t] <= globalTranid
  /\ drawn[t] <= globalTranid
  /\ tranid[t] = INVALID_TRANID => hold[t] = {} /\ ~didIncr[t]
  /\ pc[t] = "publish" => hold[t] = {} /\ victim[t] # NoNode
  /\ pc[t] = "start" => tranid[t] = INVALID_TRANID /\ victim[t] = NoNode
  /\ pc[t] = "append" => victim[t] # NoNode
  /\ pc[t] = "scan" => /\ tranid[t] # INVALID_TRANID
                       /\ t < it[t] => minvalue[t] <= tranid[t]
  /\ pc[t] # "scan" => it[t] = 0
  /\ pc[t] = "publish" => ret[t] \in {"run", "reclaim"}
  /\ pc[t] = "scan" => ret[t] \in {"run", "reclaim", "take"}
  /\ shouldEnd[t] => /\ hold[t] = {} /\ victim[t] # NoNode /\ pc[t] # "run"
                     /\ pc[t] \in {"publish", "scan"} => ret[t] # "run"
  /\ pc[t] = "take" => minvalue[t] <= globalTranid
  /\ pc[t] = "run" /\ didIncr[t] /\ victim[t] # NoNode => drawn[t] = tranid[t]
  /\ pc[t] = "scan" /\ ret[t] = "run" => /\ didIncr[t]
                                         /\ victim[t] # NoNode
                                         /\ drawn[t] = tranid[t]

(* A node is in one place: a victim is unlinked and belongs to one thread, *)
(* a node of a retired list is retired and occurs in the lists once.       *)
PlaceInv ==
  /\ \A t \in Threads : victim[t] # NoNode => status[victim[t]] = "unlinked"
  /\ \A t, u \in Threads : victim[t] # NoNode /\ victim[t] = victim[u] => t = u
  /\ \A t \in Threads : \A i \in 1 .. Len(retired[t]) : status[retired[t][i]] = "retired"
  /\ \A t, u \in Threads : \A i \in 1 .. Len(retired[t]), j \in 1 .. Len(retired[u]) :
       retired[t][i] = retired[u][j] => t = u /\ i = j

(* Retired lists are ordered, and below the id their thread has drawn.     *)
OrderInv ==
  /\ RetiredInOrder
  /\ \A t \in Threads : \A i \in 1 .. Len(retired[t]) :
       /\ retireTranid[retired[t][i]] <= globalTranid
       /\ HasId(t) => retireTranid[retired[t][i]] < drawn[t]

IInv ==
  /\ TypeOK
  /\ minActive <= globalTranid
  /\ \A t \in Threads : ThreadInv(t)
  /\ PlaceInv
  /\ OrderInv
  /\ HeldInv
  /\ NoReclaimWhileHeld

-----------------------------------------------------------------------------
(* The initial state satisfies the inductive invariant.                    *)
LEMMA InitIInv == Init => IInv
<1> SUFFICES ASSUME Init PROVE IInv
  BY Zenon
<1> USE ConstantsAssumption DEF Threads, Ids
<1>1. TypeOK
  BY DEF Init, TypeOK, PcValues
<1>2. \A t \in Threads : ThreadInv(t)
  BY DEF Init, ThreadInv
<1>3. PlaceInv /\ OrderInv
  BY DEF Init, PlaceInv, OrderInv, RetiredInOrder
<1>4. HeldInv /\ NoReclaimWhileHeld
  BY Zenon DEF Init, HeldInv, NoReclaimWhileHeld
<1> QED
  BY <1>1, <1>2, <1>3, <1>4 DEF Init, IInv

(* The values the steps assign, as members of the sets TypeOK names.       *)
LEMMA TypeFacts ==
  ASSUME TypeOK
  PROVE  /\ 0 \in Ids /\ INVALID_TRANID \in Ids /\ globalTranid \in Ids
         /\ CanDraw => /\ globalTranid + 1 \in Ids
                       /\ globalTranid + 1 \in 0 .. (INVALID_TRANID - 1)
         /\ 0 \in 0 .. NThreads
         /\ \A x \in 0 .. NThreads : x < NThreads => x + 1 \in 0 .. NThreads /\ x \in Threads
         /\ PcValues = {"run", "start", "publish", "scan", "reclaim", "take", "append"}
  BY ConstantsAssumption DEF TypeOK, Ids, CanDraw, Threads, PcValues

(* Every step keeps the types: in particular an id never reaches the       *)
(* sentinel.                                                               *)
LEMMA TypeStep == IInv /\ [Next]_vars => TypeOK'
<1> SUFFICES ASSUME TypeOK, [Next]_vars,
                    \A t \in Threads : pc[t] = "append" => victim[t] # NoNode
             PROVE  TypeOK'
  BY Zenon DEF IInv, ThreadInv
<1> USE TypeFacts DEF TypeOK, table, desc, client, locals, Goto, AfterReclaim
<1>1. CASE UNCHANGED vars
  BY <1>1, Zenon DEF vars
<1>2. ASSUME NEW n \in Nodes, Link(n) PROVE TypeOK'
  BY <1>2, Zenon DEF Link
<1>3. ASSUME NEW t \in Threads, NEW n \in Nodes, Access(t, n) PROVE TypeOK'
  BY <1>3, Zenon DEF Access
<1>4. ASSUME NEW t \in Threads, NEW n \in Nodes, Unlink(t, n) PROVE TypeOK'
  BY <1>4, Zenon DEF Unlink
<1>5. ASSUME NEW t \in Threads, StartTranLoad(t) PROVE TypeOK'
  BY <1>5, Zenon DEF StartTranLoad
<1>6. ASSUME NEW t \in Threads, StartTranPublish(t) PROVE TypeOK'
  BY <1>6, Zenon DEF StartTranPublish
<1>7. ASSUME NEW t \in Threads, EndTran(t) PROVE TypeOK'
  BY <1>7, Zenon DEF EndTran
<1>8. ASSUME NEW t \in Threads, Promote(t) PROVE TypeOK'
  BY <1>8, Zenon DEF Promote, IncrementId
<1>9. ASSUME NEW t \in Threads, PublishIncremented(t) PROVE TypeOK'
  BY <1>9, Zenon DEF PublishIncremented, RefreshIfDue
<1>10. ASSUME NEW t \in Threads, ScanOne(t) PROVE TypeOK'
  BY <1>10, Zenon DEF ScanOne
<1>11. ASSUME NEW t \in Threads, ScanStore(t) PROVE TypeOK'
  BY <1>11, Zenon DEF ScanStore
<1>12. ASSUME NEW t \in Threads, RetireOutside(t) PROVE TypeOK'
  BY <1>12, Zenon DEF RetireOutside, IncrementId
<1>13. ASSUME NEW t \in Threads, RetirePromoted(t) PROVE TypeOK'
  BY <1>13, Zenon DEF RetirePromoted
<1>14. ASSUME NEW t \in Threads, RetireInside(t) PROVE TypeOK'
  BY <1>14, Zenon DEF RetireInside, RefreshIfDue
<1>15. ASSUME NEW t \in Threads, ClaimReclaims(t) PROVE TypeOK'
  BY <1>15, Zenon DEF ClaimReclaims
<1>16. ASSUME NEW t \in Threads, ReclaimRead(t) PROVE TypeOK'
  BY <1>16, ZenonT(20) DEF ReclaimRead
<1>17. ASSUME NEW t \in Threads, ReclaimTake(t) PROVE TypeOK'
  <2>1. PICK k \in 0 .. Len(retired[t]) :
          /\ retired' = [retired EXCEPT ![t] = SubSeq(@, k + 1, Len(@))]
          /\ status' = [n \in Nodes |->
                          IF \E i \in 1 .. k : retired[t][i] = n THEN "free" ELSE status[n]]
    BY <1>17, ZenonT(20) DEF ReclaimTake
  <2>2. SubSeq(retired[t], k + 1, Len(retired[t])) \in Seq(Nodes)
    BY <2>1
  <2>3. retired' \in [Threads -> Seq(Nodes)]
    BY <2>1, <2>2, Zenon
  <2>4. status' \in [Nodes -> {"linked", "unlinked", "retired", "free"}]
    BY <2>1, Zenon
  <2> QED
    BY <1>17, <2>3, <2>4, ZenonT(20) DEF ReclaimTake
<1>18. ASSUME NEW t \in Threads, RetireAppend(t) PROVE TypeOK'
  <2>1. victim[t] \in Nodes
    BY <1>18, Zenon DEF RetireAppend
  <2>2. didIncr' \in [Threads -> BOOLEAN]
    BY <1>18, ZenonT(20) DEF RetireAppend
  <2>3. retired' \in [Threads -> Seq(Nodes)]
    BY <1>18, <2>1 DEF RetireAppend
  <2> QED
    BY <1>18, <2>1, <2>2, <2>3, ZenonT(20) DEF RetireAppend
<1> QED
  BY <1>1, <1>2, <1>3, <1>4, <1>5, <1>6, <1>7, <1>8, <1>9, <1>10, <1>11, <1>12,
     <1>13, <1>14, <1>15, <1>16, <1>17, <1>18, ZenonT(20) DEF Next, Step

(* TypeOK read as facts about numbers.                                     *)
LEMMA NumFacts ==
  ASSUME TypeOK
  PROVE  /\ NThreads \in Nat /\ INVALID_TRANID \in Nat
         /\ globalTranid \in Nat /\ globalTranid < INVALID_TRANID
         /\ minActive \in Nat /\ minActive <= INVALID_TRANID
         /\ \A t \in Threads :
              /\ t \in Nat /\ t < NThreads
              /\ tranid[t] \in Nat /\ tranid[t] <= INVALID_TRANID
              /\ drawn[t] \in Nat
              /\ minvalue[t] \in Nat /\ minvalue[t] <= INVALID_TRANID
              /\ lastReclaim[t] \in Nat
              /\ it[t] \in Nat /\ it[t] <= NThreads
              /\ it[t] < NThreads => it[t] \in Threads
         /\ \A n \in Nodes : retireTranid[n] \in Nat
<1>1. /\ NThreads \in Nat /\ INVALID_TRANID \in Nat
      /\ globalTranid \in Nat /\ globalTranid < INVALID_TRANID
      /\ minActive \in Nat /\ minActive <= INVALID_TRANID
  BY ConstantsAssumption DEF TypeOK, Ids
<1>2. \A x \in Ids : x \in Nat /\ x <= INVALID_TRANID
  BY <1>1 DEF Ids
<1>3. \A t \in Threads : t \in Nat /\ t < NThreads
  BY <1>1 DEF Threads
<1>4. \A x \in 0 .. NThreads : /\ x \in Nat /\ x <= NThreads
                               /\ x < NThreads => x \in Threads
  BY <1>1 DEF Threads
<1>5. ASSUME NEW t \in Threads
      PROVE  /\ tranid[t] \in Ids /\ drawn[t] \in Ids /\ minvalue[t] \in Ids
             /\ lastReclaim[t] \in Ids /\ it[t] \in 0 .. NThreads
  BY Zenon DEF TypeOK
<1>6. \A n \in Nodes : retireTranid[n] \in Ids
  BY Zenon DEF TypeOK
<1> QED
  BY <1>1, <1>2, <1>3, <1>4, <1>5, <1>6, Zenon

(* A step of another thread leaves u's descriptor and locals alone, and    *)
(* the global id does not go back.                                         *)
SameThread(u) ==
  /\ globalTranid' >= globalTranid
  /\ tranid'[u] = tranid[u] /\ didIncr'[u] = didIncr[u] /\ hold'[u] = hold[u]
  /\ pc'[u] = pc[u] /\ ret'[u] = ret[u] /\ drawn'[u] = drawn[u]
  /\ victim'[u] = victim[u] /\ shouldEnd'[u] = shouldEnd[u]
  /\ it'[u] = it[u] /\ minvalue'[u] = minvalue[u]

(* ThreadInv(u) is stable under such a step.                               *)
LEMMA OtherThread ==
  ASSUME TypeOK, TypeOK', NEW u \in Threads, ThreadInv(u), SameThread(u)
  PROVE  ThreadInv(u)'
<1>1. /\ globalTranid \in Nat /\ globalTranid' \in Nat /\ drawn[u] \in Nat
      /\ tranid[u] \in Nat /\ minvalue[u] \in Nat
  BY NumFacts DEF TypeOK
<1> QED
  BY <1>1 DEF ThreadInv, SameThread

(* The invariants of the single threads are preserved by every step.       *)
LEMMA ThreadStep == IInv /\ [Next]_vars => \A u \in Threads : ThreadInv(u)'
<1> SUFFICES ASSUME IInv, [Next]_vars, NEW u \in Threads
             PROVE  ThreadInv(u)'
  BY Zenon
<1>0. /\ TypeOK /\ TypeOK' /\ ThreadInv(u)
      /\ minActive <= globalTranid /\ globalTranid <= globalTranid
  BY TypeStep, NumFacts DEF IInv
<1> USE NumFacts DEF Goto, table, desc, client, locals
<1>1. CASE UNCHANGED vars
  BY <1>0, <1>1, OtherThread, Zenon DEF vars, SameThread
<1>2. ASSUME NEW n \in Nodes, Link(n) PROVE ThreadInv(u)'
  BY <1>0, <1>2, OtherThread, Zenon DEF Link, SameThread
<1>3. ASSUME NEW t \in Threads, NEW n \in Nodes, Access(t, n) PROVE ThreadInv(u)'
  <2>1. CASE u # t
    <3>1. SameThread(u)
      BY <1>0, <1>3, <2>1, Zenon DEF Access, TypeOK, SameThread
    <3> QED
      BY <1>0, <3>1, OtherThread, Zenon
  <2>2. CASE u = t
    BY <1>0, <1>3, <2>2, Zenon DEF Access, TypeOK, ThreadInv, IsTranStarted, AfterReclaim
  <2> QED
    BY <2>1, <2>2, Zenon
<1>4. ASSUME NEW t \in Threads, NEW n \in Nodes, Unlink(t, n) PROVE ThreadInv(u)'
  <2>1. CASE u # t
    <3>1. SameThread(u)
      BY <1>0, <1>4, <2>1 DEF Unlink, TypeOK, SameThread
    <3> QED
      BY <1>0, <3>1, OtherThread, Zenon
  <2>2. CASE u = t
    BY <1>0, <1>4, <2>2, Zenon DEF Unlink, TypeOK, ThreadInv, IsTranStarted, AfterReclaim
  <2> QED
    BY <2>1, <2>2, Zenon
<1>5. ASSUME NEW t \in Threads, StartTranLoad(t) PROVE ThreadInv(u)'
  <2>1. CASE u # t
    <3>1. SameThread(u)
      BY <1>0, <1>5, <2>1, Zenon DEF StartTranLoad, TypeOK, SameThread
    <3> QED
      BY <1>0, <3>1, OtherThread, Zenon
  <2>2. CASE u = t
    BY <1>0, <1>5, <2>2, Zenon DEF StartTranLoad, TypeOK, ThreadInv, IsTranStarted, AfterReclaim
  <2> QED
    BY <2>1, <2>2, Zenon
<1>6. ASSUME NEW t \in Threads, StartTranPublish(t) PROVE ThreadInv(u)'
  <2>1. CASE u # t
    <3>1. SameThread(u)
      BY <1>0, <1>6, <2>1, Zenon DEF StartTranPublish, TypeOK, SameThread
    <3> QED
      BY <1>0, <3>1, OtherThread, Zenon
  <2>2. CASE u = t
    BY <1>0, <1>6, <2>2 DEF StartTranPublish, TypeOK, ThreadInv, IsTranStarted, AfterReclaim
  <2> QED
    BY <2>1, <2>2, Zenon
<1>7. ASSUME NEW t \in Threads, EndTran(t) PROVE ThreadInv(u)'
  <2>1. CASE u # t
    <3>1. SameThread(u)
      BY <1>0, <1>7, <2>1, Zenon DEF EndTran, TypeOK, SameThread
    <3> QED
      BY <1>0, <3>1, OtherThread, Zenon
  <2>2. CASE u = t
    BY <1>0, <1>7, <2>2, Zenon DEF EndTran, TypeOK, ThreadInv, IsTranStarted, AfterReclaim
  <2> QED
    BY <2>1, <2>2, Zenon
<1>8. ASSUME NEW t \in Threads, Promote(t) PROVE ThreadInv(u)'
  <2>1. CASE u # t
    <3>1. SameThread(u)
      BY <1>0, <1>8, <2>1 DEF Promote, IncrementId, CanDraw, TypeOK, SameThread
    <3> QED
      BY <1>0, <3>1, OtherThread, Zenon
  <2>2. CASE u = t
    BY <1>0, <1>8, <2>2 DEF Promote, IncrementId, CanDraw, TypeOK, ThreadInv, IsTranStarted, AfterReclaim
  <2> QED
    BY <2>1, <2>2, Zenon
<1>9. ASSUME NEW t \in Threads, PublishIncremented(t) PROVE ThreadInv(u)'
  <2>1. CASE u # t
    <3>1. SameThread(u)
      BY <1>0, <1>9, <2>1 DEF PublishIncremented, RefreshIfDue, TypeOK, SameThread
    <3> QED
      BY <1>0, <3>1, OtherThread, Zenon
  <2>2. CASE u = t
    BY <1>0, <1>9, <2>2 DEF PublishIncremented, RefreshIfDue, TypeOK, ThreadInv, IsTranStarted, AfterReclaim
  <2> QED
    BY <2>1, <2>2, Zenon
<1>10. ASSUME NEW t \in Threads, ScanOne(t) PROVE ThreadInv(u)'
  <2>1. CASE u # t
    <3>1. SameThread(u)
      BY <1>0, <1>10, <2>1, Zenon DEF ScanOne, TypeOK, SameThread
    <3> QED
      BY <1>0, <3>1, OtherThread, Zenon
  <2>2. CASE u = t
    <3>1. /\ minvalue'[t] = IF minvalue[t] > tranid[it[t]] THEN tranid[it[t]] ELSE minvalue[t]
          /\ it'[t] = it[t] + 1 /\ it[t] \in Threads /\ pc[t] = "scan"
          /\ UNCHANGED <<globalTranid, tranid, didIncr, hold, pc, ret, drawn, victim, shouldEnd>>
      BY <1>0, <1>10, Zenon DEF ScanOne, TypeOK
    <3>2. t < it'[t] => minvalue'[t] <= tranid[t]
      BY <1>0, <2>2, <3>1 DEF ThreadInv
    <3> QED
      BY <1>0, <2>2, <3>1, <3>2, Zenon DEF ThreadInv
  <2> QED
    BY <2>1, <2>2, Zenon
<1>11. ASSUME NEW t \in Threads, ScanStore(t) PROVE ThreadInv(u)'
  <2>1. CASE u # t
    <3>1. SameThread(u)
      BY <1>0, <1>11, <2>1 DEF ScanStore, TypeOK, SameThread
    <3> QED
      BY <1>0, <3>1, OtherThread, Zenon
  <2>2. CASE u = t
    BY <1>0, <1>11, <2>2 DEF ScanStore, TypeOK, ThreadInv, IsTranStarted, AfterReclaim
  <2> QED
    BY <2>1, <2>2, Zenon
<1>12. ASSUME NEW t \in Threads, RetireOutside(t) PROVE ThreadInv(u)'
  <2>1. CASE u # t
    <3>1. SameThread(u)
      BY <1>0, <1>12, <2>1 DEF RetireOutside, IncrementId, CanDraw, TypeOK, SameThread
    <3> QED
      BY <1>0, <3>1, OtherThread, Zenon
  <2>2. CASE u = t
    BY <1>0, <1>12, <2>2 DEF RetireOutside, IncrementId, CanDraw, TypeOK, ThreadInv, IsTranStarted, AfterReclaim
  <2> QED
    BY <2>1, <2>2, Zenon
<1>13. ASSUME NEW t \in Threads, RetirePromoted(t) PROVE ThreadInv(u)'
  <2>1. CASE u # t
    <3>1. SameThread(u)
      BY <1>0, <1>13, <2>1, Zenon DEF RetirePromoted, TypeOK, SameThread
    <3> QED
      BY <1>0, <3>1, OtherThread, Zenon
  <2>2. CASE u = t
    BY <1>0, <1>13, <2>2, Zenon DEF RetirePromoted, TypeOK, ThreadInv, IsTranStarted, AfterReclaim
  <2> QED
    BY <2>1, <2>2, Zenon
<1>14. ASSUME NEW t \in Threads, RetireInside(t) PROVE ThreadInv(u)'
  <2>1. CASE u # t
    <3>1. SameThread(u)
      BY <1>0, <1>14, <2>1 DEF RetireInside, RefreshIfDue, CanDraw, TypeOK, SameThread
    <3> QED
      BY <1>0, <3>1, OtherThread, Zenon
  <2>2. CASE u = t
    BY <1>0, <1>14, <2>2 DEF RetireInside, RefreshIfDue, CanDraw, TypeOK, ThreadInv, IsTranStarted, AfterReclaim
  <2> QED
    BY <2>1, <2>2, Zenon
<1>15. ASSUME NEW t \in Threads, ClaimReclaims(t) PROVE ThreadInv(u)'
  <2>1. CASE u # t
    <3>1. SameThread(u)
      BY <1>0, <1>15, <2>1, Zenon DEF ClaimReclaims, TypeOK, SameThread
    <3> QED
      BY <1>0, <3>1, OtherThread, Zenon
  <2>2. CASE u = t
    BY <1>0, <1>15, <2>2, Zenon DEF ClaimReclaims, TypeOK, ThreadInv, IsTranStarted, AfterReclaim
  <2> QED
    BY <2>1, <2>2, Zenon
<1>16. ASSUME NEW t \in Threads, ReclaimRead(t) PROVE ThreadInv(u)'
  <2>1. CASE u # t
    <3>1. SameThread(u)
      BY <1>0, <1>16, <2>1 DEF ReclaimRead, TypeOK, SameThread
    <3> QED
      BY <1>0, <3>1, OtherThread, Zenon
  <2>2. CASE u = t
    BY <1>0, <1>16, <2>2 DEF ReclaimRead, TypeOK, ThreadInv, IsTranStarted, AfterReclaim
  <2> QED
    BY <2>1, <2>2, Zenon
<1>17. ASSUME NEW t \in Threads, ReclaimTake(t) PROVE ThreadInv(u)'
  <2>1. CASE u # t
    <3>1. SameThread(u)
      BY <1>0, <1>17, <2>1 DEF ReclaimTake, TypeOK, SameThread
    <3> QED
      BY <1>0, <3>1, OtherThread, Zenon
  <2>2. CASE u = t
    BY <1>0, <1>17, <2>2, Zenon DEF ReclaimTake, TypeOK, ThreadInv, IsTranStarted, AfterReclaim
  <2> QED
    BY <2>1, <2>2, Zenon
<1>18. ASSUME NEW t \in Threads, RetireAppend(t) PROVE ThreadInv(u)'
  <2>1. CASE u # t
    <3>1. SameThread(u)
      BY <1>0, <1>18, <2>1 DEF RetireAppend, TypeOK, SameThread
    <3> QED
      BY <1>0, <3>1, OtherThread, Zenon
  <2>2. CASE u = t
    BY <1>0, <1>18, <2>2 DEF RetireAppend, TypeOK, ThreadInv, IsTranStarted, AfterReclaim
  <2> QED
    BY <2>1, <2>2, Zenon
<1> QED
  BY <1>1, <1>2, <1>3, <1>4, <1>5, <1>6, <1>7, <1>8, <1>9, <1>10, <1>11, <1>12,
     <1>13, <1>14, <1>15, <1>16, <1>17, <1>18, ZenonT(20) DEF Next, Step

(* The cached minimum stays below the global id: a scan includes the       *)
(* scanning thread's own published id.                                     *)
LEMMA MinStep == IInv /\ [Next]_vars => minActive' <= globalTranid'
<1> SUFFICES ASSUME IInv, [Next]_vars PROVE minActive' <= globalTranid'
  BY Zenon
<1>0. TypeOK /\ minActive <= globalTranid /\ \A t \in Threads : ThreadInv(t)
  BY Zenon DEF IInv
<1> USE <1>0, NumFacts DEF table
<1>1. CASE UNCHANGED vars
  BY <1>1, Zenon DEF vars
<1>2. ASSUME NEW n \in Nodes, Link(n) PROVE minActive' <= globalTranid'
  BY <1>2, Zenon DEF Link
<1>3. ASSUME NEW t \in Threads, NEW n \in Nodes, Access(t, n) PROVE minActive' <= globalTranid'
  BY <1>3, Zenon DEF Access
<1>4. ASSUME NEW t \in Threads, NEW n \in Nodes, Unlink(t, n) PROVE minActive' <= globalTranid'
  BY <1>4, Zenon DEF Unlink
<1>5. ASSUME NEW t \in Threads, StartTranLoad(t) PROVE minActive' <= globalTranid'
  BY <1>5, Zenon DEF StartTranLoad
<1>6. ASSUME NEW t \in Threads, StartTranPublish(t) PROVE minActive' <= globalTranid'
  BY <1>6, Zenon DEF StartTranPublish
<1>7. ASSUME NEW t \in Threads, EndTran(t) PROVE minActive' <= globalTranid'
  BY <1>7, Zenon DEF EndTran
<1>8. ASSUME NEW t \in Threads, Promote(t) PROVE minActive' <= globalTranid'
  BY <1>8 DEF Promote, IncrementId, CanDraw
<1>9. ASSUME NEW t \in Threads, PublishIncremented(t) PROVE minActive' <= globalTranid'
  BY <1>9, Zenon DEF PublishIncremented, RefreshIfDue
<1>10. ASSUME NEW t \in Threads, ScanOne(t) PROVE minActive' <= globalTranid'
  BY <1>10, Zenon DEF ScanOne
<1>11. ASSUME NEW t \in Threads, ScanStore(t) PROVE minActive' <= globalTranid'
  <2>1. minvalue[t] <= tranid[t] /\ tranid[t] <= globalTranid
    BY <1>11, Zenon DEF ScanStore, ThreadInv
  <2> QED
    BY <1>11, <2>1 DEF ScanStore
<1>12. ASSUME NEW t \in Threads, RetireOutside(t) PROVE minActive' <= globalTranid'
  BY <1>12 DEF RetireOutside, IncrementId, CanDraw
<1>13. ASSUME NEW t \in Threads, RetirePromoted(t) PROVE minActive' <= globalTranid'
  BY <1>13, Zenon DEF RetirePromoted
<1>14. ASSUME NEW t \in Threads, RetireInside(t) PROVE minActive' <= globalTranid'
  BY <1>14 DEF RetireInside, RefreshIfDue, CanDraw
<1>15. ASSUME NEW t \in Threads, ClaimReclaims(t) PROVE minActive' <= globalTranid'
  BY <1>15, Zenon DEF ClaimReclaims
<1>16. ASSUME NEW t \in Threads, ReclaimRead(t) PROVE minActive' <= globalTranid'
  BY <1>16, Zenon DEF ReclaimRead
<1>17. ASSUME NEW t \in Threads, ReclaimTake(t) PROVE minActive' <= globalTranid'
  BY <1>17, Zenon DEF ReclaimTake
<1>18. ASSUME NEW t \in Threads, RetireAppend(t) PROVE minActive' <= globalTranid'
  BY <1>18, Zenon DEF RetireAppend
<1> QED
  BY <1>1, <1>2, <1>3, <1>4, <1>5, <1>6, <1>7, <1>8, <1>9, <1>10, <1>11, <1>12,
     <1>13, <1>14, <1>15, <1>16, <1>17, <1>18, ZenonT(20) DEF Next, Step
------------------------------------------------------------------------------

(* Places: only Link, Unlink, ReclaimTake and RetireAppend move a node.    *)
LEMMA PlaceStep == IInv /\ [Next]_vars => PlaceInv'
<1> SUFFICES ASSUME IInv, [Next]_vars PROVE PlaceInv'
  BY Zenon
<1>0. TypeOK /\ PlaceInv /\ \A t \in Threads : ThreadInv(t)
  BY Zenon DEF IInv
<1>a. ASSUME UNCHANGED <<status, victim, retired>> PROVE PlaceInv'
  BY <1>0, <1>a DEF PlaceInv
<1>t. /\ retired \in [Threads -> Seq(Nodes)]
      /\ status \in [Nodes -> {"linked", "unlinked", "retired", "free"}]
      /\ victim \in [Threads -> Nodes \cup {NoNode}]
      /\ \A u \in Threads : \A i \in 1 .. Len(retired[u]) : retired[u][i] \in Nodes
  BY <1>0 DEF TypeOK
<1>v. /\ \A u \in Threads : victim[u] # NoNode => status[victim[u]] = "unlinked"
      /\ \A u, v \in Threads : victim[u] # NoNode /\ victim[u] = victim[v] => u = v
  BY <1>0, Zenon DEF PlaceInv
<1>p. /\ \A u \in Threads : \A i \in 1 .. Len(retired[u]) : status[retired[u][i]] = "retired"
      /\ \A u, v \in Threads : \A i \in 1 .. Len(retired[u]), j \in 1 .. Len(retired[v]) :
           retired[u][i] = retired[v][j] => u = v /\ i = j
  BY <1>0, Zenon DEF PlaceInv
<1> USE DEF desc, client, locals
<1>1. CASE UNCHANGED vars
  BY <1>a, <1>1, Zenon DEF vars
<1>2. ASSUME NEW n \in Nodes, Link(n) PROVE PlaceInv'
  BY <1>0, <1>2 DEF Link, PlaceInv, TypeOK
<1>3. ASSUME NEW t \in Threads, NEW n \in Nodes, Access(t, n) PROVE PlaceInv'
  BY <1>a, <1>3, Zenon DEF Access
<1>4. ASSUME NEW t \in Threads, NEW n \in Nodes, Unlink(t, n) PROVE PlaceInv'
  BY <1>0, <1>4 DEF Unlink, PlaceInv, TypeOK
<1>5. ASSUME NEW t \in Threads, StartTranLoad(t) PROVE PlaceInv'
  BY <1>a, <1>5, Zenon DEF StartTranLoad
<1>6. ASSUME NEW t \in Threads, StartTranPublish(t) PROVE PlaceInv'
  BY <1>a, <1>6, Zenon DEF StartTranPublish
<1>7. ASSUME NEW t \in Threads, EndTran(t) PROVE PlaceInv'
  BY <1>a, <1>7, Zenon DEF EndTran
<1>8. ASSUME NEW t \in Threads, Promote(t) PROVE PlaceInv'
  BY <1>a, <1>8, Zenon DEF Promote, IncrementId, CanDraw
<1>9. ASSUME NEW t \in Threads, PublishIncremented(t) PROVE PlaceInv'
  BY <1>a, <1>9, Zenon DEF PublishIncremented, RefreshIfDue
<1>10. ASSUME NEW t \in Threads, ScanOne(t) PROVE PlaceInv'
  BY <1>a, <1>10, Zenon DEF ScanOne
<1>11. ASSUME NEW t \in Threads, ScanStore(t) PROVE PlaceInv'
  BY <1>a, <1>11, Zenon DEF ScanStore
<1>12. ASSUME NEW t \in Threads, RetireOutside(t) PROVE PlaceInv'
  BY <1>a, <1>12, Zenon DEF RetireOutside, IncrementId, CanDraw
<1>13. ASSUME NEW t \in Threads, RetirePromoted(t) PROVE PlaceInv'
  BY <1>a, <1>13, Zenon DEF RetirePromoted
<1>14. ASSUME NEW t \in Threads, RetireInside(t) PROVE PlaceInv'
  BY <1>a, <1>14, Zenon DEF RetireInside, RefreshIfDue, CanDraw
<1>15. ASSUME NEW t \in Threads, ClaimReclaims(t) PROVE PlaceInv'
  BY <1>a, <1>15, Zenon DEF ClaimReclaims
<1>16. ASSUME NEW t \in Threads, ReclaimRead(t) PROVE PlaceInv'
  BY <1>a, <1>16, Zenon DEF ReclaimRead
<1>17. ASSUME NEW t \in Threads, ReclaimTake(t) PROVE PlaceInv'
  <2>1. PICK k \in 0 .. Len(retired[t]) :
          /\ retired' = [retired EXCEPT ![t] = SubSeq(@, k + 1, Len(@))]
          /\ status' = [n \in Nodes |->
                          IF \E i \in 1 .. k : retired[t][i] = n THEN "free" ELSE status[n]]
    BY <1>17, ZenonT(20) DEF ReclaimTake
  <2>2. victim' = victim
    BY <1>17, Zenon DEF ReclaimTake
  <2>3. /\ retired[t] \in Seq(Nodes) /\ Len(retired[t]) \in Nat /\ k \in Nat
        /\ \A u \in Threads : u # t => retired'[u] = retired[u]
        /\ Len(retired'[t]) = Len(retired[t]) - k
        /\ \A i \in 1 .. (Len(retired[t]) - k) : retired'[t][i] = retired[t][i + k]
    BY <1>0, <2>1 DEF TypeOK
  <2>4. \A u \in Threads : victim[u] # NoNode => status'[victim[u]] = "unlinked"
    <3>1. ASSUME NEW u \in Threads, victim[u] # NoNode
          PROVE  status'[victim[u]] = "unlinked"
      <4>1. victim[u] \in Nodes /\ status[victim[u]] = "unlinked"
        BY <1>0, <3>1 DEF PlaceInv, TypeOK
      <4>2. \A i \in 1 .. k : retired[t][i] # victim[u]
        BY <1>p, <2>1, <2>3, <4>1
      <4> QED
        BY <2>1, <4>1, <4>2, Zenon
    <3> QED
      BY <3>1, Zenon
  <2>5. ASSUME NEW u \in Threads, NEW i \in 1 .. Len(retired'[u])
        PROVE  status'[retired'[u][i]] = "retired"
    <3>1. CASE u = t
      <4>1. /\ i \in 1 .. (Len(retired[t]) - k) /\ i + k \in 1 .. Len(retired[t])
            /\ retired'[t][i] = retired[t][i + k]
        BY <2>3, <3>1
      <4>2. /\ retired[t][i + k] \in Nodes /\ status[retired[t][i + k]] = "retired"
            /\ \A x \in 1 .. k : retired[t][x] # retired[t][i + k]
        BY <1>t, <1>p, <2>3, <4>1
      <4> QED
        BY <2>1, <3>1, <4>1, <4>2, Zenon
    <3>2. CASE u # t
      BY <1>0, <2>1, <2>3, <2>5, <3>2 DEF PlaceInv, TypeOK
    <3> QED
      BY <3>1, <3>2, Zenon
  <2>6. ASSUME NEW u \in Threads, NEW v \in Threads,
               NEW i \in 1 .. Len(retired'[u]), NEW j \in 1 .. Len(retired'[v]),
               retired'[u][i] = retired'[v][j]
        PROVE  u = v /\ i = j
    <3> DEFINE old(w, x) == IF w = t THEN x + k ELSE x
    <3>1. ASSUME NEW w \in Threads, NEW x \in 1 .. Len(retired'[w])
          PROVE  old(w, x) \in 1 .. Len(retired[w]) /\ retired'[w][x] = retired[w][old(w, x)]
      <4>1. CASE w = t
        <5>1. x \in 1 .. (Len(retired[t]) - k) /\ old(w, x) = x + k
          BY <2>3, <4>1, Zenon
        <5>2. x + k \in 1 .. Len(retired[t])
          BY <2>3, <5>1
        <5> QED
          BY <2>3, <4>1, <5>1, <5>2, Zenon
      <4>2. CASE w # t
        BY <2>3, <3>1, <4>2, Zenon
      <4> QED
        BY <4>1, <4>2, Zenon
    <3>2. \A x \in 1 .. Len(retired[u]), y \in 1 .. Len(retired[v]) :
            retired[u][x] = retired[v][y] => u = v /\ x = y
      BY <1>p, Zenon
    <3>3. u = v /\ old(u, i) = old(v, j)
      <4>1. old(u, i) \in 1 .. Len(retired[u]) /\ retired'[u][i] = retired[u][old(u, i)]
        BY <3>1, Zenon
      <4>2. old(v, j) \in 1 .. Len(retired[v]) /\ retired'[v][j] = retired[v][old(v, j)]
        BY <3>1, Zenon
      <4> HIDE DEF old
      <4> QED
        BY <2>6, <3>2, <4>1, <4>2, ZenonT(20)
    <3> QED
      BY <2>3, <3>3
  <2> QED
    BY <1>0, <2>2, <2>4, <2>5, <2>6 DEF PlaceInv
<1>18. ASSUME NEW t \in Threads, RetireAppend(t) PROVE PlaceInv'
  <2> DEFINE v == victim[t]
  <2>1. /\ v \in Nodes /\ status[v] = "unlinked"
        /\ status' = [status EXCEPT ![v] = "retired"]
        /\ victim' = [victim EXCEPT ![t] = NoNode]
    BY <1>0, <1>18, Zenon DEF RetireAppend, ThreadInv, PlaceInv, TypeOK
  <2>2. /\ retired[t] \in Seq(Nodes) /\ Len(retired[t]) \in Nat
        /\ \A u \in Threads : u # t => retired'[u] = retired[u]
        /\ Len(retired'[t]) = Len(retired[t]) + 1
        /\ retired'[t][Len(retired[t]) + 1] = v
        /\ \A i \in 1 .. Len(retired[t]) : retired'[t][i] = retired[t][i]
    <3>1. /\ retired[t] \in Seq(Nodes)
          /\ retired' = [retired EXCEPT ![t] = Append(retired[t], v)]
      BY <1>t, <1>18, Zenon DEF RetireAppend
    <3>2. retired'[t] = Append(retired[t], v) /\ v \in Nodes
      BY <1>t, <2>1, <3>1, Zenon
    <3>3. \A u \in Threads : u # t => retired'[u] = retired[u]
      BY <1>t, <3>1, Zenon
    <3> HIDE DEF v
    <3> QED
      BY <3>1, <3>2, <3>3
  <2>3. \A u \in Threads : \A i \in 1 .. Len(retired[u]) :
          retired[u][i] \in Nodes /\ retired[u][i] # v
    BY <1>t, <1>p, <2>1, Zenon
  <2>4. \A u \in Threads : victim'[u] # NoNode =>
          u # t /\ victim'[u] = victim[u] /\ status'[victim'[u]] = "unlinked"
    BY <1>t, <1>v, <2>1, Zenon
  <2>5. ASSUME NEW u \in Threads, NEW i \in 1 .. Len(retired'[u])
        PROVE  status'[retired'[u][i]] = "retired"
    <3>1. CASE u # t
      <4>1. /\ retired'[u][i] = retired[u][i] /\ status[retired[u][i]] = "retired"
            /\ retired[u][i] \in Nodes /\ retired[u][i] # v
        BY <1>p, <2>2, <2>3, <3>1
      <4> QED
        BY <1>t, <2>1, <4>1, Zenon
    <3>2. CASE u = t /\ i <= Len(retired[t])
      <4>1. retired'[t][i] = retired[t][i] /\ status[retired[t][i]] = "retired"
        BY <1>p, <2>2, <2>5, <3>2
      <4>2. retired[t][i] \in Nodes /\ retired[t][i] # v
        BY <2>2, <2>3, <2>5, <3>2
      <4> QED
        BY <1>t, <2>1, <3>2, <4>1, <4>2, Zenon
    <3>3. CASE u = t /\ i > Len(retired[t])
      <4>1. retired'[u][i] = v
        BY <2>2, <2>5, <3>3
      <4> QED
        BY <1>t, <2>1, <4>1, Zenon
    <3> QED
      BY <2>2, <3>1, <3>2, <3>3
  <2>6. ASSUME NEW u \in Threads, NEW w \in Threads,
               NEW i \in 1 .. Len(retired'[u]), NEW j \in 1 .. Len(retired'[w]),
               retired'[u][i] = retired'[w][j]
        PROVE  u = w /\ i = j
    <3> DEFINE old(x, y) == y \in 1 .. Len(retired[x]) /\ retired'[x][y] = retired[x][y]
               new(x, y) == x = t /\ y = Len(retired[t]) + 1 /\ retired'[x][y] = v
    <3>1. (old(u, i) \/ new(u, i)) /\ (old(w, j) \/ new(w, j))
      <4>1. ASSUME NEW x \in Threads, NEW y \in 1 .. Len(retired'[x])
            PROVE  old(x, y) \/ new(x, y)
        BY ONLY <2>2, x \in Threads, y \in 1 .. Len(retired'[x])
      <4> QED
        BY <4>1, Zenon
    <3>2. CASE old(u, i) /\ old(w, j)
      <4>1. \A x \in 1 .. Len(retired[u]), y \in 1 .. Len(retired[w]) :
              retired[u][x] = retired[w][y] => u = w /\ x = y
        BY <1>p, Zenon
      <4> QED
        BY <2>6, <3>2, <4>1, ZenonT(20)
    <3>3. CASE new(u, i) /\ new(w, j)
      BY <3>3, Zenon
    <3>4. ~(old(u, i) /\ new(w, j)) /\ ~(new(u, i) /\ old(w, j))
      BY <2>3, <2>6, Zenon
    <3> QED
      BY <3>1, <3>2, <3>3, <3>4, Zenon
  <2> QED
    BY <1>0, <2>4, <2>5, <2>6 DEF PlaceInv
<1> QED
  BY <1>1, <1>2, <1>3, <1>4, <1>5, <1>6, <1>7, <1>8, <1>9, <1>10, <1>11, <1>12,
     <1>13, <1>14, <1>15, <1>16, <1>17, <1>18, ZenonT(20) DEF Next, Step

(* A thread that has a retire id after a step had it before, or draws it   *)
(* in that step.                                                           *)
LEMMA HasIdStep ==
  IInv /\ [Next]_vars => /\ globalTranid \in Nat /\ globalTranid' \in Nat
                         /\ globalTranid <= globalTranid'
                         /\ \A u \in Threads : KeepsId(u)
<1> SUFFICES ASSUME IInv, [Next]_vars, NEW u
             PROVE  /\ globalTranid \in Nat /\ globalTranid' \in Nat
                    /\ globalTranid <= globalTranid'
                    /\ u \in Threads => KeepsId(u)
  BY Zenon
<1>0. /\ globalTranid \in Nat
      /\ pc \in [Threads -> PcValues] /\ ret \in [Threads -> PcValues]
      /\ drawn \in [Threads -> Ids] /\ didIncr \in [Threads -> BOOLEAN]
      /\ victim \in [Threads -> Nodes \cup {NoNode}]
  BY NumFacts, Zenon DEF IInv, TypeOK
<1>1a. u \in Threads =>
         /\ pc[u] = "start" => victim[u] = NoNode
         /\ pc[u] = "scan" /\ ret[u] = "run" => didIncr[u]
         /\ pc[u] = "run" /\ didIncr[u] /\ victim[u] # NoNode => drawn[u] = tranid[u]
  BY Zenon DEF IInv, ThreadInv
<1> DEFINE Goal == /\ globalTranid \in Nat /\ globalTranid' \in Nat
                   /\ globalTranid <= globalTranid'
                   /\ u \in Threads => KeepsId(u)
<1> USE <1>0, <1>1a DEF table, desc, client, locals, Goto, KeepsId, HasId
<1>1. CASE UNCHANGED vars
  BY <1>1 DEF vars
<1>2. ASSUME NEW n \in Nodes, Link(n) PROVE Goal
  BY <1>2 DEF Link
<1>3. ASSUME NEW t \in Threads, NEW n \in Nodes, Access(t, n) PROVE Goal
  BY <1>3 DEF Access
<1>4. ASSUME NEW t \in Threads, NEW n \in Nodes, Unlink(t, n) PROVE Goal
  BY <1>4 DEF Unlink
<1>5. ASSUME NEW t \in Threads, StartTranLoad(t) PROVE Goal
  BY <1>5 DEF StartTranLoad
<1>6. ASSUME NEW t \in Threads, StartTranPublish(t) PROVE Goal
  BY <1>6 DEF StartTranPublish
<1>7. ASSUME NEW t \in Threads, EndTran(t) PROVE Goal
  BY <1>7 DEF EndTran
<1>8. ASSUME NEW t \in Threads, Promote(t) PROVE Goal
  BY <1>8 DEF Promote, IncrementId, CanDraw
<1>9. ASSUME NEW t \in Threads, PublishIncremented(t) PROVE Goal
  BY <1>9 DEF PublishIncremented, RefreshIfDue
<1>10. ASSUME NEW t \in Threads, ScanOne(t) PROVE Goal
  BY <1>10 DEF ScanOne
<1>11. ASSUME NEW t \in Threads, ScanStore(t) PROVE Goal
  BY <1>11 DEF ScanStore
<1>12. ASSUME NEW t \in Threads, RetireOutside(t) PROVE Goal
  BY <1>12 DEF RetireOutside, IncrementId, CanDraw
<1>13. ASSUME NEW t \in Threads, RetirePromoted(t) PROVE Goal
  BY <1>13 DEF RetirePromoted
<1>14. ASSUME NEW t \in Threads, RetireInside(t) PROVE Goal
  BY <1>14 DEF RetireInside, RefreshIfDue, CanDraw
<1>15. ASSUME NEW t \in Threads, ClaimReclaims(t) PROVE Goal
  BY <1>15 DEF ClaimReclaims
<1>16. ASSUME NEW t \in Threads, ReclaimRead(t) PROVE Goal
  BY <1>16 DEF ReclaimRead, AfterReclaim
<1>17. ASSUME NEW t \in Threads, ReclaimTake(t) PROVE Goal
  BY <1>17 DEF ReclaimTake, AfterReclaim
<1>18. ASSUME NEW t \in Threads, RetireAppend(t) PROVE Goal
  BY <1>18 DEF RetireAppend
<1> QED
  BY <1>1, <1>2, <1>3, <1>4, <1>5, <1>6, <1>7, <1>8, <1>9, <1>10, <1>11, <1>12,
     <1>13, <1>14, <1>15, <1>16, <1>17, <1>18, ZenonT(20) DEF Next, Step

(* The retired lists stay ordered: an appended id was drawn after all the  *)
(* ids the thread's list holds.                                            *)
LEMMA OrderStep == IInv /\ [Next]_vars => OrderInv'
<1> SUFFICES ASSUME IInv, [Next]_vars PROVE OrderInv'
  BY Zenon
<1>0. TypeOK /\ PlaceInv /\ OrderInv /\ \A t \in Threads : ThreadInv(t)
  BY Zenon DEF IInv
<1>k. /\ globalTranid \in Nat /\ globalTranid' \in Nat /\ globalTranid <= globalTranid'
      /\ \A u \in Threads : KeepsId(u)
  BY HasIdStep, Zenon
<1>n. /\ \A n \in Nodes : retireTranid[n] \in Nat
      /\ \A u \in Threads : drawn[u] \in Nat /\ drawn[u] <= globalTranid
      /\ \A u \in Threads : \A i \in 1 .. Len(retired[u]) : retired[u][i] \in Nodes
  <2>1. retired \in [Threads -> Seq(Nodes)]
    BY <1>0, Zenon DEF TypeOK
  <2>2. \A u \in Threads : drawn[u] <= globalTranid
    BY <1>0, Zenon DEF ThreadInv
  <2> QED
    BY <1>0, <2>1, <2>2, NumFacts
<1>a. ASSUME UNCHANGED <<retired, retireTranid>> PROVE OrderInv'
  <2>1. RetiredInOrder'
    BY <1>0, <1>a, Zenon DEF OrderInv, RetiredInOrder
  <2>2. ASSUME NEW u \in Threads, NEW i \in 1 .. Len(retired[u])
        PROVE  /\ retireTranid[retired[u][i]] <= globalTranid'
               /\ HasId(u)' => retireTranid[retired[u][i]] < drawn'[u]
    <3>1. /\ retireTranid[retired[u][i]] \in Nat
          /\ retireTranid[retired[u][i]] <= globalTranid
          /\ HasId(u) => retireTranid[retired[u][i]] < drawn[u]
      BY <1>0, <1>n, Zenon DEF OrderInv
    <3>2. /\ globalTranid \in Nat /\ globalTranid' \in Nat /\ globalTranid <= globalTranid'
          /\ KeepsId(u)
      BY <1>k, Zenon
    <3> QED
      BY <3>1, <3>2 DEF KeepsId
  <2> QED
    BY <1>a, <2>1, <2>2, Zenon DEF OrderInv
<1> USE DEF desc
<1>1. CASE UNCHANGED vars
  BY <1>a, <1>1, Zenon DEF vars
<1>2. ASSUME NEW n \in Nodes, Link(n) PROVE OrderInv'
  BY <1>a, <1>2, Zenon DEF Link
<1>3. ASSUME NEW t \in Threads, NEW n \in Nodes, Access(t, n) PROVE OrderInv'
  BY <1>a, <1>3, Zenon DEF Access
<1>4. ASSUME NEW t \in Threads, NEW n \in Nodes, Unlink(t, n) PROVE OrderInv'
  BY <1>a, <1>4, Zenon DEF Unlink
<1>5. ASSUME NEW t \in Threads, StartTranLoad(t) PROVE OrderInv'
  BY <1>a, <1>5, Zenon DEF StartTranLoad
<1>6. ASSUME NEW t \in Threads, StartTranPublish(t) PROVE OrderInv'
  BY <1>a, <1>6, Zenon DEF StartTranPublish
<1>7. ASSUME NEW t \in Threads, EndTran(t) PROVE OrderInv'
  BY <1>a, <1>7, Zenon DEF EndTran
<1>8. ASSUME NEW t \in Threads, Promote(t) PROVE OrderInv'
  BY <1>a, <1>8, Zenon DEF Promote, IncrementId, CanDraw
<1>9. ASSUME NEW t \in Threads, PublishIncremented(t) PROVE OrderInv'
  BY <1>a, <1>9, Zenon DEF PublishIncremented, RefreshIfDue
<1>10. ASSUME NEW t \in Threads, ScanOne(t) PROVE OrderInv'
  BY <1>a, <1>10, Zenon DEF ScanOne
<1>11. ASSUME NEW t \in Threads, ScanStore(t) PROVE OrderInv'
  BY <1>a, <1>11, Zenon DEF ScanStore
<1>12. ASSUME NEW t \in Threads, RetireOutside(t) PROVE OrderInv'
  BY <1>a, <1>12, Zenon DEF RetireOutside, IncrementId, CanDraw
<1>13. ASSUME NEW t \in Threads, RetirePromoted(t) PROVE OrderInv'
  BY <1>a, <1>13, Zenon DEF RetirePromoted
<1>14. ASSUME NEW t \in Threads, RetireInside(t) PROVE OrderInv'
  BY <1>a, <1>14, Zenon DEF RetireInside, RefreshIfDue, CanDraw
<1>15. ASSUME NEW t \in Threads, ClaimReclaims(t) PROVE OrderInv'
  BY <1>a, <1>15, Zenon DEF ClaimReclaims
<1>16. ASSUME NEW t \in Threads, ReclaimRead(t) PROVE OrderInv'
  BY <1>a, <1>16, Zenon DEF ReclaimRead
<1>17. ASSUME NEW t \in Threads, ReclaimTake(t) PROVE OrderInv'
  <2>1. PICK k \in 0 .. Len(retired[t]) :
          retired' = [retired EXCEPT ![t] = SubSeq(@, k + 1, Len(@))]
    BY <1>17, ZenonT(20) DEF ReclaimTake
  <2>2. retireTranid' = retireTranid
    BY <1>17, Zenon DEF ReclaimTake
  <2>3. /\ retired[t] \in Seq(Nodes) /\ Len(retired[t]) \in Nat /\ k \in Nat
        /\ \A u \in Threads : u # t => retired'[u] = retired[u]
        /\ Len(retired'[t]) = Len(retired[t]) - k
        /\ \A i \in 1 .. (Len(retired[t]) - k) : retired'[t][i] = retired[t][i + k]
    BY <1>0, <2>1 DEF TypeOK
  <2>4. ASSUME NEW u \in Threads
        PROVE  \A i, j \in 1 .. Len(retired'[u]) :
                 i < j => retireTranid[retired'[u][i]] < retireTranid[retired'[u][j]]
    <3>1. CASE u = t
      <4>1. \A i, j \in 1 .. Len(retired[t]) :
              i < j => retireTranid[retired[t][i]] < retireTranid[retired[t][j]]
        BY <1>0, Zenon DEF OrderInv, RetiredInOrder
      <4>2. ASSUME NEW i \in 1 .. Len(retired'[t]), NEW j \in 1 .. Len(retired'[t]), i < j
            PROVE  retireTranid[retired'[t][i]] < retireTranid[retired'[t][j]]
        <5>1. i + k \in 1 .. Len(retired[t]) /\ j + k \in 1 .. Len(retired[t]) /\ i + k < j + k
          BY <2>3, <4>2
        <5>2. retired'[t][i] = retired[t][i + k] /\ retired'[t][j] = retired[t][j + k]
          BY <2>3, Zenon
        <5> QED
          BY <4>1, <5>1, <5>2, Zenon
      <4> QED
        BY <3>1, <4>2, Zenon
    <3>2. CASE u # t
      BY <1>0, <2>3, <3>2, Zenon DEF OrderInv, RetiredInOrder
    <3> QED
      BY <3>1, <3>2, Zenon
  <2>5. ASSUME NEW u \in Threads, NEW i \in 1 .. Len(retired'[u])
        PROVE  /\ retireTranid[retired'[u][i]] <= globalTranid'
               /\ HasId(u)' => retireTranid[retired'[u][i]] < drawn'[u]
    <3>1. PICK j \in 1 .. Len(retired[u]) : retired'[u][i] = retired[u][j]
      <4>1. CASE u = t
        BY <2>3, <2>5, <4>1
      <4>2. CASE u # t
        BY <2>3, <2>5, <4>2, Zenon
      <4> QED
        BY <4>1, <4>2, Zenon
    <3>2. /\ retireTranid[retired[u][j]] \in Nat
          /\ retireTranid[retired[u][j]] <= globalTranid
          /\ HasId(u) => retireTranid[retired[u][j]] < drawn[u]
      BY <1>0, <1>n, Zenon DEF OrderInv
    <3>3. /\ globalTranid \in Nat /\ globalTranid' \in Nat /\ globalTranid <= globalTranid'
          /\ KeepsId(u)
      BY <1>k, Zenon
    <3> QED
      BY <3>1, <3>2, <3>3 DEF KeepsId
  <2> QED
    BY <2>2, <2>4, <2>5, Zenon DEF OrderInv, RetiredInOrder
<1>18. ASSUME NEW t \in Threads, RetireAppend(t) PROVE OrderInv'
  <2> DEFINE v == victim[t]
  <2>1. /\ v \in Nodes /\ HasId(t) /\ ~HasId(t)' /\ status[v] = "unlinked"
        /\ retireTranid' = [retireTranid EXCEPT ![v] = drawn[t]]
    BY <1>0, <1>18 DEF RetireAppend, ThreadInv, PlaceInv, TypeOK, HasId
  <2>2. /\ retired[t] \in Seq(Nodes) /\ Len(retired[t]) \in Nat
        /\ \A u \in Threads : u # t => retired'[u] = retired[u]
        /\ Len(retired'[t]) = Len(retired[t]) + 1
        /\ retired'[t][Len(retired[t]) + 1] = v
        /\ \A i \in 1 .. Len(retired[t]) : retired'[t][i] = retired[t][i]
    <3>1. /\ retired \in [Threads -> Seq(Nodes)] /\ retired[t] \in Seq(Nodes)
          /\ retired' = [retired EXCEPT ![t] = Append(retired[t], v)]
      BY <1>0, <1>18, Zenon DEF RetireAppend, TypeOK
    <3>2. retired'[t] = Append(retired[t], v) /\ v \in Nodes
      BY <2>1, <3>1, Zenon
    <3>3. \A u \in Threads : u # t => retired'[u] = retired[u]
      BY <3>1, Zenon
    <3> HIDE DEF v
    <3> QED
      BY <3>1, <3>2, <3>3
  <2>3. \A u \in Threads : \A i \in 1 .. Len(retired[u]) :
          retired[u][i] # v /\ retireTranid'[retired[u][i]] = retireTranid[retired[u][i]]
    BY <1>0, <1>n, <2>1 DEF PlaceInv, TypeOK
  <2>4. retireTranid'[v] = drawn[t]
    BY <1>0, <2>1, Zenon DEF TypeOK
  <2>5. ASSUME NEW u \in Threads
        PROVE  \A i, j \in 1 .. Len(retired'[u]) :
                 i < j => retireTranid'[retired'[u][i]] < retireTranid'[retired'[u][j]]
    <3>1. \A i, j \in 1 .. Len(retired[u]) :
            i < j => retireTranid'[retired[u][i]] < retireTranid'[retired[u][j]]
      BY <1>0, <2>3, Zenon DEF OrderInv, RetiredInOrder
    <3>2. CASE u # t
      BY <2>2, <3>1, <3>2, Zenon
    <3>3. CASE u = t
      <4>1. \A i \in 1 .. Len(retired[t]) : retireTranid'[retired[t][i]] < drawn[t]
        BY <1>0, <2>1, <2>3, Zenon DEF OrderInv
      <4>2. ASSUME NEW i \in 1 .. Len(retired'[t]), NEW j \in 1 .. Len(retired'[t]), i < j
            PROVE  retireTranid'[retired'[t][i]] < retireTranid'[retired'[t][j]]
        <5>1. i \in 1 .. Len(retired[t]) /\ retired'[t][i] = retired[t][i]
          BY <2>2, <4>2
        <5>2. CASE j \in 1 .. Len(retired[t])
          BY <2>2, <3>1, <3>3, <4>2, <5>1, <5>2, Zenon
        <5>3. CASE j = Len(retired[t]) + 1
          BY <2>2, <2>4, <4>1, <5>1, <5>3, Zenon
        <5> QED
          BY <2>2, <5>2, <5>3
      <4> QED
        BY <3>3, <4>2, Zenon
    <3> QED
      BY <3>2, <3>3, Zenon
  <2>6. ASSUME NEW u \in Threads, NEW i \in 1 .. Len(retired'[u])
        PROVE  /\ retireTranid'[retired'[u][i]] <= globalTranid'
               /\ HasId(u)' => retireTranid'[retired'[u][i]] < drawn'[u]
    <3>1. \A j \in 1 .. Len(retired[u]) :
            /\ retireTranid'[retired[u][j]] \in Nat
            /\ retireTranid'[retired[u][j]] <= globalTranid
            /\ HasId(u) => retireTranid'[retired[u][j]] < drawn[u]
      BY <1>0, <1>n, <2>3, Zenon DEF OrderInv
    <3>2. CASE u # t
      <4>1. i \in 1 .. Len(retired[u]) /\ retired'[u][i] = retired[u][i]
        BY <2>2, <3>2, Zenon
      <4>2. /\ retireTranid'[retired'[u][i]] \in Nat
            /\ retireTranid'[retired'[u][i]] <= globalTranid
            /\ HasId(u) => retireTranid'[retired'[u][i]] < drawn[u]
        BY <3>1, <4>1, Zenon
      <4>3. /\ globalTranid \in Nat /\ globalTranid' \in Nat /\ globalTranid <= globalTranid'
            /\ KeepsId(u)
        BY <1>k, Zenon
      <4> QED
        BY <4>2, <4>3 DEF KeepsId
    <3>3. CASE u = t
      <4>0. \/ i \in 1 .. Len(retired[t]) /\ retired'[t][i] = retired[t][i]
            \/ retired'[t][i] = v
        BY <2>2, <3>3
      <4>1. retireTranid'[retired'[u][i]] <= globalTranid
        BY <1>n, <2>4, <3>1, <3>3, <4>0, Zenon
      <4>2. retireTranid'[retired'[u][i]] \in Nat
        BY <1>n, <2>4, <3>1, <3>3, <4>0, Zenon
      <4> QED
        BY <1>k, <2>1, <3>3, <4>1, <4>2
    <3> QED
      BY <3>2, <3>3, Zenon
  <2> QED
    BY <2>5, <2>6, Zenon DEF OrderInv, RetiredInOrder
<1> QED
  BY <1>1, <1>2, <1>3, <1>4, <1>5, <1>6, <1>7, <1>8, <1>9, <1>10, <1>11, <1>12,
     <1>13, <1>14, <1>15, <1>16, <1>17, <1>18, ZenonT(20) DEF Next, Step
------------------------------------------------------------------------------

(* What makes a retire id safe for a reader survives every step, as long   *)
(* as the reader holds something.                                          *)
LEMMA HeldSafeStep ==
  ASSUME IInv, [Next]_vars, NEW r \in Threads, NEW k \in Ids, hold'[r] # {}, HeldSafe(r, k)
  PROVE  HeldSafe(r, k)'
<1>0. TypeOK /\ \A u \in Threads : ThreadInv(u)
  BY Zenon DEF IInv
<1>t. /\ tranid \in [Threads -> Ids] /\ hold \in [Threads -> SUBSET Nodes]
      /\ pc \in [Threads -> PcValues] /\ ret \in [Threads -> PcValues]
      /\ it \in [Threads -> 0 .. NThreads] /\ minvalue \in [Threads -> Ids]
  BY <1>0, Zenon DEF TypeOK
<1>n. /\ k \in Nat /\ minActive \in Nat /\ r \in Nat /\ r < NThreads /\ NThreads \in Nat
      /\ \A u \in Threads : /\ tranid[u] \in Nat /\ minvalue[u] \in Nat /\ it[u] \in Nat
                            /\ u \in Nat /\ u < NThreads
  BY <1>0, NumFacts, ConstantsAssumption DEF Ids
<1>i. \A u \in Threads :
        /\ tranid[u] = INVALID_TRANID \/ shouldEnd[u] => hold[u] = {}
        /\ pc[u] = "start" => tranid[u] = INVALID_TRANID
        /\ pc[u] = "publish" => hold[u] = {} /\ ret[u] \in {"run", "reclaim"}
        /\ pc[u] = "scan" => ret[u] \in {"run", "reclaim", "take"}
        /\ pc[u] = "scan" /\ u < it[u] => minvalue[u] <= tranid[u]
        /\ pc[u] # "scan" => it[u] = 0
  BY <1>0, Zenon DEF ThreadInv
<1> DEFINE taken(u) == pc'[u] = "take" => minvalue'[u] <= k
           scanned(u) == pc'[u] = "scan" =>
                           k >= tranid'[u] \/ r >= it'[u] \/ minvalue'[u] <= k
           Goal == /\ tranid'[r] < k /\ minActive' <= k
                   /\ \A u \in Threads : taken(u) /\ scanned(u)
<1>s. SUFFICES Goal
  BY Zenon DEF HeldSafe
<1>h. /\ tranid[r] < k /\ minActive <= k
      /\ \A u \in Threads : pc[u] = "take" => minvalue[u] <= k
      /\ \A u \in Threads : pc[u] = "scan" => k >= tranid[u] \/ r >= it[u] \/ minvalue[u] <= k
  BY Zenon DEF HeldSafe
<1>u. ASSUME UNCHANGED <<tranid, minActive, pc, it, minvalue>> PROVE Goal
  BY <1>h, <1>u, Zenon
<1>a. ASSUME NEW t \in Threads,
             \A u \in Threads : u # t => /\ tranid'[u] = tranid[u] /\ pc'[u] = pc[u]
                                         /\ it'[u] = it[u] /\ minvalue'[u] = minvalue[u],
             hold'[t] = {} \/ tranid'[t] = tranid[t],
             minActive' <= k, taken(t), scanned(t)
      PROVE  Goal
  <2>1. tranid'[r] < k
    BY <1>h, <1>a, Zenon
  <2>2. ASSUME NEW u \in Threads PROVE taken(u) /\ scanned(u)
    <3>1. CASE u = t
      BY <1>a, <3>1, Zenon
    <3>2. CASE u # t
      BY <1>h, <1>a, <3>2, Zenon
    <3> QED
      BY <3>1, <3>2, Zenon
  <2> QED
    BY <1>a, <2>1, <2>2, Zenon
<1>b. ASSUME NEW t \in Threads,
             \A u \in Threads : u # t => /\ tranid'[u] = tranid[u] /\ pc'[u] = pc[u]
                                         /\ it'[u] = it[u] /\ minvalue'[u] = minvalue[u],
             hold'[t] = {} \/ tranid'[t] = tranid[t],
             minActive' = minActive, pc'[t] # "take", pc'[t] = "scan" => it'[t] = 0
      PROVE  Goal
  BY <1>a, <1>b, <1>h, <1>n
<1> HIDE DEF Goal
<1> USE DEF table, desc, client, locals, Goto
<1>1. CASE UNCHANGED vars
  BY <1>u, <1>1, Zenon DEF vars
<1>2. ASSUME NEW n \in Nodes, Link(n) PROVE Goal
  BY <1>u, <1>2, Zenon DEF Link
<1>3. ASSUME NEW t \in Threads, NEW n \in Nodes, Access(t, n) PROVE Goal
  BY <1>u, <1>3, Zenon DEF Access
<1>4. ASSUME NEW t \in Threads, NEW n \in Nodes, Unlink(t, n) PROVE Goal
  BY <1>u, <1>4, Zenon DEF Unlink
<1>5. ASSUME NEW t \in Threads, StartTranLoad(t) PROVE Goal
  BY <1>b, <1>t, <1>i, <1>5, Zenon DEF StartTranLoad
<1>6. ASSUME NEW t \in Threads, StartTranPublish(t) PROVE Goal
  BY <1>b, <1>t, <1>i, <1>6, Zenon DEF StartTranPublish
<1>7. ASSUME NEW t \in Threads, EndTran(t) PROVE Goal
  BY <1>b, <1>t, <1>i, <1>7, Zenon DEF EndTran
<1>8. ASSUME NEW t \in Threads, Promote(t) PROVE Goal
  BY <1>b, <1>t, <1>i, <1>8, Zenon DEF Promote, IncrementId
<1>9. ASSUME NEW t \in Threads, PublishIncremented(t) PROVE Goal
  BY <1>b, <1>t, <1>i, <1>9, Zenon DEF PublishIncremented, RefreshIfDue
<1>10. ASSUME NEW t \in Threads, ScanOne(t) PROVE Goal
  <2>1. /\ \A u \in Threads : u # t => /\ tranid'[u] = tranid[u] /\ pc'[u] = pc[u]
                                      /\ it'[u] = it[u] /\ minvalue'[u] = minvalue[u]
        /\ tranid' = tranid /\ minActive' = minActive
        /\ pc[t] = "scan" /\ pc'[t] = "scan"
        /\ it[t] < NThreads /\ it'[t] = it[t] + 1
        /\ minvalue'[t] = IF minvalue[t] > tranid[it[t]] THEN tranid[it[t]] ELSE minvalue[t]
    BY <1>t, <1>10, Zenon DEF ScanOne
  <2>2. it[t] \in Threads
    BY <1>0, <2>1, NumFacts, Zenon
  <2>3. /\ minvalue'[t] \in Nat /\ minvalue'[t] <= minvalue[t]
        /\ minvalue'[t] <= tranid[it[t]]
    BY <1>n, <2>1, <2>2
  <2>4. k >= tranid[t] \/ r >= it[t] \/ minvalue[t] <= k
    BY <1>h, <2>1, Zenon
  <2>5. scanned(t)
    <3>1. CASE r = it[t]
      BY <1>h, <1>n, <2>3, <3>1
    <3>2. CASE r > it[t]
      BY <1>n, <2>1, <3>2
    <3>3. CASE k >= tranid[t] \/ minvalue[t] <= k
      BY <1>n, <2>1, <2>3, <3>3
    <3> QED
      BY <1>n, <2>4, <3>1, <3>2, <3>3
  <2> QED
    BY <1>a, <1>h, <2>1, <2>5, Zenon
<1>11. ASSUME NEW t \in Threads, ScanStore(t) PROVE Goal
  <2>1. /\ \A u \in Threads : u # t => /\ tranid'[u] = tranid[u] /\ pc'[u] = pc[u]
                                      /\ it'[u] = it[u] /\ minvalue'[u] = minvalue[u]
        /\ tranid' = tranid /\ minActive' = minvalue[t]
        /\ pc[t] = "scan" /\ it[t] = NThreads
        /\ pc'[t] = ret[t]
        /\ ret[t] = "take" => minvalue'[t] = minvalue[t]
    BY <1>t, <1>11, Zenon DEF ScanStore
  <2>2. minvalue[t] <= tranid[t]
    BY <1>i, <1>n, <2>1, Zenon
  <2>7. k >= tranid[t] \/ r >= it[t] \/ minvalue[t] <= k
    BY <1>h, <2>1, Zenon
  <2>8. r < NThreads /\ r \in Nat /\ NThreads \in Nat
    BY <1>n, Zenon
  <2>3. k >= tranid[t] \/ minvalue[t] <= k
    BY <2>1, <2>7, <2>8
  <2>4. minvalue[t] <= k
    BY <1>n, <2>2, <2>3
  <2>5. pc'[t] # "scan"
    BY <1>i, <2>1, Zenon
  <2>6. taken(t) /\ scanned(t) /\ minActive' <= k
    BY <2>1, <2>4, <2>5, Zenon
  <2> QED
    BY <1>a, <2>1, <2>6, Zenon
<1>12. ASSUME NEW t \in Threads, RetireOutside(t) PROVE Goal
  BY <1>b, <1>t, <1>i, <1>12, Zenon DEF RetireOutside, IncrementId
<1>13. ASSUME NEW t \in Threads, RetirePromoted(t) PROVE Goal
  BY <1>b, <1>t, <1>i, <1>13, Zenon DEF RetirePromoted
<1>14. ASSUME NEW t \in Threads, RetireInside(t) PROVE Goal
  BY <1>b, <1>t, <1>i, <1>14, Zenon DEF RetireInside, RefreshIfDue
<1>15. ASSUME NEW t \in Threads, ClaimReclaims(t) PROVE Goal
  BY <1>b, <1>t, <1>i, <1>15, Zenon DEF ClaimReclaims
<1>16. ASSUME NEW t \in Threads, ReclaimRead(t) PROVE Goal
  <2>1. /\ \A u \in Threads : u # t => /\ tranid'[u] = tranid[u] /\ pc'[u] = pc[u]
                                      /\ it'[u] = it[u] /\ minvalue'[u] = minvalue[u]
        /\ tranid' = tranid /\ minActive' = minActive
        /\ it'[t] = 0
        /\ pc'[t] = "take" => minvalue'[t] = minActive
    BY <1>t, <1>i, <1>16, Zenon DEF ReclaimRead, AfterReclaim
  <2>2. taken(t) /\ scanned(t) /\ minActive' <= k
    BY <1>h, <1>n, <2>1
  <2> QED
    BY <1>a, <2>1, <2>2, Zenon
<1>17. ASSUME NEW t \in Threads, ReclaimTake(t) PROVE Goal
  BY <1>b, <1>t, <1>i, <1>17, Zenon DEF ReclaimTake, AfterReclaim
<1>18. ASSUME NEW t \in Threads, RetireAppend(t) PROVE Goal
  BY <1>b, <1>t, <1>i, <1>18, Zenon DEF RetireAppend
<1> QED
  BY <1>1, <1>2, <1>3, <1>4, <1>5, <1>6, <1>7, <1>8, <1>9, <1>10, <1>11, <1>12,
     <1>13, <1>14, <1>15, <1>16, <1>17, <1>18, ZenonT(20) DEF Next, Step

(* How a step changes the state of a node and what a reader holds: a node  *)
(* becomes retired only as its thread's tagged victim, becomes free only   *)
(* below the minimum a reclaim pass took, and is reached while linked.     *)
LEMMA ClientStep ==
  ASSUME IInv, [Next]_vars, NEW n \in Nodes
  PROVE  /\ status'[n] = "retired" /\ status[n] = "retired" => retireTranid'[n] = retireTranid[n]
         /\ status'[n] = "retired" /\ status[n] # "retired" =>
              \E t \in Threads : victim[t] = n /\ HasId(t) /\ drawn[t] = retireTranid'[n]
         /\ status'[n] = "free" =>
              \/ status[n] = "free"
              \/ /\ status[n] = "retired"
                 /\ \E t \in Threads : pc[t] = "take" /\ retireTranid[n] < minvalue[t]
         /\ \A r \in Threads : n \in hold'[r] => n \in hold[r] \/ (status[n] = "linked" /\ status'[n] = "linked")
<1>0. TypeOK /\ PlaceInv /\ \A t \in Threads : ThreadInv(t)
  BY Zenon DEF IInv
<1> DEFINE kept == status'[n] = "retired" /\ status[n] = "retired" => retireTranid'[n] = retireTranid[n]
           tagged == status'[n] = "retired" /\ status[n] # "retired" =>
                       \E t \in Threads : victim[t] = n /\ HasId(t) /\ drawn[t] = retireTranid'[n]
           freed == status'[n] = "free" =>
                      \/ status[n] = "free"
                      \/ /\ status[n] = "retired"
                         /\ \E t \in Threads : pc[t] = "take" /\ retireTranid[n] < minvalue[t]
           reached == \A r \in Threads :
                        n \in hold'[r] =>
                          n \in hold[r] \/ (status[n] = "linked" /\ status'[n] = "linked")
           Goal == kept /\ tagged /\ freed /\ reached
<1> SUFFICES Goal
  BY Zenon
<1>a. ASSUME UNCHANGED <<status, retireTranid>>, \A r \in Threads : hold'[r] \subseteq hold[r]
      PROVE  Goal
  BY <1>a, Zenon
<1> USE DEF desc, client, locals
<1>1. CASE UNCHANGED vars
  BY <1>a, <1>1, Zenon DEF vars
<1>2. ASSUME NEW m \in Nodes, Link(m) PROVE Goal
  BY <1>0, <1>2, Zenon DEF Link, TypeOK
<1>3. ASSUME NEW t \in Threads, NEW m \in Nodes, Access(t, m) PROVE Goal
  BY <1>0, <1>3, Zenon DEF Access, TypeOK
<1>4. ASSUME NEW t \in Threads, NEW m \in Nodes, Unlink(t, m) PROVE Goal
  BY <1>0, <1>4, Zenon DEF Unlink, TypeOK
<1>5. ASSUME NEW t \in Threads, StartTranLoad(t) PROVE Goal
  BY <1>0, <1>a, <1>5, Zenon DEF StartTranLoad, TypeOK
<1>6. ASSUME NEW t \in Threads, StartTranPublish(t) PROVE Goal
  BY <1>0, <1>a, <1>6, Zenon DEF StartTranPublish, TypeOK
<1>7. ASSUME NEW t \in Threads, EndTran(t) PROVE Goal
  BY <1>0, <1>a, <1>7, Zenon DEF EndTran, TypeOK
<1>8. ASSUME NEW t \in Threads, Promote(t) PROVE Goal
  BY <1>0, <1>a, <1>8, Zenon DEF Promote, IncrementId, CanDraw, TypeOK
<1>9. ASSUME NEW t \in Threads, PublishIncremented(t) PROVE Goal
  BY <1>0, <1>a, <1>9, Zenon DEF PublishIncremented, RefreshIfDue, TypeOK
<1>10. ASSUME NEW t \in Threads, ScanOne(t) PROVE Goal
  BY <1>0, <1>a, <1>10, Zenon DEF ScanOne, TypeOK
<1>11. ASSUME NEW t \in Threads, ScanStore(t) PROVE Goal
  BY <1>0, <1>a, <1>11, Zenon DEF ScanStore, TypeOK
<1>12. ASSUME NEW t \in Threads, RetireOutside(t) PROVE Goal
  BY <1>0, <1>a, <1>12, Zenon DEF RetireOutside, IncrementId, CanDraw, TypeOK
<1>13. ASSUME NEW t \in Threads, RetirePromoted(t) PROVE Goal
  BY <1>0, <1>a, <1>13, Zenon DEF RetirePromoted, TypeOK
<1>14. ASSUME NEW t \in Threads, RetireInside(t) PROVE Goal
  BY <1>0, <1>a, <1>14, Zenon DEF RetireInside, RefreshIfDue, CanDraw, TypeOK
<1>15. ASSUME NEW t \in Threads, ClaimReclaims(t) PROVE Goal
  BY <1>0, <1>a, <1>15, Zenon DEF ClaimReclaims, TypeOK
<1>16. ASSUME NEW t \in Threads, ReclaimRead(t) PROVE Goal
  BY <1>0, <1>a, <1>16, Zenon DEF ReclaimRead, TypeOK
<1>17. ASSUME NEW t \in Threads, ReclaimTake(t) PROVE Goal
  <2>1. PICK k \in 0 .. Len(retired[t]) :
          /\ IF minvalue[t] <= lastReclaim[t] THEN k = 0 ELSE IsReclaimRun(t, minvalue[t], k)
          /\ status' = [m \in Nodes |->
                          IF \E i \in 1 .. k : retired[t][i] = m THEN "free" ELSE status[m]]
    BY <1>17, Zenon DEF ReclaimTake
  <2>2. pc[t] = "take" /\ retireTranid' = retireTranid /\ hold' = hold
    BY <1>17, Zenon DEF ReclaimTake
  <2>3. CASE \E i \in 1 .. k : retired[t][i] = n
    <3>1. PICK i \in 1 .. k : retired[t][i] = n
      BY <2>3, Zenon
    <3>2. i \in 1 .. Len(retired[t]) /\ ~(minvalue[t] <= lastReclaim[t])
      BY <1>0, <2>1, <3>1 DEF TypeOK
    <3>3. retireTranid[n] < minvalue[t] /\ status[n] = "retired"
      BY <1>0, <2>1, <3>1, <3>2, Zenon DEF IsReclaimRun, PlaceInv
    <3> QED
      BY <2>1, <2>2, <2>3, <3>3, Zenon
  <2>4. CASE ~\E i \in 1 .. k : retired[t][i] = n
    BY <2>1, <2>2, <2>4, Zenon
  <2> QED
    BY <2>3, <2>4, Zenon
<1>18. ASSUME NEW t \in Threads, RetireAppend(t) PROVE Goal
  <2>1. /\ victim[t] \in Nodes /\ HasId(t) /\ status[victim[t]] = "unlinked"
        /\ retireTranid' = [retireTranid EXCEPT ![victim[t]] = drawn[t]]
        /\ status' = [status EXCEPT ![victim[t]] = "retired"]
        /\ hold' = hold
    BY <1>0, <1>18, Zenon DEF RetireAppend, ThreadInv, PlaceInv, TypeOK, HasId
  <2>2. CASE n = victim[t]
    BY <1>0, <2>1, <2>2, Zenon DEF TypeOK
  <2>3. CASE n # victim[t]
    BY <1>0, <2>1, <2>3, Zenon DEF TypeOK
  <2> QED
    BY <2>2, <2>3, Zenon
<1> QED
  BY <1>1, <1>2, <1>3, <1>4, <1>5, <1>6, <1>7, <1>8, <1>9, <1>10, <1>11, <1>12,
     <1>13, <1>14, <1>15, <1>16, <1>17, <1>18, ZenonT(20) DEF Next, Step

(* The reclamation argument: a node some reader holds and some thread has  *)
(* tagged carries an id that every minimum in use respects.                *)
LEMMA HeldStep == IInv /\ [Next]_vars => HeldInv'
<1> SUFFICES ASSUME IInv, [Next]_vars,
                    NEW r \in Threads, NEW n \in hold'[r], NEW k \in Ids, Tagged(n, k)'
             PROVE  HeldSafe(r, k)'
  BY Zenon DEF HeldInv
<1>0. /\ TypeOK /\ PlaceInv /\ HeldInv /\ minActive <= globalTranid
      /\ \A t \in Threads : ThreadInv(t)
  BY Zenon DEF IInv
<1>1. n \in Nodes /\ TypeOK' /\ PlaceInv'
  BY TypeStep, PlaceStep, Zenon DEF TypeOK
<1>2. n \in hold[r]
  <2>1. status'[n] # "linked"
    BY <1>1, Zenon DEF Tagged, HasId, PlaceInv
  <2> QED
    BY <1>1, <2>1, ClientStep, Zenon
<1>3. Tagged(n, k) \/ k = globalTranid + 1
  <2>1. CASE status'[n] = "retired" /\ retireTranid'[n] = k
    BY <1>1, <2>1, ClientStep DEF Tagged
  <2>2. ASSUME NEW t \in Threads, victim'[t] = n, HasId(t)', drawn'[t] = k
        PROVE  Tagged(n, k) \/ k = globalTranid + 1
    BY <2>2, HasIdStep, Zenon DEF KeepsId, Tagged
  <2> QED
    BY <2>1, <2>2, Zenon DEF Tagged
<1>4. CASE Tagged(n, k)
  BY <1>0, <1>2, <1>4, HeldSafeStep, Zenon DEF HeldInv
<1>5. CASE k = globalTranid + 1
  <2>1. tranid[r] <= globalTranid
    BY <1>0, <1>2, Zenon DEF ThreadInv
  <2>2. \A t \in Threads : /\ pc[t] = "take" => minvalue[t] <= globalTranid
                           /\ pc[t] = "scan" => tranid[t] <= globalTranid
    BY <1>0, Zenon DEF ThreadInv
  <2>3. /\ globalTranid \in Nat /\ minActive \in Nat /\ tranid[r] \in Nat
        /\ \A t \in Threads : minvalue[t] \in Nat /\ tranid[t] \in Nat
    BY <1>0, NumFacts, Zenon
  <2>4. HeldSafe(r, k)
    BY <1>0, <1>5, <2>1, <2>2, <2>3 DEF HeldSafe
  <2> QED
    BY <1>2, <2>4, HeldSafeStep, Zenon
<1> QED
  BY <1>3, <1>4, <1>5, Zenon

(* The step of NoReclaimWhileHeld: reclaim_retired_list frees only ids     *)
(* below the minimum it took, and HeldInv puts that minimum at or below    *)
(* the id of every held node.                                              *)
LEMMA NoReclaimStep == IInv /\ [Next]_vars => NoReclaimWhileHeld'
<1> SUFFICES ASSUME IInv, [Next]_vars, NEW r \in Threads, NEW n \in hold'[r],
                    status'[n] = "free"
             PROVE  FALSE
  BY Zenon DEF NoReclaimWhileHeld
<1>0. TypeOK /\ HeldInv /\ NoReclaimWhileHeld
  BY Zenon DEF IInv
<1>1. n \in Nodes
  BY TypeStep, Zenon DEF TypeOK
<1>2. n \in hold[r] /\ status[n] = "retired"
  BY <1>0, <1>1, ClientStep DEF NoReclaimWhileHeld
<1>3. PICK t \in Threads : pc[t] = "take" /\ retireTranid[n] < minvalue[t]
  BY <1>1, <1>2, ClientStep, Zenon
<1>4. retireTranid[n] \in Ids /\ Tagged(n, retireTranid[n])
  BY <1>0, <1>1, <1>2, Zenon DEF Tagged, TypeOK
<1>5. minvalue[t] <= retireTranid[n]
  BY <1>0, <1>2, <1>3, <1>4, Zenon DEF HeldInv, HeldSafe
<1> QED
  BY <1>0, <1>1, <1>3, <1>5, NumFacts

(* IInv is an inductive invariant of the specification.                    *)
THEOREM Invariance == Spec => []IInv
<1>1. IInv /\ [Next]_vars => IInv'
  BY TypeStep, MinStep, ThreadStep, PlaceStep, OrderStep, HeldStep, NoReclaimStep, Zenon DEF IInv
<1> QED
  BY InitIInv, <1>1, PTL DEF Spec

(* Every variable keeps its type; the global id never reaches the sentinel *)
(* within the ids the model draws.                                         *)
THEOREM TypeCorrect == Spec => []TypeOK
<1>1. IInv => TypeOK
  BY Zenon DEF IInv
<1> QED
  BY Invariance, <1>1, PTL

(* Safe reclamation: reclaim_retired_list never frees a node a thread      *)
(* still holds under its transaction, for any number of threads and nodes  *)
(* and any refresh interval.                                               *)
THEOREM SafeReclamation == Spec => []NoReclaimWhileHeld
<1>1. IInv => NoReclaimWhileHeld
  BY Zenon DEF IInv
<1> QED
  BY Invariance, <1>1, PTL

(* The cached minimum is always the id of some transaction or zero, never  *)
(* the sentinel: compute_min_active_tranid runs after its caller has       *)
(* published an id.                                                        *)
THEOREM CacheIsBounded == Spec => []SentinelNeverCached
<1>1. IInv => SentinelNeverCached
  BY NumFacts DEF IInv, SentinelNeverCached
<1> QED
  BY Invariance, <1>1, PTL

(* Retired lists are ordered by retire id, so the reclaimable nodes of a   *)
(* descriptor are a prefix of its list.                                    *)
THEOREM ListsAreOrdered == Spec => []RetiredInOrder
<1>1. IInv => RetiredInOrder
  BY Zenon DEF IInv, OrderInv
<1> QED
  BY Invariance, <1>1, PTL
==============================================================================
