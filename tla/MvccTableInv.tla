---------------------------- MODULE MvccTableInv ----------------------------
(***************************************************************************)
(* The inductive invariant of MvccTable, and the steps that keep the first *)
(* half of it: types, what each thread has done so far and what it has put *)
(* in its slot, the mutex, and who owns which id.                          *)
(*                                                                         *)
(* A step is one of a thread, of the vacuum master or none (Steps).  The   *)
(* frame lemmas say what a thread's step leaves alone: everything of the   *)
(* other threads (ThreadFrame), and each variable of the table but for the *)
(* steps named (TableFrames).  The conjuncts of the invariant then need a  *)
(* case only for the steps that can disturb them.                          *)
(***************************************************************************)
EXTENDS MvccTable, WellFoundedInduction, TLAPS

Building == {"mark", "load_lowest", "store_lowest", "load_position", "load_version",
             "copy_from", "recheck"}
Locked == {"copy_to", "slot"}
Completing == {"load_global", "compute", "check_version", "advance", "reset_info"}
Labels == Building \cup Locked \cup Completing \cup {"run", "read_threshold", "eot"}

\* Ids, and the one past the last.
Lows == MVCCID_FIRST .. (MaxId + 1)
Slots == Lows \cup {MVCCID_NULL, MVCCID_ALL_VISIBLE}
Status == [version : Nat, done : SUBSET Ids, start : Nat \ {0}]
Snapshots == [valid : BOOLEAN, lowest : Int, highest : Int, done : SUBSET Ids]

\* The types of the variables.
TypeInv ==
  /\ mvcc_next_id \in Lows
  /\ current \in Status /\ history \in [Indices -> Status] /\ position \in Indices
  /\ lowest_active \in Lows /\ lowest_visible \in [Trans -> Slots]
  /\ mutex \subseteq Trans
  /\ oldest_visible \in Lows \cup {MVCCID_NULL}
  /\ pc \in [Trans -> Labels] /\ op \in [Trans -> {"none", "commit", "abort", "sub"}]
  /\ id \in [Trans -> Ids \cup {MVCCID_NULL}] /\ sub_ids \in [Trans -> Seq(Ids)]
  /\ snapshot \in [Trans -> Snapshots]
  /\ fresh \in [Trans -> BOOLEAN]
  /\ index \in [Trans -> Indices] /\ version \in [Trans -> Nat]
  /\ low \in [Trans -> Lows \cup {MVCCID_NULL}]
  /\ copied \in [Trans -> [done : SUBSET Ids, start : Nat \ {0}]]
  /\ committing \in [Trans -> Ids \cup {MVCCID_NULL}]
  /\ vpc \in {"idle", "scan", "store"} /\ vlow \in Lows \cup {MVCCID_NULL}
  /\ vnext \in 1 .. (NTrans + 1) /\ vwaiting \subseteq Trans

\* Who has the mutex, and what a thread is doing where.
ThreadInv(t) ==
  /\ t \in mutex <=> pc[t] \in Locked
  /\ pc[t] \in Building \cup {"run", "read_threshold"} => op[t] = "none"
  /\ pc[t] \in Locked => op[t] # "none"
  /\ pc[t] \in Completing \cup {"eot"} => op[t] \in {"commit", "abort"}
  /\ op[t] = "sub" => sub_ids[t] # <<>>
  /\ op[t] \in {"commit", "abort"} => (id[t] # MVCCID_NULL \/ pc[t] = "eot")
  /\ pc[t] = "eot" => id[t] = MVCCID_NULL
  /\ pc[t] \in Building \cup {"eot"} => ~snapshot[t].valid

\* The slot of a thread, as its build goes on.
SlotInv(t) ==
  /\ lowest_visible[t] = MVCCID_ALL_VISIBLE => pc[t] \in Building /\ fresh[t]
  /\ pc[t] = "mark" => fresh[t]
  /\ pc[t] \in Building /\ ~fresh[t] => lowest_visible[t] \in Lows
  /\ pc[t] = "load_lowest" /\ fresh[t] => lowest_visible[t] = MVCCID_ALL_VISIBLE
  /\ pc[t] = "store_lowest" => /\ fresh[t] /\ lowest_visible[t] = MVCCID_ALL_VISIBLE
                               /\ low[t] \in Lows /\ low[t] <= lowest_active
  /\ pc[t] \in {"load_position", "load_version", "copy_from", "recheck"} =>
       /\ lowest_visible[t] \in Lows /\ low[t] \in Lows
       /\ lowest_visible[t] <= low[t]
  /\ pc[t] \notin Completing \cup {"eot"} => lowest_visible[t] <= lowest_active
  /\ pc[t] \in Completing \cup {"eot"} /\ op[t] = "abort" => lowest_visible[t] = MVCCID_NULL
  /\ snapshot[t].valid /\ op[t] \in {"none", "sub"} =>
       lowest_visible[t] \in Lows /\ lowest_visible[t] <= snapshot[t].lowest

MutexInv == \A t, u \in mutex : t = u

Members(s) == {s[k] : k \in 1 .. Len(s)}

\* Ids are handed out once, and become inactive only when their owner completes them.
DoneAssigned == current.done \subseteq Assigned
IdsAssigned == \A t \in Trans : id[t] # MVCCID_NULL => id[t] < mvcc_next_id
IdsDiffer == \A t, u \in Trans : id[t] = id[u] /\ id[t] # MVCCID_NULL => t = u
SubsAssigned == \A t \in Trans : \A i \in Members(sub_ids[t]) : i < mvcc_next_id
SubsDiffer == \A t, u \in Trans : id[t] \notin Members(sub_ids[u])
OwnersActive ==
  \A t \in Trans : id[t] # MVCCID_NULL /\ op[t] \in {"none", "sub"} => id[t] \notin current.done

IdInv == DoneAssigned /\ IdsAssigned /\ IdsDiffer /\ SubsAssigned /\ SubsDiffer /\ OwnersActive

\* The completed ids, but for the one that the holder of the mutex is completing.
Settled == {i \in current.done : \A h \in mutex : op[h] # "sub" => i # id[h]}

\* An entry has the id that is being completed only once it is published.
EntryInv ==
  \A k \in Indices :
    /\ history[k].version <= current.version
    /\ history[k].done \subseteq current.done
    /\ (\A h \in mutex : pc[h] = "slot" => index[h] # k) => history[k].done \subseteq Settled

\* A version is drawn for each completion.
VersionInv ==
  /\ \A h \in mutex : version[h] = current.version /\ history[index[h]].version = current.version
  /\ \A t \in Trans : pc[t] \in Completing =>
       version[t] <= current.version /\ \A h \in mutex : version[t] < current.version

Below(n) == \A i \in Ids : i < n => i \in Settled

\* What a thread has computed from its entry is right if the entry is still its own.
LowInv ==
  /\ Below(lowest_active)
  /\ \A t \in Trans :
       pc[t] = "advance" \/ (pc[t] = "check_version" /\ history[index[t]].version = version[t])
         => Below(low[t])
  /\ \A t \in Trans : pc[t] \in {"check_version", "advance"} => low[t] \in Lows

\* The vacuum master has taken v of thread t into account, or will.
Seen(t, v) ==
  \/ vpc = "idle"
  \/ vlow <= v
  \/ vpc = "scan" /\ (t \in vwaiting \/ vnext <= t)

\* What thread t has put in its slot, or is about to put there.
Claims(t, v) == v = lowest_visible[t] \/ (pc[t] = "store_lowest" /\ v = low[t])

\* No slot is below the threshold, nor below one that a scan is computing.
VacuumInv ==
  /\ oldest_visible <= lowest_active
  /\ vpc # "idle" => vlow \in Lows /\ vlow <= lowest_active /\ oldest_visible <= vlow
  /\ vpc # "scan" => vwaiting = {}
  /\ \A t \in Trans : \A v \in Lows : Claims(t, v) => oldest_visible <= v /\ Seen(t, v)

\* A transaction that has completed its id keeps its slot there until LOG_COMMIT.
CommitInv ==
  \A t \in Trans :
    /\ committing[t] # MVCCID_NULL => op[t] = "commit" /\ pc[t] \in Completing \cup {"slot", "eot"}
    /\ committing[t] # MVCCID_NULL /\ pc[t] # "eot" => committing[t] = id[t]
    /\ committing[t] # MVCCID_NULL /\ pc[t] # "slot" => lowest_visible[t] = committing[t]

\* The inductive invariant.
IInv ==
  /\ TypeInv
  /\ \A t \in Trans : ThreadInv(t) /\ SlotInv(t)
  /\ MutexInv /\ IdInv /\ EntryInv /\ VersionInv /\ LowInv /\ VacuumInv /\ CommitInv
-----------------------------------------------------------------------------
\* The bounds, as facts about numbers.
LEMMA Bounds ==
  /\ MaxId \in Nat /\ MaxId >= 4
  /\ NTrans \in Nat /\ HISTORY_MAX_SIZE \in Nat /\ HISTORY_MAX_SIZE >= 2
  /\ UNIT_BIT_COUNT \in Nat /\ UNIT_BIT_COUNT >= 1
  /\ MVCCID_NULL = 0 /\ MVCCID_ALL_VISIBLE = 3 /\ MVCCID_FIRST = 4
  BY MvccTableAssumption DEF MVCCID_NULL, MVCCID_ALL_VISIBLE, MVCCID_FIRST

\* A nonempty set of naturals has a least member.
LEMMA Least ==
  ASSUME NEW S \in SUBSET Nat, S # {}
  PROVE  \E x \in S : \A y \in S : x =< y
<1>1. PICK x \in S : \A y \in S : ~ (<<y, x>> \in OpToRel(<, Nat))
  BY NatLessThanWellFounded, WFMin, Zenon
<1>2. \A y \in S : ~ (y < x)  BY <1>1 DEF OpToRel
<1>. QED  BY <1>2

\* What Min returns.
LEMMA MinFacts ==
  ASSUME NEW S \in SUBSET Nat, S # {}
  PROVE  Min(S) \in S /\ \A y \in S : Min(S) =< y
  BY Least, Zenon DEF Min

\* What Max returns, for a bounded set.
LEMMA MaxFacts ==
  ASSUME NEW b \in Nat, NEW S \in SUBSET (0 .. b), S # {}
  PROVE  Max(S) \in S /\ \A y \in S : y =< Max(S)
<1>. DEFINE M == {b - x : x \in S}
<1>1. M \in SUBSET Nat  OBVIOUS
<1>2. M # {}
  <2>1. PICK x \in S : TRUE  OBVIOUS
  <2>2. b - x \in M  BY <2>1, Zenon
  <2>. QED  BY <2>2, Zenon
<1>3. PICK m \in M : \A y \in M : m =< y  BY <1>1, <1>2, Least, Zenon
<1>4. PICK x \in S : m = b - x  BY <1>3, Zenon
<1>5. ASSUME NEW y \in S PROVE x >= y
  <2>1. m =< b - y  BY <1>3, Zenon
  <2>. QED  BY <2>1, <1>4
<1>6. Max(S) \in S /\ \A y \in S : Max(S) >= y  BY <1>5, Zenon DEF Max
<1>. QED  BY <1>6

\* compute_lowest_active_mvccid: every id below the result is done.
LEMMA LowestFacts ==
  ASSUME NEW done \in SUBSET Ids
  PROVE  /\ LowestActiveOf(done) \in Lows
         /\ \A i \in Ids : i < LowestActiveOf(done) => i \in done
<1>. DEFINE S == {i \in MVCCID_FIRST .. (MaxId + 1) : i \notin done}
<1>1. MaxId + 1 \in S  BY Bounds DEF Ids
<1>2. S \in SUBSET Nat  BY Bounds
<1>3. Min(S) \in S /\ \A y \in S : Min(S) =< y  BY <1>1, <1>2, MinFacts, Zenon
<1>4. LowestActiveOf(done) = Min(S)  BY Zenon DEF LowestActiveOf
<1>5. ASSUME NEW i \in Ids, i < Min(S) PROVE i \in done  BY <1>3, <1>5, Bounds DEF Ids
<1>. QED  BY <1>3, <1>4, <1>5, Zenon DEF Lows

\* compute_highest_completed_mvccid: no completed id is above the result.
LEMMA HighestFacts ==
  ASSUME NEW s, NEW done \in SUBSET Ids, NEW start \in Nat \ {0}, s.done = done, s.start = start
  PROVE  HighestCompletedOf(s) \in Nat /\ \A i \in done : i <= HighestCompletedOf(s)
<1>. DEFINE S == {i \in done : i >= start} \cup {start - 1}
            b == MaxId + start
<1>1. start - 1 \in S  OBVIOUS
<1>2. S \in SUBSET (0 .. b) /\ b \in Nat
  <2>1. b \in Nat  BY Bounds
  <2>2. ASSUME NEW i \in Ids PROVE i \in 0 .. b  BY Bounds DEF Ids
  <2>3. start - 1 \in 0 .. b  BY Bounds
  <2>. QED  BY <2>1, <2>2, <2>3, Zenon
<1>3. Max(S) \in S /\ \A y \in S : y =< Max(S)  BY <1>1, <1>2, MaxFacts, Zenon
<1>4. HighestCompletedOf(s) = Max(S)  BY Zenon DEF HighestCompletedOf
<1>. HIDE DEF S, b
<1>5. PICK m \in 0 .. b : m = Max(S)  BY <1>2, <1>3, Zenon
<1>6. m \in Nat  BY <1>2, <1>5
<1>7. ASSUME NEW i \in done PROVE i <= m
  <2>1. i \in Int  BY Bounds DEF Ids
  <2>2. CASE i >= start  BY <2>2, <1>3, <1>5, Zenon DEF S
  <2>3. CASE i < start
    <3>1. start - 1 <= m  BY <1>1, <1>3, <1>5, Zenon
    <3>. QED  BY <3>1, <2>1, <2>3, <1>6
  <2>. QED  BY <2>1, <2>2, <2>3
<1>. QED  BY <1>4, <1>5, <1>6, <1>7, Zenon

\* The bit area has a unit that is not full.
LEMMA UnitFacts ==
  ASSUME NEW done \in SUBSET Ids, NEW start \in Nat \ {0}
  PROVE  FullUnits(done, start) \in Nat
<1>. DEFINE S == {k \in 0 .. MaxId :
                  ~ \A i \in 0 .. (UNIT_BIT_COUNT - 1) : start + k * UNIT_BIT_COUNT + i \in done}
            n == start + MaxId * UNIT_BIT_COUNT + 0
<1>1. MaxId * UNIT_BIT_COUNT >= MaxId /\ MaxId * UNIT_BIT_COUNT \in Int  BY Bounds
<1>2. n > MaxId /\ n \in Int  BY <1>1, Bounds
<1>3. n \notin Ids
  <2>. HIDE DEF n
  <2>. QED  BY <1>2, Bounds DEF Ids
<1>4. 0 \in 0 .. (UNIT_BIT_COUNT - 1) /\ MaxId \in 0 .. MaxId  BY Bounds
<1>5. MaxId \in S  BY <1>3, <1>4, Zenon
<1>6. S \in SUBSET Nat  OBVIOUS
<1>7. Min(S) \in S  BY <1>5, <1>6, MinFacts, Zenon
<1>. QED  BY <1>6, <1>7, Zenon DEF FullUnits

\* set_inactive_mvccid adds the id.
LEMMA InactiveFacts ==
  ASSUME NEW s \in Status, NEW i \in Ids
  PROVE  /\ SetInactive(s, i) \in Status
         /\ SetInactive(s, i).version = s.version
         /\ SetInactive(s, i).done = s.done \cup {i}
<1>. DEFINE d == s.done \cup {i}
            r(n) == [version |-> s.version, done |-> d, start |-> n]
<1>1. d \in SUBSET Ids /\ s.start \in Nat \ {0} /\ s.version \in Nat  BY DEF Status
<1>2. PICK k \in Nat : k = FullUnits(d, s.start)  BY <1>1, UnitFacts, Zenon
<1>3. s.start + k * UNIT_BIT_COUNT \in Nat \ {0}
  <2>1. k * UNIT_BIT_COUNT \in Nat  BY Bounds
  <2>. QED  BY <2>1, <1>1
<1>4. PICK n \in Nat \ {0} : SetInactive(s, i) = r(n)
  <2>1. CASE i >= s.start /\ Max(d) + 1 - s.start > UNIT_BIT_COUNT
    <3>1. SetInactive(s, i) = r(s.start + k * UNIT_BIT_COUNT)
      BY <2>1, <1>2, Zenon
      DEF SetInactive
    <3>. QED  BY <3>1, <1>3, Zenon
  <2>2. CASE ~(i >= s.start /\ Max(d) + 1 - s.start > UNIT_BIT_COUNT)
    <3>1. SetInactive(s, i) = r(s.start)  BY <2>2, Zenon DEF SetInactive
    <3>. QED  BY <3>1, <1>1, Zenon
  <2>. QED  BY <2>1, <2>2, Zenon
<1>. QED  BY <1>1, <1>4 DEF Status
-----------------------------------------------------------------------------
\* The steps, by who takes them.
ThreadStep(t) ==
  \/ GetNewMvccid(t) \/ GetNewSubtransactionMvccid(t)
  \/ BuildStart(t) \/ BuildMark(t) \/ BuildLoadLowest(t) \/ BuildStoreLowest(t)
  \/ BuildLoadPosition(t) \/ BuildLoadVersion(t) \/ BuildCopy(t) \/ BuildAccept(t) \/ BuildRetry(t)
  \/ InvalidateSnapshot(t) \/ EndReadOnly(t)
  \/ \E o \in {"commit", "abort", "sub"} : CompleteStart(t, o)
  \/ CompletePublish(t) \/ CompleteSlot(t) \/ CompleteSub(t)
  \/ CompleteLoadGlobal(t) \/ CompleteCompute(t) \/ CompleteCheckVersion(t)
  \/ AdvanceOldestActive(t) \/ CompleteResetInfo(t) \/ LogComplete(t)
  \/ LockOldestVisible(t) \/ ReadThreshold(t)

VacuumStep ==
  VacuumStart \/ VacuumScan \/ (\E t \in Trans : VacuumWait(t)) \/ VacuumRecheck \/ VacuumStore

\* A step is one of a thread, one of the vacuum master, or none.
LEMMA Steps ==
  ASSUME [Next]_vars
  PROVE  (\E t \in Trans : ThreadStep(t)) \/ VacuumStep \/ UNCHANGED vars
  BY Zenon DEF Next, ThreadStep, VacuumStep

\* The outcomes of an unlocked read are sets of ids.
LEMMA ReadsFacts ==
  ASSUME TypeInv, IdInv, NEW k \in Indices, NEW c \in ReadsOf(k)
  PROVE  c \in [done : SUBSET Ids, start : Nat \ {0}]
<1>1. history[k] \in Status /\ current \in Status  BY DEF TypeInv
<1>2. Assigned \subseteq Ids  BY Bounds DEF Assigned, TypeInv, Lows, Ids
<1>3. CASE ~BeingWritten(k)
  BY <1>1, <1>3 DEF ReadsOf, Status
<1>4. CASE BeingWritten(k) /\ history[k].start # current.start
  <2>1. c \in [done : SUBSET Assigned, start : {history[k].start, current.start}]
    BY <1>4, Zenon DEF ReadsOf, TornCopies
  <2>. QED  BY <2>1, <1>1, <1>2 DEF Status
<1>5. CASE BeingWritten(k) /\ history[k].start = current.start
  <2>1. PICK units : c = [done |-> {i \in current.done :
                                     i \in history[k].done \/ UnitOf(current, i) \in units},
                          start |-> current.start]
    BY <1>5, Zenon DEF ReadsOf, TornCopies
  <2>. QED  BY <2>1, <1>1 DEF Status
<1>. QED  BY <1>3, <1>4, <1>5, Zenon

\* The id that a completion completes.
LEMMA CompletedFacts ==
  ASSUME TypeInv, NEW t \in Trans, NEW o, CompleteStart(t, o)
  PROVE  (IF o = "sub" THEN Last(sub_ids[t]) ELSE id[t]) \in Ids
<1>1. CASE o = "sub"
  <2>1. sub_ids[t] # <<>> /\ sub_ids[t] \in Seq(Ids)  BY <1>1 DEF CompleteStart, TypeInv
  <2>. QED  BY <1>1, <2>1 DEF Last
<1>2. CASE o # "sub"
  BY <1>2 DEF CompleteStart, TypeInv
<1>. QED  BY <1>1, <1>2, Zenon

\* A snapshot that is adjusted keeps what it has, and gets the sub-transaction.
LEMMA AdjustedFacts ==
  ASSUME NEW s \in Snapshots, NEW i \in Ids
  PROVE  /\ Adjusted(s, i) \in Snapshots
         /\ Adjusted(s, i).valid = s.valid /\ Adjusted(s, i).lowest = s.lowest
<1>1. i \in Int /\ s.highest \in Int  BY Bounds DEF Ids, Snapshots
<1>2. PICK h \in Int : h = IF i >= s.highest THEN i + 1 ELSE s.highest  BY ONLY <1>1
<1>3. CASE s.valid
  <2>1. Adjusted(s, i) = [s EXCEPT !.highest = h, !.done = s.done \cup {i}]
    BY <1>2, <1>3, Zenon DEF Adjusted
  <2>. QED  BY ONLY <2>1, s \in Snapshots, i \in Ids DEF Snapshots
<1>4. CASE ~s.valid  BY <1>4, Zenon DEF Adjusted
<1>. QED  BY <1>3, <1>4, Zenon

\* Storing a value of the right type keeps the type.
LEMMA ExceptType ==
  ASSUME NEW A, NEW B, NEW f \in [A -> B], NEW a, NEW b \in B
  PROVE  [f EXCEPT ![a] = b] \in [A -> B]
  BY Zenon

\* What the compare-and-exchange loop stores.
LEMMA MaxOfTwo ==
  ASSUME NEW a \in Lows, NEW b \in Lows
  PROVE  Max({a, b}) \in Lows /\ Max({a, b}) >= a /\ (Max({a, b}) = a \/ Max({a, b}) = b)
<1>1. a \in Int /\ b \in Int  BY Bounds DEF Lows
<1>2. \E x \in {a, b} : \A y \in {a, b} : x >= y  BY ONLY <1>1
<1>3. Max({a, b}) \in {a, b} /\ \A y \in {a, b} : Max({a, b}) >= y  BY ONLY <1>2, Zenon DEF Max
<1>. QED  BY ONLY <1>3, a \in Lows, b \in Lows, Zenon

\* Types, through the steps of a thread.
LEMMA ThreadTypes ==
  ASSUME IInv, NEW t \in Trans, ThreadStep(t)
  PROVE  TypeInv'
<1>0. TypeInv /\ IdInv /\ LowInv  BY Zenon DEF IInv
<1>a. \A l \in Labels : Goto(t, l) => pc' \in [Trans -> Labels]  
  <2>1. pc \in [Trans -> Labels]  BY <1>0, Zenon DEF TypeInv
  <2>. QED  BY ONLY <2>1, ExceptType, Zenon DEF Goto
<1>b. /\ {"run", "eot", "read_threshold"} \subseteq Labels
      /\ Building \subseteq Labels /\ Locked \subseteq Labels /\ Completing \subseteq Labels
  BY Zenon DEF Labels
<1>c. MVCCID_NULL \in Slots /\ MVCCID_ALL_VISIBLE \in Slots /\ Lows \subseteq Slots /\ 0 \in Indices
  BY Bounds DEF Slots, Indices
<1>d. Ids \subseteq Lows /\ Lows \subseteq Int  BY Bounds DEF Ids, Lows
<1>e. NoCopy \in [done : SUBSET Ids, start : Nat \ {0}]  BY Bounds DEF NoCopy
<1>f. NoSnapshot \in Snapshots  BY Bounds DEF NoSnapshot, Snapshots
<1>g. ASSUME NEW l \in Labels, Return(t, l)
      PROVE  /\ pc' \in [Trans -> Labels] /\ fresh' \in [Trans -> BOOLEAN] /\ index' \in [Trans -> Indices]
             /\ version' \in [Trans -> Nat] /\ low' \in [Trans -> Lows \cup {MVCCID_NULL}]
             /\ copied' \in [Trans -> [done : SUBSET Ids, start : Nat \ {0}]]
  <2>1. 0 \in Nat  OBVIOUS
  <2>2. /\ fresh \in [Trans -> BOOLEAN] /\ index \in [Trans -> Indices] /\ version \in [Trans -> Nat]
        /\ low \in [Trans -> Lows \cup {MVCCID_NULL}]
        /\ copied \in [Trans -> [done : SUBSET Ids, start : Nat \ {0}]]
    BY <1>0, Zenon DEF TypeInv
  <2>. QED  BY ONLY <2>1, <2>2, <1>a, <1>c, <1>e, <1>g, ExceptType, Zenon DEF Return
<1>1. CASE GetNewMvccid(t)
  <2>1. mvcc_next_id \in Ids /\ mvcc_next_id + 1 \in Lows
    BY <1>0, <1>1, Bounds DEF TypeInv, GetNewMvccid, Lows, Ids
  <2>. QED
    BY ONLY <1>0, <1>1, ExceptType, <2>1, Zenon
    DEF GetNewMvccid, TypeInv, idVars, statusVars, ovVars, vacuumVars, ghostVars
<1>2. CASE GetNewSubtransactionMvccid(t)
  <2>. DEFINE main == IF id[t] = MVCCID_NULL THEN mvcc_next_id ELSE id[t]
              sub == IF id[t] = MVCCID_NULL THEN mvcc_next_id + 1 ELSE mvcc_next_id
  <2>0. sub <= MaxId  BY <1>2, Zenon DEF GetNewSubtransactionMvccid
  <2>1. main \in Ids /\ sub \in Ids /\ sub + 1 \in Lows
    BY <1>0, <2>0, Bounds DEF TypeInv, Lows, Ids
  <2>2. Append(sub_ids[t], sub) \in Seq(Ids)  BY <1>0, <2>1 DEF TypeInv
  <2>. QED
    BY ONLY <1>0, <1>2, ExceptType, <2>1, <2>2, Zenon
    DEF GetNewSubtransactionMvccid, TypeInv, idVars, statusVars, ovVars, vacuumVars, ghostVars
<1>3. CASE BuildStart(t)
  <2>1. (IF lowest_visible[t] = MVCCID_NULL THEN "mark" ELSE "load_lowest") \in Labels
    BY <1>b, Zenon DEF Building
  <2>2. (lowest_visible[t] = MVCCID_NULL) \in BOOLEAN  BY Zenon
  <2>. QED
    BY ONLY <1>0, <1>3, ExceptType, <1>a, <2>1, <2>2, Zenon
    DEF BuildStart, TypeInv, idVars, statusVars, ovVars, vacuumVars, ghostVars
<1>4. CASE BuildMark(t)
  <2>1. "load_lowest" \in Labels  BY <1>b, Zenon DEF Building
  <2>. QED
    BY ONLY <1>0, <1>4, ExceptType, <1>a, <1>c, <2>1, Zenon
    DEF BuildMark, TypeInv, idVars, statusVars, ovVars, vacuumVars, ghostVars
<1>5. CASE BuildLoadLowest(t)
  <2>1. (IF fresh[t] THEN "store_lowest" ELSE "load_position") \in Labels
    BY <1>b, Zenon DEF Building
  <2>. QED
    BY ONLY <1>0, <1>5, ExceptType, <1>a, <2>1, Zenon
    DEF BuildLoadLowest, TypeInv, idVars, statusVars, ovVars, vacuumVars, ghostVars
<1>6. CASE BuildStoreLowest(t)
  <2>1. "load_position" \in Labels  BY <1>b, Zenon DEF Building
  <2>2. low[t] \in Slots
    <3>1. low[t] \in Lows \cup {MVCCID_NULL}  BY <1>0, Zenon DEF TypeInv
    <3>. QED  BY ONLY <1>c, <3>1, Zenon
  <2>. QED
    BY ONLY <1>0, <1>6, ExceptType, <1>a, <2>1, <2>2, Zenon
    DEF BuildStoreLowest, TypeInv, idVars, statusVars, ovVars, vacuumVars, ghostVars
<1>7. CASE BuildLoadPosition(t)
  <2>1. "load_version" \in Labels  BY <1>b, Zenon DEF Building
  <2>. QED
    BY ONLY <1>0, <1>7, ExceptType, <1>a, <2>1, Zenon
    DEF BuildLoadPosition, TypeInv, idVars, statusVars, ovVars, vacuumVars, ghostVars
<1>8. CASE BuildLoadVersion(t)
  <2>1. "copy_from" \in Labels  BY <1>b, Zenon DEF Building
  <2>2. history[index[t]].version \in Nat  BY <1>0 DEF TypeInv, Status
  <2>. QED
    BY ONLY <1>0, <1>8, ExceptType, <1>a, <2>1, <2>2, Zenon
    DEF BuildLoadVersion, TypeInv, idVars, statusVars, ovVars, vacuumVars, ghostVars
<1>9. CASE BuildCopy(t)
  <2>1. index[t] \in Indices  BY <1>0, Zenon DEF TypeInv
  <2>2. PICK c \in ReadsOf(index[t]) : copied' = [copied EXCEPT ![t] = c]
    BY <1>9, Zenon DEF BuildCopy
  <2>3. c \in [done : SUBSET Ids, start : Nat \ {0}]  BY <2>1, <2>2, <1>0, ReadsFacts, Zenon
  <2>4. "recheck" \in Labels  BY <1>b, Zenon DEF Building
  <2>. QED
    BY ONLY <1>0, <1>9, ExceptType, <1>a, <2>2, <2>3, <2>4, Zenon
    DEF BuildCopy, TypeInv, idVars, statusVars, ovVars, vacuumVars, ghostVars
<1>10. CASE BuildAccept(t)
  <2>. DEFINE s == [valid |-> TRUE, lowest |-> low[t],
                    highest |-> HighestCompletedOf(copied[t]) + 1, done |-> copied[t].done]
  <2>1. copied[t].done \in SUBSET Ids /\ copied[t].start \in Nat \ {0}  BY <1>0 DEF TypeInv
  <2>2. HighestCompletedOf(copied[t]) \in Nat  BY <2>1, HighestFacts, Zenon
  <2>3. HighestCompletedOf(copied[t]) + 1 \in Int  BY <2>2
  <2>4. low[t] \in Int
    <3>1. low[t] \in Lows \cup {MVCCID_NULL}  BY <1>0, Zenon DEF TypeInv
    <3>2. CASE low[t] \in Lows  BY ONLY <3>2, <1>d, Zenon
    <3>3. CASE low[t] = MVCCID_NULL  BY ONLY <3>3, Bounds
    <3>. QED  BY ONLY <3>1, <3>2, <3>3, Zenon
  <2>5. s \in Snapshots  BY <2>1, <2>3, <2>4 DEF Snapshots
  <2>. QED
    BY ONLY <1>0, <1>10, ExceptType, <1>b, <1>g, <2>5, Zenon
    DEF BuildAccept, TypeInv, idVars, statusVars, ovVars, vacuumVars, ghostVars
<1>11. CASE BuildRetry(t)
  <2>1. (IF fresh[t] THEN "mark" ELSE "load_lowest") \in Labels  BY <1>b, Zenon DEF Building
  <2>. QED
    BY ONLY <1>0, <1>11, ExceptType, <1>a, <1>e, <2>1, Zenon
    DEF BuildRetry, TypeInv, idVars, statusVars, ovVars, vacuumVars, ghostVars
<1>12. CASE InvalidateSnapshot(t)
  BY ONLY <1>0, <1>12, ExceptType, <1>f, Zenon
  DEF InvalidateSnapshot, TypeInv, idVars, statusVars, ovVars, vacuumVars, ghostVars
<1>13. CASE EndReadOnly(t)
  BY ONLY <1>0, <1>13, ExceptType, <1>c, <1>f, Zenon
  DEF EndReadOnly, TypeInv, idVars, statusVars, ovVars, vacuumVars, ghostVars
<1>14. ASSUME NEW o \in {"commit", "abort", "sub"}, CompleteStart(t, o) PROVE TypeInv'
  <2>. DEFINE i == IF o = "sub" THEN Last(sub_ids[t]) ELSE id[t]
              n == (position + 1) % HISTORY_MAX_SIZE
              s == [current EXCEPT !.version = current.version + 1]
              e == [history[n] EXCEPT !.version = current.version + 1]
  <2>1. i \in Ids  BY <1>0, <1>14, CompletedFacts, Zenon DEF TypeInv
  <2>2. n \in Indices  BY <1>0, Bounds DEF TypeInv, Indices
  <2>3. current \in Status /\ history[n] \in Status  BY <1>0, <2>2, Zenon DEF TypeInv
  <2>4. s \in Status /\ e \in Status /\ current.version + 1 \in Nat  BY <2>3 DEF Status
  <2>5. SetInactive(s, i) \in Status  BY <2>1, <2>4, InactiveFacts, Zenon
  <2>6. history' = [history EXCEPT ![n] = e]  BY <1>14, Zenon DEF CompleteStart
  <2>7. current' = SetInactive(s, i) /\ mutex' = {t}  BY <1>14, Zenon DEF CompleteStart
  <2>8. o \in {"none", "commit", "abort", "sub"} /\ "copy_to" \in Labels
    BY <1>b, Zenon
    DEF Locked
  <2>9. index' = [index EXCEPT ![t] = n] /\ version' = [version EXCEPT ![t] = current.version + 1]
    BY <1>14, Zenon DEF CompleteStart
  <2>. HIDE DEF i, n, s, e
  <2>10. /\ history \in [Indices -> Status] /\ index \in [Trans -> Indices]
         /\ version \in [Trans -> Nat] /\ op \in [Trans -> {"none", "commit", "abort", "sub"}]
    BY <1>0, Zenon DEF TypeInv
  <2>11. op' = [op EXCEPT ![t] = o]  BY <1>14, Zenon DEF CompleteStart
  <2>12. /\ history' \in [Indices -> Status] /\ index' \in [Trans -> Indices]
         /\ version' \in [Trans -> Nat] /\ op' \in [Trans -> {"none", "commit", "abort", "sub"}]
    BY ONLY <2>2, <2>4, <2>6, <2>8, <2>9, <2>10, <2>11, ExceptType, Zenon
  <2>. QED
    BY ONLY <1>0, <1>14, ExceptType, <1>a, <2>5, <2>7, <2>8, <2>12, Zenon
    DEF CompleteStart, TypeInv, idVars, statusVars, ovVars, vacuumVars, ghostVars
<1>15. CASE CompletePublish(t)
  <2>1. [current EXCEPT !.version = version[t]] \in Status
    <3>1. current \in Status /\ version[t] \in Nat  BY <1>0, Zenon DEF TypeInv
    <3>. QED  BY <3>1 DEF Status
  <2>2. (IF op[t] = "commit" THEN id[t] ELSE MVCCID_NULL) \in Ids \cup {MVCCID_NULL}
    BY <1>0, Zenon DEF TypeInv
  <2>3. "slot" \in Labels /\ index[t] \in Indices  BY <1>0, <1>b, Zenon DEF TypeInv, Locked
  <2>. QED
    BY ONLY <1>0, <1>15, ExceptType, <1>a, <2>1, <2>2, <2>3, Zenon
    DEF CompletePublish, TypeInv, idVars, statusVars, ovVars, vacuumVars, ghostVars
<1>16. CASE CompleteSlot(t)
  <2>1. id[t] \in Slots /\ lowest_visible[t] \in Slots  BY <1>0, <1>c, <1>d, Zenon DEF TypeInv
  <2>2. "load_global" \in Labels /\ {} \subseteq Trans  BY <1>b, Zenon DEF Completing
  <2>. QED
    BY ONLY <1>0, <1>16, ExceptType, <1>a, <1>c, <2>1, <2>2, Zenon
    DEF CompleteSlot, TypeInv, idVars, statusVars, ovVars, vacuumVars, ghostVars
<1>17. CASE CompleteSub(t)
  <2>. DEFINE sub == Last(sub_ids[t])
  <2>1. sub_ids[t] # <<>>  BY <1>17, Zenon DEF CompleteSub, IInv, ThreadInv
  <2>2. sub_ids[t] \in Seq(Ids)  BY <1>0, Zenon DEF TypeInv
  <2>3. sub \in Ids /\ Front(sub_ids[t]) \in Seq(Ids)  BY <2>1, <2>2 DEF Last, Front
  <2>4. snapshot[t] \in Snapshots  BY <1>0, Zenon DEF TypeInv
  <2>5. Adjusted(snapshot[t], sub) \in Snapshots  BY ONLY <2>3, <2>4, AdjustedFacts, Zenon
  <2>6. "none" \in {"none", "commit", "abort", "sub"} /\ {} \subseteq Trans  BY Zenon
  <2>7. /\ sub_ids' = [sub_ids EXCEPT ![t] = Front(sub_ids[t])] /\ op' = [op EXCEPT ![t] = "none"]
        /\ snapshot' = [snapshot EXCEPT ![t] = Adjusted(snapshot[t], sub)]
    BY ONLY <1>17, Zenon DEF CompleteSub
  <2>8. /\ sub_ids \in [Trans -> Seq(Ids)] /\ op \in [Trans -> {"none", "commit", "abort", "sub"}]
        /\ snapshot \in [Trans -> Snapshots]
    BY <1>0, Zenon DEF TypeInv
  <2>. HIDE DEF sub
  <2>10. /\ sub_ids' \in [Trans -> Seq(Ids)] /\ op' \in [Trans -> {"none", "commit", "abort", "sub"}]
         /\ snapshot' \in [Trans -> Snapshots]
    BY ONLY <2>3, <2>5, <2>6, <2>7, <2>8, ExceptType, Zenon
  <2>11. Return(t, "run")  BY <1>17, Zenon DEF CompleteSub
  <2>. QED
    BY ONLY <1>0, <1>17, ExceptType, <1>b, <1>g, <2>6, <2>10, <2>11, Zenon
    DEF CompleteSub, TypeInv, idVars, statusVars, ovVars, vacuumVars, ghostVars
<1>18. CASE CompleteLoadGlobal(t)
  <2>1. "compute" \in Labels  BY <1>b, Zenon DEF Completing
  <2>. QED
    BY ONLY <1>0, <1>18, ExceptType, <1>a, <2>1, Zenon
    DEF CompleteLoadGlobal, TypeInv, idVars, statusVars, ovVars, vacuumVars, ghostVars
<1>19. CASE CompleteCompute(t)
  <2>1. index[t] \in Indices  BY <1>0, Zenon DEF TypeInv
  <2>2. PICK c \in ReadsOf(index[t]) :
          \/ low' = [low EXCEPT ![t] = LowestActiveOf(c.done)] /\ Goto(t, "check_version")
          \/ low' = low /\ Goto(t, "reset_info")
    BY <1>19, Zenon DEF CompleteCompute
  <2>3. c \in [done : SUBSET Ids, start : Nat \ {0}]  BY <2>1, <2>2, <1>0, ReadsFacts, Zenon
  <2>4. c.done \in SUBSET Ids  BY <2>3
  <2>5. LowestActiveOf(c.done) \in Lows  BY <2>4, LowestFacts, Zenon
  <2>6. "check_version" \in Labels /\ "reset_info" \in Labels  BY <1>b, Zenon DEF Completing
  <2>7. pc' \in [Trans -> Labels] /\ low' \in [Trans -> Lows \cup {MVCCID_NULL}]
    <3>1. low \in [Trans -> Lows \cup {MVCCID_NULL}]  BY <1>0, Zenon DEF TypeInv
    <3>2. CASE low' = [low EXCEPT ![t] = LowestActiveOf(c.done)] /\ Goto(t, "check_version")
      BY ONLY <3>1, <3>2, <1>a, <2>5, <2>6, ExceptType, Zenon
    <3>3. CASE low' = low /\ Goto(t, "reset_info")
      BY ONLY <3>1, <3>3, <1>a, <2>6, Zenon
    <3>. QED  BY <2>2, <3>2, <3>3, Zenon
  <2>. QED
    BY ONLY <1>0, <1>19, ExceptType, <2>7, Zenon
    DEF CompleteCompute, TypeInv, idVars, statusVars, ovVars, vacuumVars, ghostVars
<1>20. CASE CompleteCheckVersion(t)
  <2>1. (IF history[index[t]].version = version[t] THEN "advance" ELSE "reset_info") \in Labels
    BY <1>b, Zenon DEF Completing
  <2>. QED
    BY ONLY <1>0, <1>20, ExceptType, <1>a, <2>1, Zenon
    DEF CompleteCheckVersion, TypeInv, idVars, statusVars, ovVars, vacuumVars, ghostVars
<1>21. CASE AdvanceOldestActive(t)
  <2>1. low[t] \in Lows /\ lowest_active \in Lows
    BY <1>0, <1>21, Zenon DEF TypeInv, AdvanceOldestActive, LowInv
  <2>2. Max({lowest_active, low[t]}) \in Lows  BY ONLY <2>1, MaxOfTwo, Zenon
  <2>3. "reset_info" \in Labels  BY <1>b, Zenon DEF Completing
  <2>. QED
    BY ONLY <1>0, <1>21, ExceptType, <1>a, <2>2, <2>3, Zenon
    DEF AdvanceOldestActive, TypeInv, idVars, statusVars, ovVars, vacuumVars, ghostVars
<1>22. CASE CompleteResetInfo(t)
  <2>1. MVCCID_NULL \in Ids \cup {MVCCID_NULL}  BY Zenon
  <2>. QED
    BY ONLY <1>0, <1>22, ExceptType, <1>b, <1>f, <1>g, <2>1, Zenon
    DEF CompleteResetInfo, TypeInv, idVars, statusVars, ovVars, vacuumVars, ghostVars
<1>23. CASE LogComplete(t)
  <2>1. "none" \in {"none", "commit", "abort", "sub"} /\ MVCCID_NULL \in Ids \cup {MVCCID_NULL}
    BY Zenon
  <2>2. lowest_visible[t] \in Slots  BY <1>0, Zenon DEF TypeInv
  <2>3. (IF op[t] = "commit" THEN MVCCID_NULL ELSE lowest_visible[t]) \in Slots
    BY ONLY <2>2, <1>c, Zenon
  <2>. QED
    BY ONLY <1>0, <1>23, ExceptType, <1>a, <1>b, <2>1, <2>3, Zenon
    DEF LogComplete, TypeInv, idVars, statusVars, ovVars, vacuumVars, ghostVars
<1>24. CASE LockOldestVisible(t)
  BY ONLY <1>0, <1>24, ExceptType, <1>a, <1>b, Zenon
  DEF LockOldestVisible, TypeInv, idVars, statusVars, ovVars, vacuumVars, ghostVars
<1>25. CASE ReadThreshold(t)
  BY ONLY <1>0, <1>25, ExceptType, <1>a, <1>b, Zenon
  DEF ReadThreshold, TypeInv, idVars, statusVars, ovVars, vacuumVars, ghostVars
<1>. QED
  BY <1>1, <1>2, <1>3, <1>4, <1>5, <1>6, <1>7, <1>8, <1>9, <1>10, <1>11, <1>12, <1>13, <1>14,
     <1>15, <1>16, <1>17, <1>18, <1>19, <1>20, <1>21, <1>22, <1>23, <1>24, <1>25, Zenon DEF ThreadStep

\* Types, through the steps of the vacuum master.
LEMMA VacuumTypes ==
  ASSUME IInv, VacuumStep
  PROVE  TypeInv'
<1>0. TypeInv  BY Zenon DEF IInv
<1>1. CASE VacuumStart
  <2>1. 1 \in 1 .. (NTrans + 1)  BY Bounds
  <2>. QED
    BY ONLY <1>0, <1>1, <2>1, Zenon
    DEF VacuumStart, TypeInv, idVars, statusVars, ovVars, vacuumVars, ghostVars
<1>a. Trans = 1 .. NTrans /\ NTrans \in Nat  BY Bounds DEF Trans
<1>b. ASSUME NEW v \in Trans, Lower(lowest_visible[v]), lowest_visible[v] # MVCCID_ALL_VISIBLE
      PROVE  vlow' \in Lows \cup {MVCCID_NULL}
  BY <1>0, <1>b, Zenon DEF TypeInv, Lower, Slots
<1>2. CASE VacuumScan
  <2>1. vnext \in Trans  BY <1>2, Zenon DEF VacuumScan
  <2>2. vnext + 1 \in 1 .. (NTrans + 1)  BY <2>1, <1>a
  <2>3. vlow' \in Lows \cup {MVCCID_NULL} /\ vwaiting' \subseteq Trans
    BY <1>0, <1>2, <1>b, <2>1, Zenon DEF TypeInv, VacuumScan
  <2>. QED
    BY ONLY <1>0, <1>2, <2>2, <2>3, Zenon
    DEF VacuumScan, TypeInv, idVars, statusVars, ovVars, vacuumVars, ghostVars
<1>3. ASSUME NEW t \in Trans, VacuumWait(t) PROVE TypeInv'
  <2>1. vlow' \in Lows \cup {MVCCID_NULL} /\ vwaiting' \subseteq Trans
    BY <1>0, <1>3, <1>b, Zenon DEF TypeInv, VacuumWait
  <2>. QED
    BY ONLY <1>0, <1>3, <2>1, Zenon
    DEF VacuumWait, TypeInv, idVars, statusVars, ovVars, vacuumVars, ghostVars
<1>4. CASE VacuumRecheck
  BY ONLY <1>0, <1>4, Zenon
  DEF VacuumRecheck, TypeInv, idVars, statusVars, ovVars, vacuumVars, ghostVars
<1>5. CASE VacuumStore
  BY ONLY <1>0, <1>5, Zenon
  DEF VacuumStore, TypeInv, idVars, statusVars, ovVars, vacuumVars, ghostVars
<1>. QED  BY <1>1, <1>2, <1>3, <1>4, <1>5, Zenon DEF VacuumStep

\* Types, through every step.
LEMMA TypeStep == IInv /\ [Next]_vars => TypeInv'
<1>. SUFFICES ASSUME IInv, [Next]_vars PROVE TypeInv'  BY Zenon
<1>1. CASE UNCHANGED vars
  BY <1>1, Zenon DEF IInv, TypeInv, vars, idVars, statusVars, ovVars, vacuumVars, ghostVars
<1>. QED  BY <1>1, Steps, ThreadTypes, VacuumTypes, Zenon
-----------------------------------------------------------------------------
\* What a step leaves alone of thread u.
Same(u) ==
  /\ pc'[u] = pc[u] /\ op'[u] = op[u] /\ id'[u] = id[u] /\ sub_ids'[u] = sub_ids[u]
  /\ snapshot'[u] = snapshot[u] /\ fresh'[u] = fresh[u] /\ index'[u] = index[u]
  /\ version'[u] = version[u] /\ low'[u] = low[u] /\ lowest_visible'[u] = lowest_visible[u]
  /\ committing'[u] = committing[u]

\* Storing for one thread changes nothing for another.
LEMMA ExceptOther ==
  ASSUME NEW A, NEW B, NEW f \in [A -> B], NEW a, NEW b, NEW c \in A, c # a
  PROVE  [f EXCEPT ![a] = b][c] = f[c]
  BY Zenon

\* Storing for a thread stores there.
LEMMA ExceptSame ==
  ASSUME NEW A, NEW B, NEW f \in [A -> B], NEW a \in A, NEW b
  PROVE  [f EXCEPT ![a] = b][a] = b
  BY Zenon

\* A thread changes nothing of another thread, nor of the vacuum master.
LEMMA ThreadFrame ==
  ASSUME TypeInv, NEW t \in Trans, ThreadStep(t), NEW u \in Trans, u # t
  PROVE  Same(u)
<1>0. /\ pc \in [Trans -> Labels] /\ op \in [Trans -> {"none", "commit", "abort", "sub"}]
      /\ id \in [Trans -> Ids \cup {MVCCID_NULL}] /\ sub_ids \in [Trans -> Seq(Ids)]
      /\ snapshot \in [Trans -> Snapshots] /\ fresh \in [Trans -> BOOLEAN] /\ index \in [Trans -> Indices]
      /\ version \in [Trans -> Nat] /\ low \in [Trans -> Lows \cup {MVCCID_NULL}]
      /\ lowest_visible \in [Trans -> Slots] /\ committing \in [Trans -> Ids \cup {MVCCID_NULL}]
      /\ u \in Trans /\ u # t
  BY Zenon DEF TypeInv
<1>1. CASE GetNewMvccid(t)
  BY ONLY <1>0, <1>1, ExceptOther, Zenon
  DEF GetNewMvccid, Same, idVars, statusVars, ovVars, vacuumVars, ghostVars
<1>2. CASE GetNewSubtransactionMvccid(t)
  BY ONLY <1>0, <1>2, ExceptOther, Zenon
  DEF GetNewSubtransactionMvccid, Same, idVars, statusVars, ovVars, vacuumVars, ghostVars
<1>3. CASE BuildStart(t)
  BY ONLY <1>0, <1>3, ExceptOther, Zenon
  DEF BuildStart, Goto, Same, idVars, statusVars, ovVars, vacuumVars, ghostVars
<1>4. CASE BuildMark(t)
  BY ONLY <1>0, <1>4, ExceptOther, Zenon
  DEF BuildMark, Goto, Same, idVars, statusVars, ovVars, vacuumVars, ghostVars
<1>5. CASE BuildLoadLowest(t)
  BY ONLY <1>0, <1>5, ExceptOther, Zenon
  DEF BuildLoadLowest, Goto, Same, idVars, statusVars, ovVars, vacuumVars, ghostVars
<1>6. CASE BuildStoreLowest(t)
  BY ONLY <1>0, <1>6, ExceptOther, Zenon
  DEF BuildStoreLowest, Goto, Same, idVars, statusVars, ovVars, vacuumVars, ghostVars
<1>7. CASE BuildLoadPosition(t)
  BY ONLY <1>0, <1>7, ExceptOther, Zenon
  DEF BuildLoadPosition, Goto, Same, idVars, statusVars, ovVars, vacuumVars, ghostVars
<1>8. CASE BuildLoadVersion(t)
  BY ONLY <1>0, <1>8, ExceptOther, Zenon
  DEF BuildLoadVersion, Goto, Same, idVars, statusVars, ovVars, vacuumVars, ghostVars
<1>9. CASE BuildCopy(t)
  BY ONLY <1>0, <1>9, ExceptOther, Zenon
  DEF BuildCopy, Goto, Same, idVars, statusVars, ovVars, vacuumVars, ghostVars
<1>10. CASE BuildAccept(t)
  BY ONLY <1>0, <1>10, ExceptOther, ZenonT(60)
  DEF BuildAccept, Return, Goto, Same, idVars, statusVars, ovVars, vacuumVars, ghostVars
<1>11. CASE BuildRetry(t)
  BY ONLY <1>0, <1>11, ExceptOther, Zenon
  DEF BuildRetry, Goto, Same, idVars, statusVars, ovVars, vacuumVars, ghostVars
<1>12. CASE InvalidateSnapshot(t)
  BY ONLY <1>0, <1>12, ExceptOther, Zenon
  DEF InvalidateSnapshot, Same, idVars, statusVars, ovVars, vacuumVars, ghostVars
<1>13. CASE EndReadOnly(t)
  BY ONLY <1>0, <1>13, ExceptOther, Zenon
  DEF EndReadOnly, Same, idVars, statusVars, ovVars, vacuumVars, ghostVars
<1>14. ASSUME NEW o, CompleteStart(t, o) PROVE Same(u)
  BY ONLY <1>0, <1>14, ExceptOther, Zenon
  DEF CompleteStart, Goto, Same, idVars, statusVars, ovVars, vacuumVars, ghostVars
<1>15. CASE CompletePublish(t)
  BY ONLY <1>0, <1>15, ExceptOther, Zenon
  DEF CompletePublish, Goto, Same, idVars, statusVars, ovVars, vacuumVars, ghostVars
<1>16. CASE CompleteSlot(t)
  BY ONLY <1>0, <1>16, ExceptOther, Zenon
  DEF CompleteSlot, Goto, Same, idVars, statusVars, ovVars, vacuumVars, ghostVars
<1>17. CASE CompleteSub(t)
  BY ONLY <1>0, <1>17, ExceptOther, ZenonT(60)
  DEF CompleteSub, Return, Goto, Same, idVars, statusVars, ovVars, vacuumVars, ghostVars
<1>18. CASE CompleteLoadGlobal(t)
  BY ONLY <1>0, <1>18, ExceptOther, Zenon
  DEF CompleteLoadGlobal, Goto, Same, idVars, statusVars, ovVars, vacuumVars, ghostVars
<1>19. CASE CompleteCompute(t)
  <2>1. PICK l, v : (low' = [low EXCEPT ![t] = v] \/ low' = low) /\ Goto(t, l)
    BY ONLY <1>19, Zenon DEF CompleteCompute
  <2>2. low'[u] = low[u] /\ pc'[u] = pc[u]  BY ONLY <1>0, <2>1, ExceptOther, ZenonT(60) DEF Goto
  <2>. QED
    BY ONLY <1>0, <1>19, <2>2, Zenon
    DEF CompleteCompute, Same, idVars, statusVars, ovVars, vacuumVars, ghostVars
<1>20. CASE CompleteCheckVersion(t)
  BY ONLY <1>0, <1>20, ExceptOther, Zenon
  DEF CompleteCheckVersion, Goto, Same, idVars, statusVars, ovVars, vacuumVars, ghostVars
<1>21. CASE AdvanceOldestActive(t)
  BY ONLY <1>0, <1>21, ExceptOther, Zenon
  DEF AdvanceOldestActive, Goto, Same, idVars, statusVars, ovVars, vacuumVars, ghostVars
<1>22. CASE CompleteResetInfo(t)
  BY ONLY <1>0, <1>22, ExceptOther, ZenonT(60)
  DEF CompleteResetInfo, Return, Goto, Same, idVars, statusVars, ovVars, vacuumVars, ghostVars
<1>23. CASE LogComplete(t)
  BY ONLY <1>0, <1>23, ExceptOther, Zenon
  DEF LogComplete, Goto, Same, idVars, statusVars, ovVars, vacuumVars, ghostVars
<1>24. CASE LockOldestVisible(t)
  BY ONLY <1>0, <1>24, ExceptOther, Zenon
  DEF LockOldestVisible, Goto, Same, idVars, statusVars, ovVars, vacuumVars, ghostVars
<1>25. CASE ReadThreshold(t)
  BY ONLY <1>0, <1>25, ExceptOther, Zenon
  DEF ReadThreshold, Goto, Same, idVars, statusVars, ovVars, vacuumVars, ghostVars
<1>. QED
  BY <1>1, <1>2, <1>3, <1>4, <1>5, <1>6, <1>7, <1>8, <1>9, <1>10, <1>11, <1>12, <1>13, <1>14,
     <1>15, <1>16, <1>17, <1>18, <1>19, <1>20, <1>21, <1>22, <1>23, <1>24, <1>25, Zenon
  DEF ThreadStep

\* A completion of some kind begins.
Completes(t) == \E o \in {"commit", "abort", "sub"} : CompleteStart(t, o)

\* What changes of the table, and by which steps.
TableFrame(t) ==
  /\ UNCHANGED <<vpc, vlow, vnext, vwaiting, oldest_visible>>
  /\ lowest_active' = lowest_active \/ AdvanceOldestActive(t)
  /\ current' = current \/ Completes(t)
  /\ history' = history \/ Completes(t) \/ CompletePublish(t)
  /\ UNCHANGED <<position, order>> \/ CompletePublish(t)
  /\ mutex' = mutex \/ Completes(t) \/ CompleteSlot(t) \/ CompleteSub(t)
  /\ committing' = committing \/ CompletePublish(t) \/ LogComplete(t)
  /\ \/ lowest_visible' = lowest_visible \/ BuildMark(t) \/ BuildStoreLowest(t) \/ EndReadOnly(t)
     \/ CompleteSlot(t) \/ LogComplete(t)
  /\ op' = op \/ Completes(t) \/ CompleteSub(t) \/ LogComplete(t)
  /\ \/ UNCHANGED <<mvcc_next_id, id, sub_ids>>
     \/ GetNewMvccid(t) \/ GetNewSubtransactionMvccid(t) \/ CompleteSub(t) \/ CompleteResetInfo(t)

\* What a step of a thread can change, and which steps change it.
LEMMA TableFrames ==
  ASSUME NEW t \in Trans, ThreadStep(t)
  PROVE  TableFrame(t)
<1>1. CASE GetNewMvccid(t)
  BY ONLY <1>1, Zenon
  DEF GetNewMvccid, TableFrame, Completes, idVars, statusVars, ovVars, vacuumVars, ghostVars
<1>2. CASE GetNewSubtransactionMvccid(t)
  BY ONLY <1>2, Zenon
  DEF GetNewSubtransactionMvccid, TableFrame, Completes, idVars, statusVars, ovVars, vacuumVars,
      ghostVars
<1>3. CASE BuildStart(t)
  BY ONLY <1>3, Zenon
  DEF BuildStart, TableFrame, Completes, idVars, statusVars, ovVars, vacuumVars, ghostVars
<1>4. CASE BuildMark(t)
  BY ONLY <1>4, Zenon
  DEF BuildMark, TableFrame, Completes, idVars, statusVars, ovVars, vacuumVars, ghostVars
<1>5. CASE BuildLoadLowest(t)
  BY ONLY <1>5, Zenon
  DEF BuildLoadLowest, TableFrame, Completes, idVars, statusVars, ovVars, vacuumVars, ghostVars
<1>6. CASE BuildStoreLowest(t)
  BY ONLY <1>6, Zenon
  DEF BuildStoreLowest, TableFrame, Completes, idVars, statusVars, ovVars, vacuumVars, ghostVars
<1>7. CASE BuildLoadPosition(t)
  BY ONLY <1>7, Zenon
  DEF BuildLoadPosition, TableFrame, Completes, idVars, statusVars, ovVars, vacuumVars, ghostVars
<1>8. CASE BuildLoadVersion(t)
  BY ONLY <1>8, Zenon
  DEF BuildLoadVersion, TableFrame, Completes, idVars, statusVars, ovVars, vacuumVars, ghostVars
<1>9. CASE BuildCopy(t)
  BY ONLY <1>9, Zenon
  DEF BuildCopy, TableFrame, Completes, idVars, statusVars, ovVars, vacuumVars, ghostVars
<1>10. CASE BuildAccept(t)
  BY ONLY <1>10, Zenon
  DEF BuildAccept, TableFrame, Completes, idVars, statusVars, ovVars, vacuumVars, ghostVars
<1>11. CASE BuildRetry(t)
  BY ONLY <1>11, Zenon
  DEF BuildRetry, TableFrame, Completes, idVars, statusVars, ovVars, vacuumVars, ghostVars
<1>12. CASE InvalidateSnapshot(t)
  BY ONLY <1>12, Zenon
  DEF InvalidateSnapshot, TableFrame, Completes, idVars, statusVars, ovVars, vacuumVars, ghostVars
<1>13. CASE EndReadOnly(t)
  BY ONLY <1>13, Zenon
  DEF EndReadOnly, TableFrame, Completes, idVars, statusVars, ovVars, vacuumVars, ghostVars
<1>14. ASSUME NEW o \in {"commit", "abort", "sub"}, CompleteStart(t, o) PROVE TableFrame(t)
  BY ONLY <1>14, Zenon
  DEF CompleteStart, TableFrame, Completes, idVars, statusVars, ovVars, vacuumVars, ghostVars
<1>15. CASE CompletePublish(t)
  BY ONLY <1>15, Zenon
  DEF CompletePublish, TableFrame, Completes, idVars, statusVars, ovVars, vacuumVars, ghostVars
<1>16. CASE CompleteSlot(t)
  BY ONLY <1>16, Zenon
  DEF CompleteSlot, TableFrame, Completes, idVars, statusVars, ovVars, vacuumVars, ghostVars
<1>17. CASE CompleteSub(t)
  BY ONLY <1>17, Zenon
  DEF CompleteSub, TableFrame, Completes, idVars, statusVars, ovVars, vacuumVars, ghostVars
<1>18. CASE CompleteLoadGlobal(t)
  BY ONLY <1>18, Zenon
  DEF CompleteLoadGlobal, TableFrame, Completes, idVars, statusVars, ovVars, vacuumVars, ghostVars
<1>19. CASE CompleteCompute(t)
  BY ONLY <1>19, Zenon
  DEF CompleteCompute, TableFrame, Completes, idVars, statusVars, ovVars, vacuumVars, ghostVars
<1>20. CASE CompleteCheckVersion(t)
  BY ONLY <1>20, Zenon
  DEF CompleteCheckVersion, TableFrame, Completes, idVars, statusVars, ovVars, vacuumVars,
      ghostVars
<1>21. CASE AdvanceOldestActive(t)
  BY ONLY <1>21, Zenon
  DEF AdvanceOldestActive, TableFrame, Completes, idVars, statusVars, ovVars, vacuumVars,
      ghostVars
<1>22. CASE CompleteResetInfo(t)
  BY ONLY <1>22, Zenon
  DEF CompleteResetInfo, TableFrame, Completes, idVars, statusVars, ovVars, vacuumVars, ghostVars
<1>23. CASE LogComplete(t)
  BY ONLY <1>23, Zenon
  DEF LogComplete, TableFrame, Completes, idVars, statusVars, ovVars, vacuumVars, ghostVars
<1>24. CASE LockOldestVisible(t)
  BY ONLY <1>24, Zenon
  DEF LockOldestVisible, TableFrame, Completes, idVars, statusVars, ovVars, vacuumVars, ghostVars
<1>25. CASE ReadThreshold(t)
  BY ONLY <1>25, Zenon
  DEF ReadThreshold, TableFrame, Completes, idVars, statusVars, ovVars, vacuumVars, ghostVars
<1>. QED
  BY <1>1, <1>2, <1>3, <1>4, <1>5, <1>6, <1>7, <1>8, <1>9, <1>10, <1>11, <1>12, <1>13, <1>14,
     <1>15, <1>16, <1>17, <1>18, <1>19, <1>20, <1>21, <1>22, <1>23, <1>24, <1>25, Zenon
  DEF ThreadStep
-----------------------------------------------------------------------------
\* What CompleteCompute does to the thread itself.
LEMMA ComputeFacts ==
  ASSUME TypeInv, NEW t \in Trans, CompleteCompute(t)
  PROVE  /\ pc[t] = "compute" /\ pc'[t] \in {"check_version", "reset_info"}
         /\ UNCHANGED <<op, id, sub_ids, snapshot, mutex, fresh, lowest_visible, lowest_active, committing>>
<1>1. pc \in [Trans -> Labels]  BY Zenon DEF TypeInv
<1>2. Goto(t, "check_version") \/ Goto(t, "reset_info")  BY Zenon DEF CompleteCompute
<1>3. pc'[t] \in {"check_version", "reset_info"}
  BY ONLY <1>1, <1>2, t \in Trans, ExceptSame, Zenon
  DEF Goto
<1>. QED  BY <1>3, Zenon DEF CompleteCompute, idVars, statusVars, ghostVars

\* A step of a thread keeps its own invariants: where it is.
LEMMA OwnThread ==
  ASSUME IInv, NEW t \in Trans, ThreadStep(t)
  PROVE  ThreadInv(t)'
<1>0. /\ pc \in [Trans -> Labels] /\ op \in [Trans -> {"none", "commit", "abort", "sub"}]
      /\ id \in [Trans -> Ids \cup {MVCCID_NULL}] /\ sub_ids \in [Trans -> Seq(Ids)]
      /\ snapshot \in [Trans -> Snapshots] /\ t \in Trans
  BY Zenon DEF IInv, TypeInv
<1>t. ThreadInv(t)  BY Zenon DEF IInv
<1>1. CASE GetNewMvccid(t)
  BY ONLY <1>0, <1>t, <1>1, ExceptSame, Zenon
  DEF GetNewMvccid, ThreadInv, Building, Locked, Completing, idVars, statusVars, ovVars,
      vacuumVars, ghostVars
<1>2. CASE GetNewSubtransactionMvccid(t)
  BY ONLY <1>0, <1>t, <1>2, ExceptSame, Zenon
  DEF GetNewSubtransactionMvccid, ThreadInv, Building, Locked, Completing, idVars, statusVars,
      ovVars, vacuumVars, ghostVars
<1>3. CASE BuildStart(t)
  BY ONLY <1>0, <1>t, <1>3, ExceptSame, Zenon
  DEF BuildStart, Goto, ThreadInv, Building, Locked, Completing, idVars, statusVars, ovVars,
      vacuumVars, ghostVars
<1>4. CASE BuildMark(t)
  BY ONLY <1>0, <1>t, <1>4, ExceptSame, Zenon
  DEF BuildMark, Goto, ThreadInv, Building, Locked, Completing, idVars, statusVars, ovVars,
      vacuumVars, ghostVars
<1>5. CASE BuildLoadLowest(t)
  BY ONLY <1>0, <1>t, <1>5, ExceptSame, Zenon
  DEF BuildLoadLowest, Goto, ThreadInv, Building, Locked, Completing, idVars, statusVars, ovVars,
      vacuumVars, ghostVars
<1>6. CASE BuildStoreLowest(t)
  BY ONLY <1>0, <1>t, <1>6, ExceptSame, Zenon
  DEF BuildStoreLowest, Goto, ThreadInv, Building, Locked, Completing, idVars, statusVars, ovVars,
      vacuumVars, ghostVars
<1>7. CASE BuildLoadPosition(t)
  BY ONLY <1>0, <1>t, <1>7, ExceptSame, Zenon
  DEF BuildLoadPosition, Goto, ThreadInv, Building, Locked, Completing, idVars, statusVars,
      ovVars, vacuumVars, ghostVars
<1>8. CASE BuildLoadVersion(t)
  BY ONLY <1>0, <1>t, <1>8, ExceptSame, Zenon
  DEF BuildLoadVersion, Goto, ThreadInv, Building, Locked, Completing, idVars, statusVars, ovVars,
      vacuumVars, ghostVars
<1>9. CASE BuildCopy(t)
  BY ONLY <1>0, <1>t, <1>9, ExceptSame, Zenon
  DEF BuildCopy, Goto, ThreadInv, Building, Locked, Completing, idVars, statusVars, ovVars,
      vacuumVars, ghostVars
<1>10. CASE BuildAccept(t)
  BY ONLY <1>0, <1>t, <1>10, ExceptSame, Zenon
  DEF BuildAccept, Return, Goto, ThreadInv, Building, Locked, Completing, idVars, statusVars,
      ovVars, vacuumVars, ghostVars
<1>11. CASE BuildRetry(t)
  BY ONLY <1>0, <1>t, <1>11, ExceptSame, Zenon
  DEF BuildRetry, Goto, ThreadInv, Building, Locked, Completing, idVars, statusVars, ovVars,
      vacuumVars, ghostVars
<1>12. CASE InvalidateSnapshot(t)
  BY ONLY <1>0, <1>t, <1>12, ExceptSame, Zenon
  DEF InvalidateSnapshot, NoSnapshot, ThreadInv, Building, Locked, Completing, idVars, statusVars,
      ovVars, vacuumVars, ghostVars
<1>13. CASE EndReadOnly(t)
  BY ONLY <1>0, <1>t, <1>13, ExceptSame, Zenon
  DEF EndReadOnly, NoSnapshot, ThreadInv, Building, Locked, Completing, idVars, statusVars,
      ovVars, vacuumVars, ghostVars
<1>14. ASSUME NEW o \in {"commit", "abort", "sub"}, CompleteStart(t, o) PROVE ThreadInv(t)'
  BY ONLY <1>0, <1>t, <1>14, ExceptSame, Zenon
  DEF CompleteStart, Goto, ThreadInv, Building, Locked, Completing, idVars, statusVars, ovVars,
      vacuumVars, ghostVars
<1>15. CASE CompletePublish(t)
  BY ONLY <1>0, <1>t, <1>15, ExceptSame, Zenon
  DEF CompletePublish, Goto, ThreadInv, Building, Locked, Completing, idVars, statusVars, ovVars,
      vacuumVars, ghostVars
<1>16. CASE CompleteSlot(t)
  BY ONLY <1>0, <1>t, <1>16, ExceptSame, Zenon
  DEF CompleteSlot, Goto, ThreadInv, Building, Locked, Completing, idVars, statusVars, ovVars,
      vacuumVars, ghostVars
<1>17. CASE CompleteSub(t)
  BY ONLY <1>0, <1>t, <1>17, ExceptSame, Zenon
  DEF CompleteSub, Return, Goto, ThreadInv, Building, Locked, Completing, idVars, statusVars,
      ovVars, vacuumVars, ghostVars
<1>18. CASE CompleteLoadGlobal(t)
  BY ONLY <1>0, <1>t, <1>18, ExceptSame, Zenon
  DEF CompleteLoadGlobal, Goto, ThreadInv, Building, Locked, Completing, idVars, statusVars,
      ovVars, vacuumVars, ghostVars
<1>19. CASE CompleteCompute(t)
  <2>1. TypeInv  BY Zenon DEF IInv
  <2>2. /\ pc[t] = "compute" /\ pc'[t] \in {"check_version", "reset_info"}
        /\ UNCHANGED <<op, id, sub_ids, snapshot, mutex>>
    BY ONLY <2>1, t \in Trans, <1>19, ComputeFacts, Zenon
  <2>. QED  BY ONLY <2>2, <1>t, Zenon DEF ThreadInv, Building, Locked, Completing
<1>20. CASE CompleteCheckVersion(t)
  BY ONLY <1>0, <1>t, <1>20, ExceptSame, Zenon
  DEF CompleteCheckVersion, Goto, ThreadInv, Building, Locked, Completing, idVars, statusVars,
      ovVars, vacuumVars, ghostVars
<1>21. CASE AdvanceOldestActive(t)
  BY ONLY <1>0, <1>t, <1>21, ExceptSame, Zenon
  DEF AdvanceOldestActive, Goto, ThreadInv, Building, Locked, Completing, idVars, statusVars,
      ovVars, vacuumVars, ghostVars
<1>22. CASE CompleteResetInfo(t)
  BY ONLY <1>0, <1>t, <1>22, ExceptSame, Zenon
  DEF CompleteResetInfo, Return, Goto, NoSnapshot, ThreadInv, Building, Locked, Completing,
      idVars, statusVars, ovVars, vacuumVars, ghostVars
<1>23. CASE LogComplete(t)
  BY ONLY <1>0, <1>t, <1>23, ExceptSame, Zenon
  DEF LogComplete, Goto, ThreadInv, Building, Locked, Completing, idVars, statusVars, ovVars,
      vacuumVars, ghostVars
<1>24. CASE LockOldestVisible(t)
  BY ONLY <1>0, <1>t, <1>24, ExceptSame, Zenon
  DEF LockOldestVisible, Goto, ThreadInv, Building, Locked, Completing, idVars, statusVars,
      ovVars, vacuumVars, ghostVars
<1>25. CASE ReadThreshold(t)
  BY ONLY <1>0, <1>t, <1>25, ExceptSame, Zenon
  DEF ReadThreshold, Goto, ThreadInv, Building, Locked, Completing, idVars, statusVars, ovVars,
      vacuumVars, ghostVars
<1>. QED
  BY <1>1, <1>2, <1>3, <1>4, <1>5, <1>6, <1>7, <1>8, <1>9, <1>10, <1>11, <1>12, <1>13, <1>14,
     <1>15, <1>16, <1>17, <1>18, <1>19, <1>20, <1>21, <1>22, <1>23, <1>24, <1>25, Zenon
  DEF ThreadStep


\* A step of a thread keeps its own invariants: its slot.
LEMMA OwnSlot ==
  ASSUME IInv, NEW t \in Trans, ThreadStep(t)
  PROVE  SlotInv(t)'
<1>0. /\ pc \in [Trans -> Labels] /\ op \in [Trans -> {"none", "commit", "abort", "sub"}]
      /\ snapshot \in [Trans -> Snapshots] /\ fresh \in [Trans -> BOOLEAN]
      /\ low \in [Trans -> Lows \cup {MVCCID_NULL}] /\ lowest_visible \in [Trans -> Slots]
      /\ t \in Trans
  BY Zenon DEF IInv, TypeInv
<1>t. ThreadInv(t) /\ SlotInv(t)  BY Zenon DEF IInv
<1>l. /\ lowest_active \in Lows /\ lowest_active <= lowest_active
      /\ MVCCID_ALL_VISIBLE <= lowest_active /\ MVCCID_NULL <= lowest_active
  <2>1. lowest_active \in Lows  BY Zenon DEF IInv, TypeInv
  <2>. QED  BY ONLY <2>1, Bounds DEF Lows
<1>s. lowest_visible[t] \in Slots /\ (\A v \in Lows : v <= v)  BY <1>0, Bounds DEF Lows
<1>c. /\ Slots = Lows \cup {MVCCID_NULL, MVCCID_ALL_VISIBLE}
      /\ MVCCID_NULL \notin Lows /\ MVCCID_ALL_VISIBLE \notin Lows /\ MVCCID_NULL # MVCCID_ALL_VISIBLE
  BY Bounds DEF Slots, Lows
<1>1. CASE GetNewMvccid(t)
  BY ONLY <1>0, <1>t, <1>l, <1>s, <1>c, <1>1, ExceptSame, Zenon
  DEF GetNewMvccid, ThreadInv, SlotInv, Building, Locked, Completing, idVars, statusVars, ovVars,
      vacuumVars, ghostVars
<1>2. CASE GetNewSubtransactionMvccid(t)
  BY ONLY <1>0, <1>t, <1>l, <1>s, <1>c, <1>2, ExceptSame, Zenon
  DEF GetNewSubtransactionMvccid, ThreadInv, SlotInv, Building, Locked, Completing, idVars,
      statusVars, ovVars, vacuumVars, ghostVars
<1>3. CASE BuildStart(t)
  BY ONLY <1>0, <1>t, <1>l, <1>s, <1>c, <1>3, ExceptSame, Zenon
  DEF BuildStart, Goto, ThreadInv, SlotInv, Building, Locked, Completing, idVars, statusVars,
      ovVars, vacuumVars, ghostVars
<1>4. CASE BuildMark(t)
  BY ONLY <1>0, <1>t, <1>l, <1>s, <1>c, <1>4, ExceptSame, Zenon
  DEF BuildMark, Goto, ThreadInv, SlotInv, Building, Locked, Completing, idVars, statusVars,
      ovVars, vacuumVars, ghostVars
<1>5. CASE BuildLoadLowest(t)
  BY ONLY <1>0, <1>t, <1>l, <1>s, <1>c, <1>5, ExceptSame, Zenon
  DEF BuildLoadLowest, Goto, ThreadInv, SlotInv, Building, Locked, Completing, idVars, statusVars,
      ovVars, vacuumVars, ghostVars
<1>6. CASE BuildStoreLowest(t)
  BY ONLY <1>0, <1>t, <1>l, <1>s, <1>c, <1>6, ExceptSame, Zenon
  DEF BuildStoreLowest, Goto, ThreadInv, SlotInv, Building, Locked, Completing, idVars,
      statusVars, ovVars, vacuumVars, ghostVars
<1>7. CASE BuildLoadPosition(t)
  BY ONLY <1>0, <1>t, <1>l, <1>s, <1>c, <1>7, ExceptSame, Zenon
  DEF BuildLoadPosition, Goto, ThreadInv, SlotInv, Building, Locked, Completing, idVars,
      statusVars, ovVars, vacuumVars, ghostVars
<1>8. CASE BuildLoadVersion(t)
  BY ONLY <1>0, <1>t, <1>l, <1>s, <1>c, <1>8, ExceptSame, Zenon
  DEF BuildLoadVersion, Goto, ThreadInv, SlotInv, Building, Locked, Completing, idVars,
      statusVars, ovVars, vacuumVars, ghostVars
<1>9. CASE BuildCopy(t)
  BY ONLY <1>0, <1>t, <1>l, <1>s, <1>c, <1>9, ExceptSame, Zenon
  DEF BuildCopy, Goto, ThreadInv, SlotInv, Building, Locked, Completing, idVars, statusVars,
      ovVars, vacuumVars, ghostVars
<1>10. CASE BuildAccept(t)
  BY ONLY <1>0, <1>t, <1>l, <1>s, <1>c, <1>10, ExceptSame, ZenonT(60)
  DEF BuildAccept, Return, Goto, ThreadInv, SlotInv, Building, Locked, Completing, idVars,
      statusVars, ovVars, vacuumVars, ghostVars
<1>11. CASE BuildRetry(t)
  BY ONLY <1>0, <1>t, <1>l, <1>s, <1>c, <1>11, ExceptSame, Zenon
  DEF BuildRetry, Goto, ThreadInv, SlotInv, Building, Locked, Completing, idVars, statusVars,
      ovVars, vacuumVars, ghostVars
<1>12. CASE InvalidateSnapshot(t)
  BY ONLY <1>0, <1>t, <1>l, <1>s, <1>c, <1>12, ExceptSame, ZenonT(60)
  DEF InvalidateSnapshot, NoSnapshot, ThreadInv, SlotInv, Building, Locked, Completing, idVars,
      statusVars, ovVars, vacuumVars, ghostVars
<1>13. CASE EndReadOnly(t)
  <2>1. /\ pc[t] = "run" /\ lowest_visible'[t] = MVCCID_NULL /\ snapshot'[t] = NoSnapshot
        /\ UNCHANGED <<pc, op, low, fresh, lowest_active>>
    BY ONLY <1>13, <1>0, ExceptSame, Zenon DEF EndReadOnly
  <2>2. ~snapshot'[t].valid  BY ONLY <2>1 DEF NoSnapshot
  <2>. QED
    BY ONLY <2>1, <2>2, <1>t, <1>l, <1>c, Zenon
    DEF ThreadInv, SlotInv, Building, Completing
<1>14. ASSUME NEW o \in {"commit", "abort", "sub"}, CompleteStart(t, o) PROVE SlotInv(t)'
  BY ONLY <1>0, <1>t, <1>l, <1>s, <1>c, <1>14, ExceptSame, Zenon
  DEF CompleteStart, Goto, ThreadInv, SlotInv, Building, Locked, Completing, idVars, statusVars,
      ovVars, vacuumVars, ghostVars
<1>15. CASE CompletePublish(t)
  BY ONLY <1>0, <1>t, <1>l, <1>s, <1>c, <1>15, ExceptSame, Zenon
  DEF CompletePublish, Goto, ThreadInv, SlotInv, Building, Locked, Completing, idVars, statusVars,
      ovVars, vacuumVars, ghostVars
<1>16. CASE CompleteSlot(t)
  <2>1. /\ pc[t] = "slot" /\ pc'[t] = "load_global" /\ op[t] \in {"commit", "abort"}
        /\ UNCHANGED <<op, snapshot>>
        /\ lowest_visible'[t] \in {MVCCID_NULL, id[t], lowest_visible[t]}
        /\ op[t] = "abort" => lowest_visible'[t] = MVCCID_NULL
    BY ONLY <1>16, <1>0, ExceptSame, Zenon DEF CompleteSlot, Goto
  <2>2. id[t] \in Ids \cup {MVCCID_NULL}  BY Zenon DEF IInv, TypeInv
  <2>3. id[t] # MVCCID_ALL_VISIBLE  BY ONLY <2>2, Bounds DEF Ids
  <2>4. lowest_visible[t] # MVCCID_ALL_VISIBLE  BY ONLY <1>t, <2>1, Zenon DEF SlotInv, Building
  <2>5. lowest_visible'[t] # MVCCID_ALL_VISIBLE  BY ONLY <2>1, <2>3, <2>4, <1>c, Zenon
  <2>. QED  BY ONLY <2>1, <2>5, Zenon DEF SlotInv, Building, Completing
<1>17. CASE CompleteSub(t)
  <2>1. /\ pc[t] = "slot" /\ pc'[t] = "run" /\ op[t] = "sub"
        /\ snapshot'[t] = Adjusted(snapshot[t], Last(sub_ids[t]))
        /\ UNCHANGED <<lowest_visible, lowest_active>>
    BY ONLY <1>17, <1>0, ExceptSame, Zenon DEF CompleteSub, Return, Goto
  <2>2. sub_ids[t] # <<>> /\ sub_ids[t] \in Seq(Ids)
    BY <1>t, <2>1, Zenon
    DEF ThreadInv, IInv, TypeInv
  <2>3. Last(sub_ids[t]) \in Ids  BY ONLY <2>2 DEF Last
  <2>4. snapshot'[t].valid = snapshot[t].valid /\ snapshot'[t].lowest = snapshot[t].lowest
    <3>1. snapshot[t] \in Snapshots  BY ONLY <1>0, Zenon
    <3>. QED  BY ONLY <3>1, <2>1, <2>3, AdjustedFacts, Zenon
  <2>. QED  BY ONLY <2>1, <2>4, <1>t, Zenon DEF ThreadInv, SlotInv, Building, Locked, Completing
<1>18. CASE CompleteLoadGlobal(t)
  BY ONLY <1>0, <1>t, <1>l, <1>s, <1>c, <1>18, ExceptSame, Zenon
  DEF CompleteLoadGlobal, Goto, ThreadInv, SlotInv, Building, Locked, Completing, idVars,
      statusVars, ovVars, vacuumVars, ghostVars
<1>19. CASE CompleteCompute(t)
  <2>1. TypeInv  BY Zenon DEF IInv
  <2>2. /\ pc[t] = "compute" /\ pc'[t] \in {"check_version", "reset_info"}
        /\ UNCHANGED <<op, snapshot, fresh, lowest_visible>>
    BY ONLY <2>1, t \in Trans, <1>19, ComputeFacts, Zenon
  <2>. QED  BY ONLY <2>2, <1>t, Zenon DEF ThreadInv, SlotInv, Building, Completing
<1>20. CASE CompleteCheckVersion(t)
  BY ONLY <1>0, <1>t, <1>l, <1>s, <1>c, <1>20, ExceptSame, Zenon
  DEF CompleteCheckVersion, Goto, ThreadInv, SlotInv, Building, Locked, Completing, idVars,
      statusVars, ovVars, vacuumVars, ghostVars
<1>21. CASE AdvanceOldestActive(t)
  BY ONLY <1>0, <1>t, <1>l, <1>s, <1>c, <1>21, ExceptSame, Zenon
  DEF AdvanceOldestActive, Goto, ThreadInv, SlotInv, Building, Locked, Completing, idVars,
      statusVars, ovVars, vacuumVars, ghostVars
<1>22. CASE CompleteResetInfo(t)
  BY ONLY <1>0, <1>t, <1>l, <1>s, <1>c, <1>22, ExceptSame, ZenonT(60)
  DEF CompleteResetInfo, Return, Goto, NoSnapshot, ThreadInv, SlotInv, Building, Locked,
      Completing, idVars, statusVars, ovVars, vacuumVars, ghostVars
<1>23. CASE LogComplete(t)
  <2>1. /\ pc[t] = "eot" /\ pc'[t] = "run" /\ UNCHANGED <<snapshot, lowest_active>>
        /\ lowest_visible'[t] = IF op[t] = "commit" THEN MVCCID_NULL ELSE lowest_visible[t]
    BY ONLY <1>23, <1>0, ExceptSame, Zenon DEF LogComplete, Goto
  <2>2. lowest_visible'[t] = MVCCID_NULL  BY ONLY <1>t, <2>1, Zenon DEF ThreadInv, SlotInv
  <2>3. ~snapshot[t].valid  BY ONLY <1>t, <2>1, Zenon DEF ThreadInv
  <2>. QED  BY ONLY <2>1, <2>2, <2>3, <1>l, <1>c, Zenon DEF SlotInv, Building, Completing
<1>24. CASE LockOldestVisible(t)
  BY ONLY <1>0, <1>t, <1>l, <1>s, <1>c, <1>24, ExceptSame, Zenon
  DEF LockOldestVisible, Goto, ThreadInv, SlotInv, Building, Locked, Completing, idVars,
      statusVars, ovVars, vacuumVars, ghostVars
<1>25. CASE ReadThreshold(t)
  BY ONLY <1>0, <1>t, <1>l, <1>s, <1>c, <1>25, ExceptSame, Zenon
  DEF ReadThreshold, Goto, ThreadInv, SlotInv, Building, Locked, Completing, idVars, statusVars,
      ovVars, vacuumVars, ghostVars
<1>. QED
  BY <1>1, <1>2, <1>3, <1>4, <1>5, <1>6, <1>7, <1>8, <1>9, <1>10, <1>11, <1>12, <1>13, <1>14,
     <1>15, <1>16, <1>17, <1>18, <1>19, <1>20, <1>21, <1>22, <1>23, <1>24, <1>25, Zenon
  DEF ThreadStep
-----------------------------------------------------------------------------
\* A step of another thread neither takes the mutex from a thread nor gives it.
LEMMA MutexOther ==
  ASSUME IInv, NEW t \in Trans, ThreadStep(t), NEW u \in Trans, u # t
  PROVE  u \in mutex' <=> u \in mutex
<1>0. MutexInv /\ ThreadInv(t)  BY Zenon DEF IInv
<1>1. TableFrame(t)  BY TableFrames, Zenon
<1>2. CASE mutex' = mutex  BY <1>2, Zenon
<1>3. CASE Completes(t)  BY <1>3, Zenon DEF Completes, CompleteStart
<1>4. CASE CompleteSlot(t) \/ CompleteSub(t)
  BY <1>0, <1>4, Zenon DEF CompleteSlot, CompleteSub, ThreadInv, Locked, MutexInv
<1>. QED  BY <1>1, <1>2, <1>3, <1>4, Zenon DEF TableFrame

\* advance_oldest_active is all that changes the watermark, and only raises it.
LEMMA WatermarkGrows ==
  ASSUME IInv, NEW t \in Trans, ThreadStep(t)
  PROVE  /\ lowest_active \in Lows /\ lowest_active' \in Lows
         /\ lowest_active' >= lowest_active
<1>1. lowest_active \in Lows  BY Zenon DEF IInv, TypeInv
<1>2. lowest_active' = lowest_active \/ AdvanceOldestActive(t)
  BY TableFrames, Zenon
  DEF TableFrame
<1>3. CASE lowest_active' = lowest_active  BY <1>1, <1>3, Bounds DEF Lows
<1>4. CASE AdvanceOldestActive(t)
  <2>1. low[t] \in Lows /\ lowest_active' = Max({lowest_active, low[t]})
    BY <1>4, Zenon DEF AdvanceOldestActive, IInv, LowInv
  <2>. QED  BY <1>1, <2>1, MaxOfTwo, Zenon
<1>. QED  BY <1>2, <1>3, <1>4, Zenon

\* What a thread knows of itself survives the steps of the others.
LEMMA OtherThread ==
  ASSUME IInv, NEW t \in Trans, ThreadStep(t), NEW u \in Trans, u # t
  PROVE  ThreadInv(u)' /\ SlotInv(u)'
<1>0. ThreadInv(u) /\ SlotInv(u)  BY Zenon DEF IInv
<1>1. Same(u)
  <2>1. TypeInv  BY Zenon DEF IInv
  <2>. QED  BY <2>1, ThreadFrame, Zenon
<1>2. u \in mutex' <=> u \in mutex  BY MutexOther, Zenon
<1>3. \A v \in Slots \cup Lows : v <= lowest_active => v <= lowest_active'
  <2>1. /\ lowest_active \in Lows /\ lowest_active' \in Lows
        /\ lowest_active' >= lowest_active
    BY WatermarkGrows, Zenon
  <2>. QED  BY ONLY <2>1, Bounds DEF Slots, Lows
<1>4. lowest_visible[u] \in Slots
  <2>1. lowest_visible \in [Trans -> Slots]  BY Zenon DEF IInv, TypeInv
  <2>. QED  BY <2>1, Zenon
<1>5. ThreadInv(u)'
  BY ONLY <1>0, <1>1, <1>2, Zenon DEF ThreadInv, Same
<1>6. SlotInv(u)'
  BY ONLY <1>0, <1>1, <1>3, <1>4, Zenon DEF SlotInv, Same
<1>. QED  BY <1>5, <1>6, Zenon

\* The vacuum master changes only its own variables and the oldest visible id.
TableVars == <<mvcc_next_id, current, history, position, lowest_active, lowest_visible, mutex, pc,
               op, id, sub_ids, snapshot, fresh, index, version, low, copied, order, build_from,
               own_done, committing>>

\* update_global_oldest_visible changes nothing but its locals and the oldest visible id.
LEMMA VacuumFrame ==
  ASSUME VacuumStep \/ UNCHANGED vars
  PROVE  UNCHANGED TableVars
<1>1. CASE VacuumStart
  BY <1>1, Zenon DEF VacuumStart, TableVars, idVars, statusVars, ghostVars
<1>2. CASE VacuumScan
  BY <1>2, Zenon DEF VacuumScan, TableVars, idVars, statusVars, ghostVars
<1>3. ASSUME NEW t \in Trans, VacuumWait(t) PROVE UNCHANGED TableVars
  BY <1>3, Zenon DEF VacuumWait, TableVars, idVars, statusVars, ghostVars
<1>4. CASE VacuumRecheck
  BY <1>4, Zenon DEF VacuumRecheck, TableVars, idVars, statusVars, ghostVars
<1>5. CASE VacuumStore
  BY <1>5, Zenon DEF VacuumStore, TableVars, idVars, statusVars, ghostVars
<1>6. CASE UNCHANGED vars
  BY <1>6, Zenon DEF vars, TableVars, idVars, statusVars, ghostVars
<1>. QED  BY <1>1, <1>2, <1>3, <1>4, <1>5, <1>6, Zenon DEF VacuumStep

\* Every thread, through every step.
LEMMA ThreadsStep == IInv /\ [Next]_vars => (\A u \in Trans : ThreadInv(u) /\ SlotInv(u))'
<1>. SUFFICES ASSUME IInv, [Next]_vars, NEW u \in Trans PROVE ThreadInv(u)' /\ SlotInv(u)'
  BY Zenon
<1>1. ASSUME NEW t \in Trans, ThreadStep(t) PROVE ThreadInv(u)' /\ SlotInv(u)'
  <2>1. CASE u = t  BY <1>1, <2>1, OwnThread, OwnSlot, Zenon
  <2>2. CASE u # t  BY <1>1, <2>2, OtherThread, Zenon
  <2>. QED  BY <2>1, <2>2, Zenon
<1>2. CASE VacuumStep \/ UNCHANGED vars
  <2>1. UNCHANGED TableVars  BY <1>2, VacuumFrame, Zenon
  <2>2. ThreadInv(u) /\ SlotInv(u)  BY Zenon DEF IInv
  <2>3. ThreadInv(u)'  BY ONLY <2>1, <2>2, Zenon DEF TableVars, ThreadInv
  <2>4. SlotInv(u)'  BY ONLY <2>1, <2>2, Zenon DEF TableVars, SlotInv
  <2>. QED  BY <2>3, <2>4, Zenon
<1>. QED  BY <1>1, <1>2, Steps, Zenon

\* complete_mvcc and complete_sub_mvcc work under m_active_trans_mutex.
LEMMA MutexStep == IInv /\ [Next]_vars => MutexInv'
<1>. SUFFICES ASSUME IInv, [Next]_vars PROVE MutexInv'  BY Zenon
<1>0. MutexInv  BY Zenon DEF IInv
<1>1. ASSUME NEW t \in Trans, ThreadStep(t) PROVE MutexInv'
  <2>1. TableFrame(t)  BY <1>1, TableFrames, Zenon
  <2>2. mutex' = mutex \/ mutex' = {} \/ mutex' = {t}
    BY <2>1, Zenon DEF TableFrame, Completes, CompleteStart, CompleteSlot, CompleteSub
  <2>. QED  BY ONLY <1>0, <2>2, Zenon DEF MutexInv
<1>2. CASE VacuumStep \/ UNCHANGED vars
  BY <1>0, <1>2, VacuumFrame, Zenon DEF MutexInv, TableVars
<1>. QED  BY <1>1, <1>2, Steps, Zenon

-----------------------------------------------------------------------------
\* What is in a sequence that got one more element, or lost its last.
LEMMA AppendFacts ==
  ASSUME NEW S, NEW s \in Seq(S), NEW e
  PROVE  Members(Append(s, e)) \subseteq Members(s) \cup {e}
  BY DEF Members

\* The last sub-transaction id is one of them, and removing it adds none.
LEMMA FrontFacts ==
  ASSUME NEW S, NEW s \in Seq(S), s # <<>>
  PROVE  Members(Front(s)) \subseteq Members(s) /\ Last(s) \in Members(s)
  BY DEF Front, Last, Members

\* The members of a sequence are of its type.
LEMMA MembersFacts ==
  ASSUME NEW S, NEW s \in Seq(S)
  PROVE  Members(s) \subseteq S
  BY DEF Members

\* The status that a completion prepares.
LEMMA CompleteStartFacts ==
  ASSUME TypeInv, NEW t \in Trans, NEW o, CompleteStart(t, o),
         NEW i, i = IF o = "sub" THEN Last(sub_ids[t]) ELSE id[t]
  PROVE  /\ i \in Ids
         /\ current'.version = current.version + 1
         /\ current'.done = current.done \cup {i}
<1>1. i \in Ids  BY CompletedFacts, Zenon
<1>. DEFINE s == [current EXCEPT !.version = current.version + 1]
<1>2. current \in Status  BY Zenon DEF TypeInv
<1>3. s \in Status /\ s.version = current.version + 1 /\ s.done = current.done
  BY ONLY <1>2 DEF Status
<1>4. current' = SetInactive(s, i)  BY Zenon DEF CompleteStart
<1>. HIDE DEF s
<1>. QED  BY ONLY <1>1, <1>3, <1>4, InactiveFacts, Zenon

\* get_new_mvccid hands out an id that nobody has.
LEMMA IdNew ==
  ASSUME IInv, NEW t \in Trans, GetNewMvccid(t)
  PROVE  IdInv'
<1>0. /\ DoneAssigned /\ IdsAssigned /\ IdsDiffer /\ SubsAssigned /\ SubsDiffer /\ OwnersActive
      /\ t \in Trans
  BY Zenon DEF IInv, IdInv
<1>1. /\ id \in [Trans -> Ids \cup {MVCCID_NULL}] /\ sub_ids \in [Trans -> Seq(Ids)]
      /\ mvcc_next_id \in Lows
  BY Zenon DEF IInv, TypeInv
<1>2. /\ id' = [id EXCEPT ![t] = mvcc_next_id] /\ mvcc_next_id' = mvcc_next_id + 1
      /\ UNCHANGED <<sub_ids, current, op>>
  BY Zenon DEF GetNewMvccid, statusVars
<1>3. id'[t] = mvcc_next_id /\ \A u \in Trans : u # t => id'[u] = id[u]
  BY ONLY <1>0, <1>1, <1>2, ExceptSame, ExceptOther, Zenon
<1>4. /\ mvcc_next_id \notin Assigned /\ Assigned \subseteq Assigned'
      /\ mvcc_next_id < mvcc_next_id' /\ mvcc_next_id # MVCCID_NULL
      /\ \A i \in Ids : i < mvcc_next_id => i < mvcc_next_id' /\ i # mvcc_next_id
  BY ONLY <1>1, <1>2, Bounds DEF Lows, Assigned, Ids
<1>5. \A u \in Trans : Members(sub_ids[u]) \subseteq Ids  BY ONLY <1>1, MembersFacts, Zenon
<1>6. \A u \in Trans : id[u] # MVCCID_NULL => id[u] \in Ids  BY ONLY <1>1, Zenon
<1>7. DoneAssigned'
  BY ONLY <1>0, <1>2, <1>4, Zenon DEF DoneAssigned
<1>8. IdsAssigned'
  BY ONLY <1>0, <1>3, <1>4, <1>6, Zenon DEF IdsAssigned
<1>9. IdsDiffer'
  BY ONLY <1>0, <1>3, <1>4, <1>6, Zenon DEF IdsDiffer, IdsAssigned
<1>10. SubsAssigned'
  BY ONLY <1>0, <1>2, <1>4, <1>5, Zenon DEF SubsAssigned
<1>11. SubsDiffer'
  BY ONLY <1>0, <1>2, <1>3, <1>4, <1>5, Zenon DEF SubsDiffer, SubsAssigned
<1>12. OwnersActive'
  BY ONLY <1>0, <1>2, <1>3, <1>4, Zenon DEF OwnersActive, DoneAssigned
<1>. QED  BY ONLY <1>7, <1>8, <1>9, <1>10, <1>11, <1>12, Zenon DEF IdInv

\* logtb_get_new_subtransaction_mvccid hands out one or two.
LEMMA IdNewSub ==
  ASSUME IInv, NEW t \in Trans, GetNewSubtransactionMvccid(t)
  PROVE  IdInv'
<1>0. /\ DoneAssigned /\ IdsAssigned /\ IdsDiffer /\ SubsAssigned /\ SubsDiffer /\ OwnersActive
      /\ t \in Trans
  BY Zenon DEF IInv, IdInv
<1>1. /\ id \in [Trans -> Ids \cup {MVCCID_NULL}] /\ sub_ids \in [Trans -> Seq(Ids)]
      /\ mvcc_next_id \in Lows
  BY Zenon DEF IInv, TypeInv
<1>2. PICK main, sub :
        /\ main = IF id[t] = MVCCID_NULL THEN mvcc_next_id ELSE id[t]
        /\ sub = IF id[t] = MVCCID_NULL THEN mvcc_next_id + 1 ELSE mvcc_next_id
        /\ id' = [id EXCEPT ![t] = main]
        /\ sub_ids' = [sub_ids EXCEPT ![t] = Append(sub_ids[t], sub)]
        /\ mvcc_next_id' = sub + 1
        /\ UNCHANGED <<current, op>>
  BY Zenon DEF GetNewSubtransactionMvccid, statusVars
<1>3. /\ id'[t] = main /\ sub_ids'[t] = Append(sub_ids[t], sub)
      /\ \A u \in Trans : u # t => id'[u] = id[u] /\ sub_ids'[u] = sub_ids[u]
  BY ONLY <1>0, <1>1, <1>2, ExceptSame, ExceptOther, Zenon
<1>4. id[t] # MVCCID_NULL => id[t] \in Ids /\ id[t] < mvcc_next_id
  BY ONLY <1>0, <1>1, Zenon DEF IdsAssigned
<1>5. /\ mvcc_next_id \notin Assigned /\ Assigned \subseteq Assigned'
      /\ sub < mvcc_next_id' /\ main < mvcc_next_id' /\ main # MVCCID_NULL /\ main # sub
      /\ (main = id[t] /\ id[t] # MVCCID_NULL) \/ main = mvcc_next_id
      /\ \A i \in Ids : i < mvcc_next_id => i < mvcc_next_id' /\ i # mvcc_next_id /\ i # sub
      /\ sub # MVCCID_NULL /\ mvcc_next_id # MVCCID_NULL
  BY ONLY <1>1, <1>2, <1>4, Bounds DEF Lows, Assigned, Ids
<1>6. \A u \in Trans : Members(sub_ids[u]) \subseteq Ids  BY ONLY <1>1, MembersFacts, Zenon
<1>7. \A u \in Trans : id[u] # MVCCID_NULL => id[u] \in Ids  BY ONLY <1>1, Zenon
<1>8. /\ Members(sub_ids'[t]) \subseteq Members(sub_ids[t]) \cup {sub}
      /\ \A u \in Trans : u # t => Members(sub_ids'[u]) = Members(sub_ids[u])
  <2>1. sub_ids[t] \in Seq(Ids)  BY ONLY <1>0, <1>1, Zenon
  <2>2. Members(sub_ids'[t]) \subseteq Members(sub_ids[t]) \cup {sub}
    BY ONLY <1>3, <2>1, AppendFacts, Zenon
  <2>. QED  BY ONLY <1>3, <2>2, Zenon
<1>11. DoneAssigned'
  BY ONLY <1>0, <1>2, <1>5, Zenon DEF DoneAssigned
<1>12. IdsAssigned'
  BY ONLY <1>0, <1>3, <1>5, <1>7, Zenon DEF IdsAssigned
<1>13. IdsDiffer'
  <2>1. \A u \in Trans : id[u] # mvcc_next_id
    BY ONLY <1>0, <1>4, <1>5, <1>7, Zenon DEF IdsAssigned
  <2>2. (main = id[t] /\ id[t] # MVCCID_NULL) \/ main = mvcc_next_id  BY ONLY <1>5, Zenon
  <2>3. \A u \in Trans : u # t => id[u] # main
    BY ONLY <1>0, <2>1, <2>2, Zenon DEF IdsDiffer
  <2>. QED  BY ONLY <1>0, <1>3, <2>3, ZenonT(60) DEF IdsDiffer
<1>14. SubsAssigned'
  <2>. SUFFICES ASSUME NEW u \in Trans, NEW i \in Members(sub_ids'[u])
                PROVE  i < mvcc_next_id'
    BY Zenon DEF SubsAssigned
  <2>1. i = sub \/ i \in Members(sub_ids[u])
    BY ONLY <1>8, u \in Trans, i \in Members(sub_ids'[u]), Zenon
  <2>2. i \in Members(sub_ids[u]) => i \in Ids /\ i < mvcc_next_id
    BY ONLY <1>0, <1>6, u \in Trans, Zenon DEF SubsAssigned
  <2>. QED  BY ONLY <1>5, <2>1, <2>2, Zenon
<1>15. SubsDiffer'
  <2>. SUFFICES ASSUME NEW u \in Trans, NEW v \in Trans
                PROVE  id'[u] \notin Members(sub_ids'[v])
    BY Zenon DEF SubsDiffer
  <2>1. id'[u] # sub
    <3>1. CASE u = t  BY ONLY <1>3, <1>5, <3>1, Zenon
    <3>2. CASE u # t  BY ONLY <1>0, <1>3, <1>5, <1>7, u \in Trans, <3>2, Zenon DEF IdsAssigned
    <3>. QED  BY <3>1, <3>2, Zenon
  <2>2. id'[u] \notin Members(sub_ids[v])
    <3>1. id[u] \notin Members(sub_ids[v])
      BY ONLY <1>0, u \in Trans, v \in Trans, Zenon DEF SubsDiffer
    <3>2. mvcc_next_id \notin Members(sub_ids[v])
      BY ONLY <1>0, <1>5, <1>6, v \in Trans, Zenon DEF SubsAssigned
    <3>. QED  BY ONLY <1>3, <1>5, <3>1, <3>2, u \in Trans, Zenon
  <2>. QED  BY ONLY <1>8, <2>1, <2>2, v \in Trans, Zenon
<1>16. OwnersActive'
  BY ONLY <1>0, <1>2, <1>3, <1>5, ZenonT(60) DEF OwnersActive, DoneAssigned
<1>. QED  BY ONLY <1>11, <1>12, <1>13, <1>14, <1>15, <1>16, Zenon DEF IdInv

\* Only the id of its owner becomes inactive.
LEMMA IdComplete ==
  ASSUME IInv, NEW t \in Trans, Completes(t)
  PROVE  IdInv'
<1>0. /\ DoneAssigned /\ IdsAssigned /\ IdsDiffer /\ SubsAssigned /\ SubsDiffer /\ OwnersActive
      /\ t \in Trans /\ TypeInv /\ ThreadInv(t)
  BY Zenon DEF IInv, IdInv
<1>1. /\ id \in [Trans -> Ids \cup {MVCCID_NULL}] /\ sub_ids \in [Trans -> Seq(Ids)]
      /\ op \in [Trans -> {"none", "commit", "abort", "sub"}] /\ mvcc_next_id \in Lows
  BY Zenon DEF IInv, TypeInv
<1>2. PICK o \in {"commit", "abort", "sub"} : CompleteStart(t, o)  BY Zenon DEF Completes
<1>3. /\ UNCHANGED <<id, sub_ids, mvcc_next_id>> /\ op' = [op EXCEPT ![t] = o]
      /\ pc[t] = "run" /\ (o = "sub" <=> sub_ids[t] # <<>>) /\ id[t] # MVCCID_NULL
  BY <1>2, Zenon DEF CompleteStart, idVars
<1>4. op'[t] = o /\ op[t] = "none" /\ \A u \in Trans : u # t => op'[u] = op[u]
  BY ONLY <1>0, <1>1, <1>3, ExceptSame, ExceptOther, Zenon DEF ThreadInv
<1>5. PICK i : i = IF o = "sub" THEN Last(sub_ids[t]) ELSE id[t]  BY Zenon
<1>6. i \in Ids /\ current'.done = current.done \cup {i}
  BY ONLY <1>0, <1>2, <1>5, CompleteStartFacts, Zenon
<1>7. o = "sub" => i \in Members(sub_ids[t])
  <2>1. sub_ids[t] \in Seq(Ids)  BY ONLY <1>0, <1>1, Zenon
  <2>. QED  BY ONLY <2>1, <1>3, <1>5, FrontFacts, Zenon
<1>8. i < mvcc_next_id
  BY ONLY <1>0, <1>3, <1>5, <1>7, Zenon DEF IdsAssigned, SubsAssigned
<1>9. i \in Assigned  BY ONLY <1>1, <1>6, <1>8, Bounds DEF Assigned, Ids, Lows
<1>10. DoneAssigned'
  BY ONLY <1>0, <1>3, <1>6, <1>9, Zenon DEF DoneAssigned, Assigned
<1>11. ASSUME NEW u \in Trans, id'[u] # MVCCID_NULL, op'[u] \in {"none", "sub"}
       PROVE  id'[u] \notin current'.done
  <2>1. id[u] # MVCCID_NULL /\ op[u] \in {"none", "sub"}
    BY ONLY <1>3, <1>4, <1>11, Zenon
  <2>2. id[u] \notin current.done  BY ONLY <1>0, <2>1, u \in Trans, Zenon DEF OwnersActive
  <2>3. CASE o = "sub"
    BY ONLY <1>0, <1>3, <1>6, <1>7, <2>2, <2>3, u \in Trans, Zenon DEF SubsDiffer
  <2>4. CASE o # "sub"
    <3>1. u # t  BY ONLY <1>2, <1>4, <1>11, <2>4, Zenon
    <3>2. i = id[t]  BY ONLY <1>5, <2>4, Zenon
    <3>. QED  BY ONLY <1>0, <1>3, <1>6, <2>1, <2>2, <3>1, <3>2, u \in Trans, Zenon DEF IdsDiffer
  <2>. QED  BY <2>3, <2>4, Zenon
<1>12. IdsAssigned' /\ IdsDiffer' /\ SubsAssigned' /\ SubsDiffer'
  BY ONLY <1>0, <1>3, Zenon DEF IdsAssigned, IdsDiffer, SubsAssigned, SubsDiffer
<1>13. OwnersActive'  BY ONLY <1>11, Zenon DEF OwnersActive
<1>. QED  BY ONLY <1>10, <1>12, <1>13, Zenon DEF IdInv

\* Ids, through every step.
LEMMA IdStep == IInv /\ [Next]_vars => IdInv'
<1>. SUFFICES ASSUME IInv, [Next]_vars PROVE IdInv'  BY Zenon
<1>0. DoneAssigned /\ IdsAssigned /\ IdsDiffer /\ SubsAssigned /\ SubsDiffer /\ OwnersActive
  BY Zenon DEF IInv, IdInv
<1>t. /\ id \in [Trans -> Ids \cup {MVCCID_NULL}] /\ sub_ids \in [Trans -> Seq(Ids)]
      /\ op \in [Trans -> {"none", "commit", "abort", "sub"}]
  BY Zenon DEF IInv, TypeInv
<1>1. ASSUME NEW t \in Trans, ThreadStep(t) PROVE IdInv'
  <2>0. TableFrame(t) /\ ThreadInv(t) /\ t \in Trans  BY <1>1, TableFrames, Zenon DEF IInv
  <2>1. CASE GetNewMvccid(t) \/ GetNewSubtransactionMvccid(t) \/ Completes(t)
    BY <2>1, IdNew, IdNewSub, IdComplete, Zenon
  <2>2. CASE CompleteSub(t)
    <3>1. /\ UNCHANGED <<mvcc_next_id, id, current>> /\ op[t] = "sub"
          /\ sub_ids' = [sub_ids EXCEPT ![t] = Front(sub_ids[t])]
          /\ op' = [op EXCEPT ![t] = "none"]
      BY <2>2, Zenon DEF CompleteSub
    <3>2. /\ sub_ids'[t] = Front(sub_ids[t]) /\ op'[t] = "none"
          /\ \A u \in Trans : u # t => sub_ids'[u] = sub_ids[u] /\ op'[u] = op[u]
      BY ONLY <1>t, <2>0, <3>1, ExceptSame, ExceptOther, Zenon
    <3>3. sub_ids[t] \in Seq(Ids) /\ sub_ids[t] # <<>>
      BY ONLY <1>t, <2>0, <3>1, Zenon DEF ThreadInv
    <3>4. \A u \in Trans : Members(sub_ids'[u]) \subseteq Members(sub_ids[u])
      BY ONLY <3>2, <3>3, FrontFacts, Zenon
    <3>5. DoneAssigned'  BY ONLY <1>0, <3>1, <3>2, <3>4, Zenon DEF DoneAssigned, Assigned
    <3>6. IdsAssigned' /\ IdsDiffer'
      BY ONLY <1>0, <3>1, <3>2, <3>4, Zenon
      DEF IdsAssigned, IdsDiffer
    <3>7. SubsAssigned'  BY ONLY <1>0, <3>1, <3>2, <3>4, Zenon DEF SubsAssigned
    <3>8. SubsDiffer'  BY ONLY <1>0, <3>1, <3>2, <3>4, Zenon DEF SubsDiffer
    <3>9. OwnersActive'  BY ONLY <1>0, <3>1, <3>2, <3>4, Zenon DEF OwnersActive
    <3>. QED  BY ONLY <3>5, <3>6, <3>7, <3>8, <3>9, Zenon DEF IdInv
  <2>3. CASE CompleteResetInfo(t)
    <3>1. /\ UNCHANGED <<mvcc_next_id, sub_ids, current, op>>
          /\ id' = [id EXCEPT ![t] = MVCCID_NULL]
      BY <2>3, Zenon DEF CompleteResetInfo, statusVars
    <3>2. id'[t] = MVCCID_NULL /\ \A u \in Trans : u # t => id'[u] = id[u]
      BY ONLY <1>t, <2>0, <3>1, ExceptSame, ExceptOther, Zenon
    <3>3. \A u \in Trans : MVCCID_NULL \notin Members(sub_ids[u])
      <4>1. \A u \in Trans : Members(sub_ids[u]) \subseteq Ids  BY ONLY <1>t, MembersFacts, Zenon
      <4>2. MVCCID_NULL \notin Ids  BY Bounds DEF Ids
      <4>. QED  BY ONLY <4>1, <4>2, Zenon
    <3>5. DoneAssigned'  BY ONLY <1>0, <3>1, <3>2, <3>3, Zenon DEF DoneAssigned, Assigned
    <3>6. IdsAssigned' /\ IdsDiffer'
      BY ONLY <1>0, <3>1, <3>2, <3>3, Zenon
      DEF IdsAssigned, IdsDiffer
    <3>7. SubsAssigned'  BY ONLY <1>0, <3>1, <3>2, <3>3, Zenon DEF SubsAssigned
    <3>8. SubsDiffer'  BY ONLY <1>0, <3>1, <3>2, <3>3, Zenon DEF SubsDiffer
    <3>9. OwnersActive'  BY ONLY <1>0, <3>1, <3>2, <3>3, Zenon DEF OwnersActive
    <3>. QED  BY ONLY <3>5, <3>6, <3>7, <3>8, <3>9, Zenon DEF IdInv
  <2>4. CASE LogComplete(t)
    <3>1. /\ UNCHANGED <<mvcc_next_id, id, sub_ids, current>> /\ pc[t] = "eot"
          /\ op' = [op EXCEPT ![t] = "none"]
      BY <2>4, Zenon DEF LogComplete, idVars, statusVars
    <3>2. id[t] = MVCCID_NULL /\ \A u \in Trans : u # t => op'[u] = op[u]
      BY ONLY <1>t, <2>0, <3>1, ExceptOther, Zenon DEF ThreadInv
    <3>5. DoneAssigned'  BY ONLY <1>0, <3>1, <3>2, Zenon DEF DoneAssigned, Assigned
    <3>6. IdsAssigned' /\ IdsDiffer'  BY ONLY <1>0, <3>1, <3>2, Zenon DEF IdsAssigned, IdsDiffer
    <3>7. SubsAssigned'  BY ONLY <1>0, <3>1, <3>2, Zenon DEF SubsAssigned
    <3>8. SubsDiffer'  BY ONLY <1>0, <3>1, <3>2, Zenon DEF SubsDiffer
    <3>9. OwnersActive'  BY ONLY <1>0, <3>1, <3>2, Zenon DEF OwnersActive
    <3>. QED  BY ONLY <3>5, <3>6, <3>7, <3>8, <3>9, Zenon DEF IdInv
  <2>5. CASE UNCHANGED <<mvcc_next_id, id, sub_ids, current, op>>
    BY ONLY <1>0, <2>5, Zenon
    DEF IdInv, DoneAssigned, IdsAssigned, IdsDiffer, SubsAssigned, SubsDiffer, OwnersActive,
      Assigned
  <2>. QED  BY ONLY <2>0, <2>1, <2>2, <2>3, <2>4, <2>5, Zenon DEF TableFrame
<1>2. CASE VacuumStep \/ UNCHANGED vars
  <2>1. UNCHANGED TableVars  BY <1>2, VacuumFrame, Zenon
  <2>. QED  BY ONLY <1>0, <2>1, Zenon
    DEF IdInv, DoneAssigned, IdsAssigned, IdsDiffer, SubsAssigned, SubsDiffer, OwnersActive,
      Assigned,
        TableVars
<1>. QED  BY <1>1, <1>2, Steps, Zenon

=============================================================================
