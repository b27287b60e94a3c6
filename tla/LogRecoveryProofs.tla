-------------------------- MODULE LogRecoveryProofs --------------------------
(***************************************************************************)
(* Proofs about LogRecovery, for any number of transactions, any pages and *)
(* any workload: the pages follow the log through every crash, and what    *)
(* the client was told is committed is in the log that survives.           *)
(*                                                                         *)
(* The inductive invariant says, for each page, up to which record its     *)
(* copy on disk has the changes of the log: not before the record where    *)
(* recovery would start (so redo skips none) and not after the flushed     *)
(* part of the log (so a crash leaves none that the log has lost).         *)
(***************************************************************************)
EXTENDS LogRecovery, FiniteSetTheorems, TLAPS

\* The elements of a sequence.
Members(s) == {s[i] : i \in 1 .. Len(s)}

Sorted(s) == \A i, j \in 1 .. Len(s) : i < j => s[i] < s[j]

\* q is the beginning of s.
Prefix(q, s) == Len(q) <= Len(s) /\ \A i \in 1 .. Len(q) : q[i] = s[i]

\* The records of log l with redo for page p.
Redos(l, p) == {i \in 1 .. Len(l) : HasRedo(l[i]) /\ l[i].page = p}

\* Those up to record d.
UpTo(l, p, d) == {i \in Redos(l, p) : i <= d}

\* Page q has the changes of log l to page p up to some record: at least to
\* the one before a, and at most to f.
Covers(q, l, p, a, f) ==
  \E d \in 0 .. Len(l) : a <= d + 1 /\ d <= f /\ Members(q) = UpTo(l, p, d)

RedoAhead == phase \in {"analysis", "redo"}

Serving == phase \in {"run", "chkpt"}

Types ==
  /\ log \in Seq(Members(log)) /\ flushed \in Nat /\ hdr \in Nat
  /\ buf \in [Pages -> Seq(Nat)] /\ disk \in [Pages -> Seq(Nat)]
  /\ chk \in [pc : {"idle", "pages", "table", "header"}, start : Nat]
  /\ phase \in {"run", "analysis", "redo", "postpone", "undo", "chkpt"}

\* A checkpoint runs only when recovery does not, and its start is in the log.
ChkInv == chk.pc # "idle" => Serving /\ chk.start \in 1 .. Len(log)

\* Page p: in the buffer the log in log order, but for what redo will add to
\* it; on disk a beginning of it, which has all that the records before the one
\* where recovery would start did to it, and nothing that is not flushed.
PageInv(p) ==
  /\ Sorted(buf[p]) /\ Prefix(disk[p], buf[p])
  /\ RedoAhead => buf[p] = disk[p]
  /\ ~RedoAhead => Members(buf[p]) = Redos(log, p)
  /\ Covers(disk[p], log, p, AnalysisStart, flushed)
  /\ chk.pc \in {"table", "header"} => Covers(disk[p], log, p, chk.start, flushed)

Fields ==
  {"st", "tail", "undo", "posp", "topres", "tposp", "sposp", "topops", "cache", "pend", "pc", "n"}

\* A descriptor: what log_commit flushes the log up to is in the log.
TranInv(t) ==
  /\ DOMAIN tran[t] = Fields
  /\ tran[t].pc = "cwp_state" => tran[t].tposp \in Nat
  /\ tran[t].pc = "flush" => tran[t].tail \in Nat /\ tran[t].tail \in Of(t, "COMMIT")

TransInv == Serving => DOMAIN tran = Trans /\ \A t \in Trans : TranInv(t)

IInv ==
  /\ Types /\ ChkInv /\ TransInv /\ AckedIsDurable
  /\ \A p \in Pages : PageInv(p)
-----------------------------------------------------------------------------
(* Numbers and sequences. *)

\* A nonempty set of naturals has a least element.
LEMMA Least ==
  ASSUME NEW S \in SUBSET Nat, S # {}
  PROVE  \E x \in S : \A y \in S : x <= y
<1>1. PICK x \in S : \A y \in S : ~(<<y, x>> \in OpToRel(<, Nat))
  BY NatLessThanWellFounded, WFMin, Zenon
<1>2. \A y \in S : ~(y < x)  BY <1>1, Zenon DEF OpToRel
<1>. QED  BY <1>2

\* What Max returns, for a bounded set.
LEMMA MaxFacts ==
  ASSUME NEW n \in Nat, NEW S \in SUBSET (0 .. n), S # {}
  PROVE  Max(S) \in S /\ \A y \in S : y <= Max(S)
<1>1. {n - x : x \in S} \in SUBSET Nat /\ {n - x : x \in S} # {}  OBVIOUS
<1>2. PICK z \in {n - x : x \in S} : \A y \in {n - x : x \in S} : z <= y
  BY ONLY <1>1, Least, Zenon
<1>3. PICK m \in S : z = n - m  BY <1>2
<1>4. \A y \in S : m >= y
  <2>. SUFFICES ASSUME NEW y \in S PROVE m >= y  BY Zenon
  <2>1. z <= n - y  BY ONLY <1>2, y \in S, Zenon
  <2>. QED  BY ONLY <1>3, <2>1, S \in SUBSET (0 .. n), n \in Nat, y \in S
<1>5. Max(S) \in S /\ \A y \in S : Max(S) >= y  BY ONLY <1>4, m \in S, Zenon DEF Max
<1>. QED  BY ONLY <1>5, S \in SUBSET (0 .. n)

\* The larger of two.
LEMMA MaxOfTwo ==
  ASSUME NEW a \in Nat, NEW b \in Nat
  PROVE  Max({a, b}) \in Nat /\ a <= Max({a, b}) /\ b <= Max({a, b})
<1>1. \E x \in {a, b} : \A y \in {a, b} : x >= y  OBVIOUS
<1>2. Max({a, b}) \in {a, b} /\ \A y \in {a, b} : Max({a, b}) >= y  BY ONLY <1>1, Zenon DEF Max
<1>. QED  BY <1>2

\* The elements of set S up to i.
Below(S, i) == {j \in S : j <= i}

\* There are finitely many, and one more for each element.
LEMMA Ranks ==
  ASSUME NEW n \in Nat, NEW S \in SUBSET (1 .. n)
  PROVE  /\ IsFiniteSet(S) /\ Cardinality(S) \in Nat
         /\ \A i : /\ Cardinality(Below(S, i)) \in Nat
                   /\ Cardinality(Below(S, i)) <= Cardinality(S)
         /\ \A i, j \in S : i < j => Cardinality(Below(S, i)) < Cardinality(Below(S, j))
<1>0. \A k \in S : k \in Int  OBVIOUS
<1>1. IsFiniteSet(S)
  <2>1. IsFiniteSet(1 .. n)  BY FS_Interval, 1 \in Int, n \in Int, Zenon
  <2>. QED  BY <2>1, FS_Subset, Zenon
<1>2. Cardinality(S) \in Nat  BY <1>1, FS_CardinalityType, Zenon
<1>3. \A i : /\ IsFiniteSet(Below(S, i)) /\ Cardinality(Below(S, i)) \in Nat
             /\ Cardinality(Below(S, i)) <= Cardinality(S)
  <2>. SUFFICES ASSUME NEW i
                PROVE  /\ IsFiniteSet(Below(S, i)) /\ Cardinality(Below(S, i)) \in Nat
                       /\ Cardinality(Below(S, i)) <= Cardinality(S)
    BY Zenon
  <2>1. Below(S, i) \in SUBSET S  BY Zenon DEF Below
  <2>2. IsFiniteSet(Below(S, i)) /\ Cardinality(Below(S, i)) <= Cardinality(S)
    BY ONLY <1>1, <2>1, FS_Subset, Zenon
  <2>. QED  BY ONLY <2>2, FS_CardinalityType, Zenon
<1>4. ASSUME NEW i \in S, NEW j \in S, i < j
      PROVE  Cardinality(Below(S, i)) < Cardinality(Below(S, j))
  <2>0. i \in Int /\ j \in Int /\ \A k \in S : k \in Int  BY ONLY <1>0, <1>4, Zenon
  <2>1. j \notin Below(S, i) /\ Below(S, i) \cup {j} \in SUBSET Below(S, j)
    <3>1. ~(j <= i) /\ j <= j /\ \A k \in S : k <= i => k <= j  BY ONLY <1>4, <2>0
    <3>. QED  BY ONLY <1>4, <3>1, Zenon DEF Below
  <2>2. Cardinality(Below(S, i) \cup {j}) = Cardinality(Below(S, i)) + 1
    BY ONLY <1>3, <2>1, FS_AddElement, Zenon
  <2>3. Cardinality(Below(S, i) \cup {j}) <= Cardinality(Below(S, j))
    BY ONLY <1>3, <2>1, FS_Subset, Zenon
  <2>. QED  BY ONLY <1>3, <2>2, <2>3
<1>. QED  BY <1>1, <1>2, <1>3, <1>4, Zenon

\* After an element that is not the last comes another.
LEMMA NextRank ==
  ASSUME NEW n \in Nat, NEW S \in SUBSET (1 .. n), NEW i \in Nat,
         Cardinality(Below(S, i)) < Cardinality(S)
  PROVE  \E m \in S : Cardinality(Below(S, m)) = Cardinality(Below(S, i)) + 1
<1>. DEFINE T == {j \in S : j > i}
<1>0. /\ IsFiniteSet(S) /\ Cardinality(S) \in Nat /\ Cardinality(Below(S, i)) \in Nat
  BY Ranks, Zenon
<1>s. \A k \in S : k \in Nat  OBVIOUS
<1>1. T # {}
  <2>. SUFFICES ASSUME T = {} PROVE FALSE  OBVIOUS
  <2>1. \A k \in S : k <= i \/ k > i  BY ONLY <1>s, i \in Nat
  <2>2. Below(S, i) = S  BY ONLY <2>1, T = {}, Zenon DEF Below
  <2>. QED  BY ONLY <1>0, <2>2, Cardinality(Below(S, i)) < Cardinality(S)
<1>2. PICK m \in T : \A y \in T : m <= y
  <2>1. T \in SUBSET Nat  BY ONLY <1>s, Zenon
  <2>. HIDE DEF T
  <2>. QED  BY ONLY <1>1, <2>1, Least, Zenon
<1>3. Below(S, m) = Below(S, i) \cup {m} /\ m \notin Below(S, i) /\ m \in S
  <2>1. m \in S /\ m > i /\ \A k \in S : k > i => m <= k  BY ONLY <1>2, Zenon
  <2>2. ~(m <= i) /\ \A k \in S : k <= m <=> k <= i \/ k = m  BY ONLY <1>s, <2>1, i \in Nat
  <2>. QED  BY ONLY <2>1, <2>2, Zenon DEF Below
<1>4. IsFiniteSet(Below(S, i))
  <2>1. Below(S, i) \in SUBSET S  BY Zenon DEF Below
  <2>. QED  BY ONLY <1>0, <2>1, FS_Subset, Zenon
<1>5. Cardinality(Below(S, i) \cup {m}) = Cardinality(Below(S, i)) + 1
  BY ONLY <1>3, <1>4, FS_AddElement, Zenon
<1>. QED  BY ONLY <1>3, <1>5, Zenon

\* So there is an element of every rank.
LEMMA EveryRank ==
  ASSUME NEW n \in Nat, NEW S \in SUBSET (1 .. n), NEW k \in 1 .. Cardinality(S)
  PROVE  \E m \in S : Cardinality(Below(S, m)) = k
<1>. DEFINE Bad == {j \in 1 .. Cardinality(S) : \A m \in S : Cardinality(Below(S, m)) # j}
<1>0. Cardinality(S) \in Nat  BY Ranks, Zenon
<1>. SUFFICES ASSUME Bad # {} PROVE FALSE  BY Zenon
<1>1. PICK j \in Bad : \A y \in Bad : j <= y
  <2>1. Bad \in SUBSET Nat  BY <1>0
  <2>. HIDE DEF Bad
  <2>. QED  BY ONLY <2>1, Bad # {}, Least, Zenon
<1>2. j \in 1 .. Cardinality(S) /\ j - 1 \in Nat /\ j - 1 \notin Bad /\ j - 1 < Cardinality(S)
  BY <1>0, <1>1
<1>3. \E i \in Nat : Cardinality(Below(S, i)) = j - 1
  <2>1. CASE j = 1
    <3>1. \A x \in S : ~(x <= 0)  OBVIOUS
    <3>2. Below(S, 0) = {}  BY ONLY <3>1, Zenon DEF Below
    <3>3. Cardinality(Below(S, 0)) = 0  BY ONLY <3>2, FS_EmptySet, Zenon
    <3>. QED  BY ONLY <2>1, <3>3
  <2>2. CASE j # 1
    <3>1. j - 1 \in 1 .. Cardinality(S)  BY ONLY <1>0, <1>2, <2>2
    <3>2. \E i \in S : Cardinality(Below(S, i)) = j - 1  BY ONLY <1>2, <3>1, Zenon
    <3>. QED  BY <3>2
  <2>. QED  BY ONLY <2>1, <2>2, Zenon
<1>4. PICK i \in Nat : Cardinality(Below(S, i)) = j - 1  BY ONLY <1>3, Zenon
<1>5. Cardinality(Below(S, i)) < Cardinality(S)  BY ONLY <1>2, <1>4, Zenon
<1>6. \E m \in S : Cardinality(Below(S, m)) = Cardinality(Below(S, i)) + 1
  BY <1>5, NextRank, Zenon
<1>7. Cardinality(Below(S, i)) + 1 = j  BY ONLY <1>0, <1>2, <1>4
<1>. QED  BY ONLY <1>1, <1>6, <1>7, Zenon

\* The order in which log_recovery_redo reads the records.
LEMMA InOrder ==
  ASSUME NEW n \in Nat, NEW S \in SUBSET (1 .. n)
  PROVE  /\ InLogOrder(S) \in Seq(Nat)
         /\ Sorted(InLogOrder(S)) /\ Members(InLogOrder(S)) = S
<1>. DEFINE q == InLogOrder(S)
            c == Cardinality(S)
<1>0. /\ c \in Nat
      /\ \A i : Cardinality(Below(S, i)) \in Nat /\ Cardinality(Below(S, i)) <= c
      /\ \A i, j \in S : i < j => Cardinality(Below(S, i)) < Cardinality(Below(S, j))
  BY Ranks, Zenon
<1>s. \A k \in S : k \in Int  OBVIOUS
<1>1. q = [k \in 1 .. c |-> CHOOSE i \in S : Cardinality(Below(S, i)) = k]
  BY Zenon DEF InLogOrder, Below
<1>. HIDE DEF q, c
<1>2. \A k \in 1 .. c : q[k] \in S /\ Cardinality(Below(S, q[k])) = k
  <2>. SUFFICES ASSUME NEW k \in 1 .. c PROVE q[k] \in S /\ Cardinality(Below(S, q[k])) = k
    BY Zenon
  <2>1. q[k] = CHOOSE i \in S : Cardinality(Below(S, i)) = k  BY ONLY <1>1, k \in 1 .. c, Zenon
  <2>2. \E i \in S : Cardinality(Below(S, i)) = k  BY EveryRank, k \in 1 .. c, Zenon DEF c
  <2>. QED  BY ONLY <2>1, <2>2, Zenon
<1>3. q \in Seq(Nat) /\ Len(q) = c
  <2>1. S \in SUBSET Nat  OBVIOUS
  <2>2. q \in [1 .. c -> Nat]  BY ONLY <1>1, <1>2, <2>1, Zenon
  <2>. QED  BY ONLY <1>0, <2>2
<1>4. Sorted(q)
  <2>. SUFFICES ASSUME NEW i \in 1 .. c, NEW j \in 1 .. c, i < j PROVE q[i] < q[j]
    BY <1>3, Zenon DEF Sorted
  <2>1. /\ q[i] \in S /\ q[j] \in S
        /\ Cardinality(Below(S, q[i])) = i /\ Cardinality(Below(S, q[j])) = j
    BY ONLY <1>2, i \in 1 .. c, j \in 1 .. c, Zenon
  <2>2. ~(q[j] < q[i]) /\ q[i] # q[j]
    <3>1. ~(j < i) /\ i # j  BY ONLY <1>0, i \in 1 .. c, j \in 1 .. c, i < j
    <3>. QED  BY ONLY <1>0, <2>1, <3>1, Zenon
  <2>3. q[i] \in Int /\ q[j] \in Int  BY ONLY <1>s, <2>1, Zenon
  <2>. QED  BY ONLY <2>2, <2>3
<1>5. Members(q) = S
  <2>1. Members(q) \subseteq S  BY ONLY <1>2, <1>3, Zenon DEF Members
  <2>2. ASSUME NEW i \in S PROVE i \in Members(q)
    <3>. DEFINE k == Cardinality(Below(S, i))
    <3>1. k \in 1 .. c
      <4>1. i \in Below(S, i)  BY ONLY <2>2, S \in SUBSET (1 .. n), n \in Nat DEF Below
      <4>2. k # 0
        <5>1. IsFiniteSet(Below(S, i))
          <6>1. Below(S, i) \in SUBSET S  BY Zenon DEF Below
          <6>2. IsFiniteSet(S)  BY Ranks, Zenon
          <6>. QED  BY ONLY <6>1, <6>2, FS_Subset, Zenon
        <5>. QED  BY ONLY <4>1, <5>1, FS_EmptySet, Zenon
      <4>. QED  BY ONLY <1>0, <4>2
    <3>2. q[k] \in S /\ Cardinality(Below(S, q[k])) = k  BY ONLY <1>2, <3>1, Zenon
    <3>3. ~(q[k] < i) /\ ~(i < q[k])
      <4>1. ~(k < k)  BY ONLY <3>1, <1>0
      <4>. QED  BY ONLY <1>0, <2>2, <3>2, <4>1, Zenon
    <3>4. q[k] \in Int /\ i \in Int  BY ONLY <1>s, <2>2, <3>2, Zenon
    <3>5. q[k] = i
      <4>. HIDE DEF k
      <4>. QED  BY ONLY <3>3, <3>4
    <3>. QED  BY ONLY <1>3, <3>1, <3>5, Zenon DEF Members
  <2>. QED  BY ONLY <2>1, <2>2, Zenon
<1>. QED  BY ONLY <1>3, <1>4, <1>5, Zenon DEF q
-----------------------------------------------------------------------------
(* Pages. *)

\* The changes of a page are LSAs.
LEMMA MembersFacts ==
  ASSUME NEW q \in Seq(Nat)
  PROVE  /\ Len(q) \in Nat /\ \A i \in Members(q) : i \in Nat
         /\ \A i \in 1 .. Len(q) : q[i] \in Members(q) /\ q[i] \in Nat
  BY DEF Members

\* A change that is logged is added to the page.
LEMMA AppendPage ==
  ASSUME NEW q \in Seq(Nat), NEW n \in Nat, Sorted(q), \A i \in Members(q) : i < n
  PROVE  /\ Append(q, n) \in Seq(Nat) /\ Sorted(Append(q, n))
         /\ Members(Append(q, n)) = Members(q) \cup {n}
         /\ \A x \in Seq(Nat) : Prefix(x, q) => Prefix(x, Append(q, n))
<1>. DEFINE r == Append(q, n)
<1>1. /\ r \in Seq(Nat) /\ Len(q) \in Nat /\ Len(r) = Len(q) + 1
      /\ \A i \in 1 .. Len(q) : r[i] = q[i]
      /\ r[Len(q) + 1] = n
  OBVIOUS
<1>2. \A i \in 1 .. Len(q) : q[i] < n  BY Zenon DEF Members
<1>. HIDE DEF r
<1>3. \A i \in 1 .. Len(r) : i \in 1 .. Len(q) \/ i = Len(q) + 1  BY ONLY <1>1
<1>4. Sorted(r)
  <2>. SUFFICES ASSUME NEW i \in 1 .. Len(r), NEW j \in 1 .. Len(r), i < j PROVE r[i] < r[j]
    BY Zenon DEF Sorted
  <2>1. i \in 1 .. Len(q)  BY ONLY <1>1, i \in 1 .. Len(r), j \in 1 .. Len(r), i < j
  <2>2. CASE j \in 1 .. Len(q)  BY ONLY <1>1, <2>1, <2>2, i < j, Sorted(q), Zenon DEF Sorted
  <2>3. CASE j = Len(q) + 1  BY ONLY <1>1, <1>2, <2>1, <2>3, Zenon
  <2>. QED  BY ONLY <1>3, <2>2, <2>3, j \in 1 .. Len(r), Zenon
<1>5. Members(r) = Members(q) \cup {n}
  <2>1. \A i \in 1 .. Len(q) : i \in 1 .. Len(r)  BY ONLY <1>1
  <2>2. Len(q) + 1 \in 1 .. Len(r)  BY ONLY <1>1
  <2>. QED  BY ONLY <1>1, <1>3, <2>1, <2>2, Zenon DEF Members
<1>6. ASSUME NEW x \in Seq(Nat), Prefix(x, q) PROVE Prefix(x, r)
  <2>1. Len(x) \in Nat /\ Len(x) <= Len(q) /\ \A i \in 1 .. Len(x) : x[i] = q[i]
    BY <1>6 DEF Prefix
  <2>2. Len(x) <= Len(r) /\ \A i \in 1 .. Len(x) : i \in 1 .. Len(q)  BY ONLY <1>1, <2>1
  <2>. QED  BY ONLY <1>1, <2>1, <2>2, Zenon DEF Prefix
<1>. QED  BY ONLY <1>1, <1>4, <1>5, <1>6, Zenon DEF r

\* Redo adds changes to the page.
LEMMA ConcatPages ==
  ASSUME NEW q \in Seq(Nat), NEW s \in Seq(Nat), Sorted(q), Sorted(s),
         \A i \in Members(q), j \in Members(s) : i < j
  PROVE  /\ q \o s \in Seq(Nat) /\ Sorted(q \o s)
         /\ Members(q \o s) = Members(q) \cup Members(s) /\ Prefix(q, q \o s)
<1>. DEFINE r == q \o s
<1>1. /\ r \in Seq(Nat) /\ Len(q) \in Nat /\ Len(s) \in Nat /\ Len(r) = Len(q) + Len(s)
      /\ \A i \in 1 .. Len(q) : r[i] = q[i]
      /\ \A i \in 1 .. Len(r) : i \notin 1 .. Len(q) => r[i] = s[i - Len(q)]
  OBVIOUS
<1>2. \A i \in 1 .. Len(q), j \in 1 .. Len(s) : q[i] < s[j]  BY Zenon DEF Members
<1>. HIDE DEF r
<1>3. \A i \in 1 .. Len(r) : i \notin 1 .. Len(q) => i - Len(q) \in 1 .. Len(s)  BY ONLY <1>1
<1>4. Sorted(r)
  <2>. SUFFICES ASSUME NEW i \in 1 .. Len(r), NEW j \in 1 .. Len(r), i < j PROVE r[i] < r[j]
    BY Zenon DEF Sorted
  <2>1. CASE j \in 1 .. Len(q)
    <3>1. i \in 1 .. Len(q)  BY ONLY <1>1, <2>1, i \in 1 .. Len(r), i < j
    <3>. QED  BY ONLY <1>1, <2>1, <3>1, i < j, Sorted(q), Zenon DEF Sorted
  <2>2. CASE j \notin 1 .. Len(q) /\ i \in 1 .. Len(q)
    BY ONLY <1>1, <1>2, <1>3, <2>2, j \in 1 .. Len(r), Zenon
  <2>3. CASE j \notin 1 .. Len(q) /\ i \notin 1 .. Len(q)
    <3>1. i - Len(q) < j - Len(q)  BY ONLY <1>1, i \in 1 .. Len(r), j \in 1 .. Len(r), i < j
    <3>. QED
      BY ONLY <1>1, <1>3, <2>3, <3>1, i \in 1 .. Len(r), j \in 1 .. Len(r), Sorted(s), Zenon
      DEF Sorted
  <2>. QED  BY ONLY <2>1, <2>2, <2>3, Zenon
<1>5. Members(r) = Members(q) \cup Members(s)
  <2>1. \A i \in 1 .. Len(q) : i \in 1 .. Len(r)  BY ONLY <1>1
  <2>2. \A j \in 1 .. Len(s) : \E i \in 1 .. Len(r) : i \notin 1 .. Len(q) /\ i - Len(q) = j
    <3>. SUFFICES ASSUME NEW j \in 1 .. Len(s)
                  PROVE  \E i \in 1 .. Len(r) : i \notin 1 .. Len(q) /\ i - Len(q) = j
      BY Zenon
    <3>1. j + Len(q) \in 1 .. Len(r) /\ j + Len(q) \notin 1 .. Len(q) /\ j + Len(q) - Len(q) = j
      BY ONLY <1>1, j \in 1 .. Len(s)
    <3>2. PICK i : i = j + Len(q)  BY ONLY Zenon
    <3>3. i \in 1 .. Len(r) /\ i \notin 1 .. Len(q) /\ i - Len(q) = j  BY ONLY <3>1, <3>2
    <3>. QED  BY ONLY <3>3, Zenon
  <2>3. ASSUME NEW j \in 1 .. Len(s) PROVE s[j] \in Members(r)
    <3>1. PICK i \in 1 .. Len(r) : i \notin 1 .. Len(q) /\ i - Len(q) = j  BY ONLY <2>2, <2>3, Zenon
    <3>2. r[i] = s[j]  BY ONLY <1>1, <3>1, Zenon
    <3>. QED  BY ONLY <3>1, <3>2, Zenon DEF Members
  <2>4. ASSUME NEW i \in 1 .. Len(q) PROVE q[i] \in Members(r)
    BY ONLY <1>1, <2>1, <2>4, Zenon DEF Members
  <2>5. ASSUME NEW i \in 1 .. Len(r) PROVE r[i] \in Members(q) \cup Members(s)
    BY ONLY <1>1, <1>3, <2>5, Zenon DEF Members
  <2>6. Members(q) \subseteq Members(r) /\ Members(s) \subseteq Members(r)
    BY ONLY <2>3, <2>4, Zenon DEF Members
  <2>7. Members(r) \subseteq Members(q) \cup Members(s)  BY ONLY <2>5, Zenon DEF Members
  <2>. QED  BY ONLY <2>6, <2>7, Zenon
<1>6. Prefix(q, r)
  <2>1. Len(q) <= Len(r)  BY ONLY <1>1
  <2>. QED  BY ONLY <1>1, <2>1, Zenon DEF Prefix
<1>. QED  BY ONLY <1>1, <1>4, <1>5, <1>6, Zenon DEF r

\* The page LSA is the largest.
LEMMA PageLsaFacts ==
  ASSUME NEW q \in Seq(Nat), Sorted(q)
  PROVE  /\ PageLsa(q) \in Nat /\ \A i \in Members(q) : i <= PageLsa(q)
         /\ PageLsa(q) = 0 \/ PageLsa(q) \in Members(q)
<1>1. CASE q = <<>>
  <2>1. PageLsa(q) = 0  BY ONLY <1>1, Zenon DEF PageLsa, Null
  <2>2. Members(q) = {}  BY ONLY <1>1 DEF Members
  <2>. QED  BY ONLY <2>1, <2>2
<1>2. CASE q # <<>>
  <2>1. Len(q) \in 1 .. Len(q) /\ PageLsa(q) = q[Len(q)] /\ q[Len(q)] \in Nat
    BY <1>2 DEF PageLsa
  <2>2. PageLsa(q) \in Members(q)  BY ONLY <2>1, Zenon DEF Members
  <2>3. ASSUME NEW k \in 1 .. Len(q) PROVE q[k] <= q[Len(q)]
    <3>1. k < Len(q) \/ k = Len(q)  BY ONLY <2>1, <2>3
    <3>2. q[k] < q[Len(q)] \/ q[k] = q[Len(q)]
      BY ONLY <2>1, <2>3, <3>1, Sorted(q), Zenon DEF Sorted
    <3>3. q[k] \in Nat  BY <2>3, MembersFacts, Zenon
    <3>. QED  BY ONLY <2>1, <3>2, <3>3
  <2>4. \A i \in Members(q) : i <= PageLsa(q)  BY ONLY <2>1, <2>3, Zenon DEF Members
  <2>. QED  BY ONLY <2>1, <2>2, <2>4, Zenon
<1>. QED  BY <1>1, <1>2

\* The order of LSAs.
LEMMA LsaOrder ==
  /\ \A a, b \in Nat : a < b \/ a = b => a <= b
  /\ \A a, b \in Nat : a <= b /\ b <= a => a = b
  /\ \A a, b \in Nat : ~(a < b /\ a = b)
  /\ \A a, b, c \in Nat : a <= b /\ b <= c => a <= c
  OBVIOUS

\* Two pages with the same changes, up to a point, are the same up to there.
LEMMA SamePage ==
  ASSUME NEW q \in Seq(Nat), NEW r \in Seq(Nat), Sorted(q), Sorted(r), NEW d \in Nat,
         Members(q) = {i \in Members(r) : i <= d}
  PROVE  Prefix(q, r)
<1>. DEFINE Bad == {k \in 1 .. Len(q) : ~(k \in 1 .. Len(r) /\ q[k] = r[k])}
<1>0. /\ Len(q) \in Nat /\ \A i \in 1 .. Len(q) : q[i] \in Nat
      /\ Len(r) \in Nat /\ \A i \in 1 .. Len(r) : r[i] \in Nat
  BY MembersFacts, Zenon
<1>1. ASSUME Bad # {} PROVE FALSE
  <2>1. PICK k \in Bad : \A y \in Bad : k <= y
    <3>1. Bad \in SUBSET Nat  BY <1>0
    <3>. HIDE DEF Bad
    <3>. QED  BY ONLY <1>1, <3>1, Least, Zenon
  <2>2. \A j \in 1 .. Len(q) : j < k => j \in 1 .. Len(r) /\ q[j] = r[j]
    <3>1. \A j \in 1 .. Len(q) : j < k => ~(k <= j)  BY ONLY <1>0, <2>1
    <3>. QED  BY ONLY <2>1, <3>1, Zenon
  <2>3. k \in 1 .. Len(q) /\ ~(k \in 1 .. Len(r) /\ q[k] = r[k])  BY ONLY <2>1, Zenon
  <2>. HIDE DEF Bad
  <2>4. PICK m \in 1 .. Len(r) : r[m] = q[k]
    <3>1. q[k] \in Members(q)  BY ONLY <2>3, Zenon DEF Members
    <3>. QED  BY <3>1, Zenon DEF Members
  <2>5. q[k] <= d  BY <2>3, Zenon DEF Members
  <2>6. m >= k
    <3>. SUFFICES ASSUME m < k PROVE FALSE  BY <1>0, <2>3, <2>4
    <3>1. m \in 1 .. Len(q)  BY ONLY <1>0, <2>3, <2>4, m < k
    <3>2. q[m] < q[k] /\ q[m] = q[k]
      BY ONLY <2>2, <2>3, <2>4, <3>1, m < k, Sorted(q), Zenon DEF Sorted
    <3>3. q[m] \in Nat /\ q[k] \in Nat  BY ONLY <1>0, <2>3, <3>1, Zenon
    <3>. QED  BY ONLY <3>2, <3>3, LsaOrder, Zenon
  <2>7. k \in 1 .. Len(r)  BY ONLY <1>0, <2>3, <2>4, <2>6
  <2>8. r[k] <= q[k]
    <3>1. k < m \/ k = m  BY ONLY <1>0, <2>3, <2>4, <2>6
    <3>2. r[k] < r[m] \/ r[k] = r[m]  BY ONLY <2>4, <2>7, <3>1, Sorted(r), Zenon DEF Sorted
    <3>3. r[k] \in Nat /\ r[m] \in Nat  BY ONLY <1>0, <2>4, <2>7, Zenon
    <3>4. r[k] <= r[m]  BY ONLY <3>2, <3>3, LsaOrder, Zenon
    <3>. QED  BY ONLY <2>4, <3>4, Zenon
  <2>9. PICK n \in 1 .. Len(q) : q[n] = r[k]
    <3>0. q[k] \in Nat /\ r[k] \in Nat  BY ONLY <1>0, <2>3, <2>7, Zenon
    <3>1. r[k] <= d  BY ONLY <2>5, <2>8, <3>0, d \in Nat, LsaOrder, Zenon
    <3>2. r[k] \in Members(r)  BY ONLY <2>7, Zenon DEF Members
    <3>3. r[k] \in Members(q)  BY <3>1, <3>2, Zenon
    <3>. QED  BY ONLY <3>3, Zenon DEF Members
  <2>10. n >= k
    <3>. SUFFICES ASSUME n < k PROVE FALSE  BY <1>0, <2>3, <2>9
    <3>1. n \in 1 .. Len(r) /\ q[n] = r[n]  BY ONLY <2>2, <2>9, n < k, Zenon
    <3>2. r[n] < r[k] /\ r[n] = r[k]
      BY ONLY <2>7, <2>9, <3>1, n < k, Sorted(r), Zenon DEF Sorted
    <3>3. r[n] \in Nat /\ r[k] \in Nat  BY ONLY <1>0, <2>7, <3>1, Zenon
    <3>. QED  BY ONLY <3>2, <3>3, LsaOrder, Zenon
  <2>11. q[k] <= r[k]
    <3>1. k < n \/ k = n  BY ONLY <1>0, <2>3, <2>9, <2>10
    <3>2. q[k] < q[n] \/ q[k] = q[n]  BY ONLY <2>3, <2>9, <3>1, Sorted(q), Zenon DEF Sorted
    <3>3. q[k] \in Nat /\ q[n] \in Nat  BY ONLY <1>0, <2>3, <2>9, Zenon
    <3>4. q[k] <= q[n]  BY ONLY <3>2, <3>3, LsaOrder, Zenon
    <3>. QED  BY ONLY <2>9, <3>4, Zenon
  <2>12. q[k] \in Nat /\ r[k] \in Nat  BY ONLY <1>0, <2>3, <2>7, Zenon
  <2>13. q[k] = r[k]  BY ONLY <2>8, <2>11, <2>12, LsaOrder, Zenon
  <2>. QED  BY ONLY <2>3, <2>7, <2>13, Zenon
<1>2. \A k \in 1 .. Len(q) : k \in 1 .. Len(r) /\ q[k] = r[k]  BY ONLY <1>1, Zenon
<1>3. Len(q) <= Len(r)
  <2>1. Len(q) = 0 \/ Len(q) \in 1 .. Len(q)  BY ONLY <1>0
  <2>2. Len(q) = 0 \/ Len(q) \in 1 .. Len(r)  BY ONLY <1>2, <2>1, Zenon
  <2>. QED  BY ONLY <1>0, <2>2
<1>. QED  BY ONLY <1>2, <1>3, Zenon DEF Prefix

\* A page that begins another is cut off from it.
LEMMA PrefixIsSubSeq ==
  ASSUME NEW q \in Seq(Nat), NEW r \in Seq(Nat), Prefix(q, r)
  PROVE  q = SubSeq(r, 1, Len(q))
<1>1. /\ Len(q) \in Nat /\ Len(r) \in Nat /\ Len(q) <= Len(r) /\ \A i \in 1 .. Len(q) : q[i] = r[i]
  BY DEF Prefix
<1>2. PICK x : x = SubSeq(r, 1, Len(q))  BY ONLY Zenon
<1>3. x \in Seq(Nat) /\ Len(x) = Len(q) /\ \A i \in 1 .. Len(q) : x[i] = r[i]  BY <1>1, <1>2
<1>4. ASSUME NEW s \in Seq(Nat) PROVE s \in [1 .. Len(s) -> Nat]  OBVIOUS
<1>5. q \in [1 .. Len(q) -> Nat] /\ x \in [1 .. Len(q) -> Nat]  BY <1>3, <1>4, Zenon
<1>6. \A i \in 1 .. Len(q) : q[i] = x[i]  BY ONLY <1>1, <1>3, Zenon
<1>7. ASSUME NEW D, NEW f \in [D -> Nat], NEW g \in [D -> Nat], \A i \in D : f[i] = g[i]
      PROVE  f = g
  BY ONLY <1>7, SMT
<1>8. q = x  BY ONLY <1>5, <1>6, <1>7, SMT
<1>. QED  BY ONLY <1>2, <1>8, Zenon
-----------------------------------------------------------------------------
(* The log. *)

IsLog(l) == l \in Seq(Members(l))

\* Log m is log l and more.
Grows(l, m) == IsLog(m) /\ Len(l) <= Len(m) /\ \A i \in 1 .. Len(l) : m[i] = l[i]

\* What m has more changes no page.
NoRedo(l, m) == \A i \in 1 .. Len(m) : i \notin 1 .. Len(l) => ~HasRedo(m[i])

\* The addresses of a log.
LEMMA LogFacts ==
  ASSUME NEW l, IsLog(l)
  PROVE  Len(l) \in Nat /\ DOMAIN l = 1 .. Len(l)
<1>1. PICK S : S = Members(l)  BY ONLY Zenon
<1>2. l \in Seq(S)  BY <1>1, Zenon DEF IsLog
<1>. QED  BY ONLY <1>2

\* A record is appended.
LEMMA AppendLog ==
  ASSUME NEW l, IsLog(l), NEW r
  PROVE  /\ Grows(l, Append(l, r)) /\ Len(Append(l, r)) = Len(l) + 1
         /\ Append(l, r)[Len(l) + 1] = r
<1>1. PICK S : S = Members(l)  BY ONLY Zenon
<1>2. l \in Seq(S)  BY <1>1, Zenon DEF IsLog
<1>3. PICK m : m = Append(l, r)  BY ONLY Zenon
<1>4. PICK T : T = S \cup {r}  BY ONLY Zenon
<1>5. l \in Seq(T) /\ r \in T  BY ONLY <1>2, <1>4
<1>6. /\ Len(l) \in Nat /\ m \in Seq(T) /\ Len(m) = Len(l) + 1 /\ m[Len(l) + 1] = r
      /\ \A i \in 1 .. Len(l) : m[i] = l[i]
  BY ONLY <1>3, <1>5
<1>7. m \in Seq(Members(m))
  <2>1. PICK U : U = Members(m)  BY ONLY Zenon
  <2>2. \A i \in 1 .. Len(m) : m[i] \in U  BY ONLY <2>1, Zenon DEF Members
  <2>3. m \in Seq(U)  BY ONLY <1>6, <2>2
  <2>. QED  BY ONLY <2>1, <2>3, Zenon
<1>8. Len(l) <= Len(m)  BY ONLY <1>6
<1>. QED  BY ONLY <1>3, <1>6, <1>7, <1>8, Zenon DEF Grows, IsLog

\* A log that grows twice grows.
LEMMA GrowsTwice ==
  ASSUME NEW l, NEW m, NEW k, IsLog(l), Grows(l, m), Grows(m, k)
  PROVE  Grows(l, k)
<1>1. Len(l) \in Nat /\ Len(m) \in Nat /\ Len(k) \in Nat  BY LogFacts, Zenon DEF Grows
<1>2. Len(l) <= Len(m) /\ Len(m) <= Len(k)  BY Zenon DEF Grows
<1>3. Len(l) <= Len(k) /\ \A i \in 1 .. Len(l) : i \in 1 .. Len(m)  BY ONLY <1>1, <1>2
<1>. QED  BY <1>3, Zenon DEF Grows

\* A log that stays.
LEMMA GrowsNot ==
  ASSUME NEW l, IsLog(l)
  PROVE  Grows(l, l) /\ NoRedo(l, l)
<1>1. Len(l) <= Len(l)  BY LogFacts
<1>. QED  BY <1>1, Zenon DEF Grows, NoRedo

\* A crash cuts off the end of the log.
LEMMA CutLog ==
  ASSUME NEW l, IsLog(l), NEW n \in 0 .. Len(l), NEW m, m = SubSeq(l, 1, n)
  PROVE  IsLog(m) /\ Len(m) = n /\ \A i \in 1 .. n : m[i] = l[i]
<1>1. PICK S : S = Members(l)  BY ONLY Zenon
<1>2. l \in Seq(S) /\ Len(l) \in Nat  BY <1>1, LogFacts, Zenon DEF IsLog
<1>3. m \in Seq(S) /\ Len(m) = n /\ \A i \in 1 .. n : m[i] = l[i]
  BY ONLY <1>2, n \in 0 .. Len(l), m = SubSeq(l, 1, n)
<1>4. m \in Seq(Members(m))
  <2>1. PICK U : U = Members(m)  BY ONLY Zenon
  <2>2. \A i \in 1 .. Len(m) : m[i] \in U  BY ONLY <2>1, Zenon DEF Members
  <2>3. m \in Seq(U)  BY ONLY <1>3, <2>2
  <2>. QED  BY ONLY <2>1, <2>3, Zenon
<1>. QED  BY ONLY <1>3, <1>4, Zenon DEF IsLog

\* The records with redo for a page, when the log grows.
LEMMA RedosGrow ==
  ASSUME NEW l, IsLog(l), NEW m, Grows(l, m), NEW p
  PROVE  /\ \A d \in 0 .. Len(l) : UpTo(m, p, d) = UpTo(l, p, d)
         /\ NoRedo(l, m) => Redos(m, p) = Redos(l, p)
<1>1. Len(l) \in Nat /\ Len(m) \in Nat  BY LogFacts, Zenon DEF Grows
<1>2. Len(l) <= Len(m) /\ \A i \in 1 .. Len(l) : m[i] = l[i]  BY Zenon DEF Grows
<1>3. \A i \in 1 .. Len(l) : i \in 1 .. Len(m) /\ (i \in Redos(m, p) <=> i \in Redos(l, p))
  <2>1. \A i \in 1 .. Len(l) : i \in 1 .. Len(m)  BY ONLY <1>1, <1>2
  <2>. QED  BY ONLY <1>2, <2>1, Zenon DEF Redos
<1>4. Redos(l, p) \subseteq 1 .. Len(l) /\ Redos(m, p) \subseteq 1 .. Len(m)  BY ONLY Zenon DEF Redos
<1>5. ASSUME NEW d \in 0 .. Len(l)
      PROVE  UpTo(m, p, d) = UpTo(l, p, d)
  <2>1. \A i \in 1 .. Len(m) : i <= d => i \in 1 .. Len(l)  BY ONLY <1>1, <1>5
  <2>. QED  BY ONLY <1>3, <1>4, <2>1, Zenon DEF UpTo
<1>6. ASSUME NoRedo(l, m) PROVE Redos(m, p) = Redos(l, p)
  <2>1. \A i \in Redos(m, p) : HasRedo(m[i])  BY ONLY Zenon DEF Redos
  <2>2. \A i \in Redos(m, p) : i \in 1 .. Len(l)  BY ONLY <1>4, <1>6, <2>1, Zenon DEF NoRedo
  <2>. QED  BY ONLY <1>3, <1>4, <2>2, Zenon
<1>. QED  BY ONLY <1>5, <1>6, Zenon

\* A record with redo is appended.
LEMMA RedosAppend ==
  ASSUME NEW l, IsLog(l), NEW r, HasRedo(r), NEW p
  PROVE  /\ r.page = p => Redos(Append(l, r), p) = Redos(l, p) \cup {Len(l) + 1}
         /\ r.page # p => Redos(Append(l, r), p) = Redos(l, p)
<1>1. PICK m : m = Append(l, r)  BY ONLY Zenon
<1>2. /\ Len(l) \in Nat /\ Len(m) = Len(l) + 1 /\ m[Len(l) + 1] = r
      /\ \A i \in 1 .. Len(l) : m[i] = l[i]
  <2>1. Len(l) \in Nat  BY ONLY IsLog(l), LogFacts, Zenon
  <2>2. Grows(l, m) /\ Len(m) = Len(l) + 1 /\ m[Len(l) + 1] = r
    BY ONLY <1>1, IsLog(l), AppendLog, Zenon
  <2>. QED  BY ONLY <2>1, <2>2, Zenon DEF Grows
<1>3. /\ \A i \in 1 .. Len(l) : i \in 1 .. Len(m)
      /\ Len(l) + 1 \in 1 .. Len(m)
      /\ \A i \in 1 .. Len(m) : i \in 1 .. Len(l) \/ i = Len(l) + 1
  BY ONLY <1>2
<1>4. \A i \in 1 .. Len(l) : i \in Redos(m, p) <=> i \in Redos(l, p)
  BY ONLY <1>2, <1>3, Zenon DEF Redos
<1>5. Len(l) + 1 \in Redos(m, p) <=> r.page = p
  BY ONLY <1>2, <1>3, HasRedo(r), Zenon DEF Redos
<1>6. Redos(l, p) \subseteq 1 .. Len(l) /\ Redos(m, p) \subseteq 1 .. Len(m)  BY ONLY Zenon DEF Redos
<1>7. r.page = p => Redos(m, p) = Redos(l, p) \cup {Len(l) + 1}
  BY ONLY <1>3, <1>4, <1>5, <1>6, Zenon
<1>8. r.page # p => Redos(m, p) = Redos(l, p)
  BY ONLY <1>3, <1>4, <1>5, <1>6, Zenon
<1>. QED  BY ONLY <1>1, <1>7, <1>8, Zenon

\* The pages on disk stay where they are in the log when it grows or more of it
\* is flushed.
LEMMA CoversGrow ==
  ASSUME NEW q, NEW l, IsLog(l), NEW m, Grows(l, m), NEW p, NEW a,
         NEW f \in Nat, NEW g \in Nat, f <= g, Covers(q, l, p, a, f)
  PROVE  Covers(q, m, p, a, g)
<1>1. PICK d \in 0 .. Len(l) :
        a <= d + 1 /\ d <= f /\ Members(q) = UpTo(l, p, d)
  BY Zenon DEF Covers
<1>2. Len(l) \in Nat /\ Len(m) \in Nat /\ Len(l) <= Len(m)  BY LogFacts, Zenon DEF Grows
<1>3. d \in 0 .. Len(m) /\ d <= g  BY ONLY <1>1, <1>2, f \in Nat, g \in Nat, f <= g
<1>4. UpTo(m, p, d) = UpTo(l, p, d)
  <2>1. \A e \in 0 .. Len(l) : UpTo(m, p, e) = UpTo(l, p, e)
    BY ONLY IsLog(l), Grows(l, m), RedosGrow, SMT
  <2>. QED  BY ONLY <1>1, <2>1, Zenon
<1>. QED  BY ONLY <1>1, <1>3, <1>4, Zenon DEF Covers

\* They do when a crash cuts off what was not flushed.
LEMMA CoversCut ==
  ASSUME NEW q, NEW l, IsLog(l), NEW p, NEW a, NEW f \in Nat, NEW n \in f .. Len(l),
         NEW m, Len(m) = n, \A i \in 1 .. n : m[i] = l[i], Covers(q, l, p, a, f)
  PROVE  Covers(q, m, p, a, n)
<1>1. PICK d \in 0 .. Len(l) :
        a <= d + 1 /\ d <= f /\ Members(q) = UpTo(l, p, d)
  BY Zenon DEF Covers
<1>2. Len(l) \in Nat  BY LogFacts, Zenon
<1>3. n \in 0 .. Len(l) /\ d \in 0 .. n /\ d <= n  BY ONLY <1>1, <1>2, f \in Nat, n \in f .. Len(l)
<1>4. Len(m) = n /\ \A i \in 1 .. n : m[i] = l[i]  OBVIOUS
<1>5. UpTo(m, p, d) = UpTo(l, p, d)
  <2>1. \A i \in 1 .. n : i \in 1 .. Len(l)  BY ONLY <1>2, <1>3
  <2>2. \A i \in 1 .. n : i \in Redos(m, p) <=> i \in Redos(l, p)
    BY ONLY <1>4, <2>1, Zenon DEF Redos
  <2>3. \A i \in 1 .. Len(l) : i <= d => i \in 1 .. n  BY ONLY <1>2, <1>3
  <2>4. Redos(l, p) \subseteq 1 .. Len(l) /\ Redos(m, p) \subseteq 1 .. n
    BY ONLY <1>4, Zenon DEF Redos
  <2>. QED  BY ONLY <2>2, <2>3, <2>4, Zenon DEF UpTo
<1>. QED  BY ONLY <1>1, <1>3, <1>4, <1>5, Zenon DEF Covers

\* A page that has all changes of the log is written, and the log before it.
LEMMA CoversAll ==
  ASSUME NEW q, NEW x, NEW l, IsLog(l), NEW p, NEW a \in Nat, NEW f \in Nat, NEW g \in Nat, f <= g,
         Covers(x, l, p, a, f), Members(q) = Redos(l, p),
         NEW b \in 0 .. Len(l), b <= g, \A i \in Redos(l, p) : i <= b
  PROVE  Covers(q, l, p, a, g)
<1>1. PICK d \in 0 .. Len(l) : a <= d + 1 /\ d <= f  BY Zenon DEF Covers
<1>2. Len(l) \in Nat  BY LogFacts, Zenon
<1>3. CASE b <= d
  <2>1. d <= g  BY ONLY <1>1, <1>2, f \in Nat, g \in Nat, f <= g
  <2>2. \A i \in Redos(l, p) : i \in 1 .. Len(l)  BY ONLY Zenon DEF Redos
  <2>3. \A i \in 1 .. Len(l) : i <= b => i <= d  BY ONLY <1>1, <1>2, <1>3, b \in 0 .. Len(l)
  <2>4. Members(q) = UpTo(l, p, d)  BY <2>2, <2>3, Zenon DEF UpTo
  <2>. QED  BY ONLY <1>1, <2>1, <2>4, Zenon DEF Covers
<1>4. CASE ~(b <= d)
  <2>1. a <= b + 1  BY ONLY <1>1, <1>2, <1>4, a \in Nat, b \in 0 .. Len(l)
  <2>2. Members(q) = UpTo(l, p, b)  BY Zenon DEF UpTo
  <2>. QED  BY ONLY <2>1, <2>2, b \in 0 .. Len(l), b <= g, Zenon DEF Covers
<1>. QED  BY ONLY <1>3, <1>4, Zenon

\* Once all changes of the log up to record b are on the page and the log is
\* flushed up to there, recovery may start after b.
LEMMA CoversFrom ==
  ASSUME NEW q, NEW l, IsLog(l), NEW p, NEW a, NEW f \in Nat, NEW g \in Nat, f <= g,
         Covers(q, l, p, a, f), NEW b \in 0 .. Len(l), b <= g,
         \A i \in Redos(l, p) : i <= b => i \in Members(q)
  PROVE  Covers(q, l, p, b, g)
<1>1. PICK d \in 0 .. Len(l) : d <= f /\ Members(q) = UpTo(l, p, d)
  BY Zenon DEF Covers
<1>2. Len(l) \in Nat  BY LogFacts, Zenon
<1>3. CASE b <= d
  <2>1. d <= g /\ b <= d + 1
    BY ONLY <1>1, <1>2, <1>3, f \in Nat, g \in Nat, f <= g, b \in 0 .. Len(l)
  <2>. QED  BY ONLY <1>1, <2>1, Zenon DEF Covers
<1>4. CASE ~(b <= d)
  <2>1. b <= b + 1  BY ONLY <1>2, b \in 0 .. Len(l)
  <2>2. \A i \in Redos(l, p) : i \in 1 .. Len(l)  BY ONLY Zenon DEF Redos
  <2>3. \A i \in 1 .. Len(l) : i <= d => i <= b  BY ONLY <1>1, <1>2, <1>4, b \in 0 .. Len(l)
  <2>4. Members(q) = UpTo(l, p, b)  BY <1>1, <2>2, <2>3, Zenon DEF UpTo
  <2>. QED  BY ONLY <2>1, <2>4, b \in 0 .. Len(l), b <= g, Zenon DEF Covers
<1>. QED  BY ONLY <1>3, <1>4, Zenon
-----------------------------------------------------------------------------
(* Logging. *)

\* A record is logged, and the change that it describes is made.
Applies ==
  \E r : /\ HasRedo(r) /\ log' = Append(log, r)
         /\ buf' = [buf EXCEPT ![r.page] = Append(buf[r.page], Len(log) + 1)]

\* A step that logs: its records change no page, or it is one record, and the
\* change is made.
LogsAndApplies ==
  /\ flushed' \in Nat /\ flushed <= flushed' /\ disk' = disk
  /\ \/ Grows(log, log') /\ NoRedo(log, log') /\ buf' = buf
     \/ Applies

\* The pages after such a step.
LEMMA LogTypes ==
  ASSUME Types, LogsAndApplies
  PROVE  /\ Grows(log, log') /\ flushed' \in Nat /\ flushed <= flushed'
         /\ buf' \in [Pages -> Seq(Nat)] /\ disk' \in [Pages -> Seq(Nat)]
<1>0. /\ IsLog(log) /\ buf \in [Pages -> Seq(Nat)] /\ disk' \in [Pages -> Seq(Nat)]
      /\ flushed' \in Nat /\ flushed <= flushed'
  BY Zenon DEF Types, IsLog, LogsAndApplies
<1>1. CASE Grows(log, log') /\ buf' = buf  BY ONLY <1>0, <1>1, Zenon
<1>2. ASSUME NEW r, HasRedo(r), log' = Append(log, r),
             buf' = [buf EXCEPT ![r.page] = Append(buf[r.page], Len(log) + 1)]
      PROVE  Grows(log, log') /\ buf' \in [Pages -> Seq(Nat)]
  <2>1. Grows(log, log')  BY ONLY <1>0, <1>2, AppendLog, Zenon
  <2>2. PICK x : x = r.page  BY ONLY Zenon
  <2>3. PICK e : e = Append(buf[x], Len(log) + 1)  BY ONLY Zenon
  <2>4. buf' = [buf EXCEPT ![x] = e]  BY ONLY <1>2, <2>2, <2>3, Zenon
  <2>5. x \in Pages => e \in Seq(Nat)
    <3>1. Len(log) + 1 \in Nat  BY <1>0, LogFacts
    <3>2. x \in Pages => buf[x] \in Seq(Nat)  BY ONLY <1>0, Zenon
    <3>. QED  BY ONLY <2>3, <3>1, <3>2
  <2>6. buf' \in [Pages -> Seq(Nat)]
    <3>1. PICK S : S = Seq(Nat)  BY ONLY Zenon
    <3>2. buf \in [Pages -> S] /\ (x \in Pages => e \in S)  BY ONLY <1>0, <2>5, <3>1, Zenon
    <3>3. buf' \in [Pages -> S]  BY ONLY <2>4, <3>2, Zenon
    <3>. QED  BY ONLY <3>1, <3>3, Zenon
  <2>. QED  BY ONLY <2>1, <2>6, Zenon
<1>. QED  BY <1>0, <1>1, <1>2, Zenon DEF LogsAndApplies, Applies

LEMMA PageLogged ==
  ASSUME Types, NEW p \in Pages, PageInv(p), ~RedoAhead, LogsAndApplies
  PROVE  /\ Sorted(buf'[p]) /\ Prefix(disk'[p], buf'[p]) /\ Members(buf'[p]) = Redos(log', p)
         /\ \A a : Covers(disk[p], log, p, a, flushed) => Covers(disk'[p], log', p, a, flushed')
<1>0. /\ IsLog(log) /\ buf \in [Pages -> Seq(Nat)] /\ buf[p] \in Seq(Nat) /\ disk[p] \in Seq(Nat)
      /\ flushed \in Nat /\ p \in Pages /\ disk' = disk
  BY Zenon DEF Types, IsLog, LogsAndApplies
<1>1. Grows(log, log') /\ flushed' \in Nat /\ flushed <= flushed'  BY LogTypes, Zenon
<1>2. ASSUME NEW a, Covers(disk[p], log, p, a, flushed)
      PROVE  Covers(disk'[p], log', p, a, flushed')
  BY ONLY <1>0, <1>1, <1>2, CoversGrow, Zenon
<1>3. Sorted(buf[p]) /\ Prefix(disk[p], buf[p]) /\ Members(buf[p]) = Redos(log, p)
  BY Zenon DEF PageInv
<1>4. CASE NoRedo(log, log') /\ buf' = buf
  <2>1. Redos(log', p) = Redos(log, p)  BY ONLY <1>0, <1>1, <1>4, RedosGrow, SMT
  <2>. QED  BY ONLY <1>0, <1>2, <1>3, <1>4, <2>1, Zenon
<1>5. ASSUME NEW r, HasRedo(r), log' = Append(log, r),
             buf' = [buf EXCEPT ![r.page] = Append(buf[r.page], Len(log) + 1)]
      PROVE  /\ Sorted(buf'[p]) /\ Prefix(disk'[p], buf'[p]) /\ Members(buf'[p]) = Redos(log', p)
  <2>1. CASE r.page # p
    <3>1. buf'[p] = buf[p]  BY ONLY <1>0, <1>5, <2>1, Zenon
    <3>2. Redos(log', p) = Redos(log, p)  BY ONLY <1>0, <1>5, <2>1, RedosAppend, Zenon
    <3>. QED  BY ONLY <1>0, <1>3, <3>1, <3>2, Zenon
  <2>2. CASE r.page = p
    <3>1. buf'[p] = Append(buf[p], Len(log) + 1)  BY ONLY <1>0, <1>5, <2>2, Zenon
    <3>2. Redos(log', p) = Redos(log, p) \cup {Len(log) + 1}
      BY ONLY <1>0, <1>5, <2>2, RedosAppend, Zenon
    <3>3. Len(log) + 1 \in Nat /\ \A i \in Members(buf[p]) : i < Len(log) + 1
      <4>1. Len(log) \in Nat  BY ONLY <1>0, LogFacts, Zenon
      <4>2. \A i \in Members(buf[p]) : i \in 1 .. Len(log)  BY ONLY <1>3, Zenon DEF Redos
      <4>. QED  BY ONLY <4>1, <4>2
    <3>4. /\ Sorted(Append(buf[p], Len(log) + 1))
          /\ Members(Append(buf[p], Len(log) + 1)) = Members(buf[p]) \cup {Len(log) + 1}
          /\ \A x \in Seq(Nat) : Prefix(x, buf[p]) => Prefix(x, Append(buf[p], Len(log) + 1))
      BY ONLY <1>0, <1>3, <3>3, AppendPage, Zenon
    <3>. QED  BY ONLY <1>0, <1>3, <3>1, <3>2, <3>4, Zenon
  <2>. QED  BY ONLY <2>1, <2>2, Zenon
<1>. QED  BY <1>2, <1>4, <1>5, Zenon DEF LogsAndApplies, Applies

\* The step that keeps everything else keeps the invariant of the page.
LEMMA PageStays ==
  ASSUME Types, NEW p \in Pages, PageInv(p), ~RedoAhead, LogsAndApplies, UNCHANGED <<hdr, chk, phase>>
  PROVE  PageInv(p)'
<1>1. /\ Sorted(buf'[p]) /\ Prefix(disk'[p], buf'[p]) /\ Members(buf'[p]) = Redos(log', p)
      /\ \A a : Covers(disk[p], log, p, a, flushed) => Covers(disk'[p], log', p, a, flushed')
  BY PageLogged, Zenon
<1>2. AnalysisStart' = AnalysisStart /\ chk' = chk /\ ~RedoAhead'
  BY Zenon DEF AnalysisStart, RedoAhead
<1>3. /\ Covers(disk[p], log, p, AnalysisStart, flushed)
      /\ chk.pc \in {"table", "header"} => Covers(disk[p], log, p, chk.start, flushed)
  BY Zenon DEF PageInv
<1>. QED  BY ONLY <1>1, <1>2, <1>3, Zenon DEF PageInv

\* The types of the records with redo.
Redoing(k) == k \in {"UNDOREDO", "RUN_POSTPONE", "COMPENSATE"}

\* What the records of a transaction are.
LEMMA RecFacts ==
  ASSUME NEW k, NEW t, NEW x, NEW y, NEW z
  PROVE  /\ Rec(k, t, x, y, z).type = k /\ Rec(k, t, x, y, z).trid = t
         /\ HasRedo(Rec(k, t, x, y, z)) <=> Redoing(k)
  BY DEF Rec, HasRedo, Redoing

\* The four ways in which a step of a transaction logs.
Logs(t) ==
  \/ \E d : Set(t, d)
  \/ \E d, k, x, y, z : /\ ~Redoing(k)
                        /\ Append1(t, Rec(k, t, x, y, z), d) /\ buf' = buf
  \/ \E d, k, x, y, z : /\ Redoing(k)
                        /\ AppendAndApply(t, Rec(k, t, x, y, z), d)
  \/ \E x : AppendPostpone(t, x)

\* A record that changes no page.
LEMMA AppendNoRedo ==
  ASSUME NEW l, IsLog(l), NEW r, ~HasRedo(r)
  PROVE  Grows(l, Append(l, r)) /\ NoRedo(l, Append(l, r))
<1>1. /\ Grows(l, Append(l, r)) /\ Len(Append(l, r)) = Len(l) + 1 /\ Append(l, r)[Len(l) + 1] = r
      /\ Len(l) \in Nat
  BY AppendLog, LogFacts, Zenon
<1>2. \A i \in 1 .. Len(Append(l, r)) : i \notin 1 .. Len(l) => i = Len(l) + 1
  <2>1. \A i \in 1 .. Len(l) + 1 : i \notin 1 .. Len(l) => i = Len(l) + 1  BY ONLY <1>1
  <2>. QED  BY ONLY <1>1, <2>1, Zenon
<1>. QED  BY <1>1, <1>2, Zenon DEF NoRedo

\* log_append_postpone appends one record or two.
LEMMA PostponeLogs ==
  ASSUME IsLog(log), NEW t, NEW x, AppendPostpone(t, x)
  PROVE  Grows(log, log') /\ NoRedo(log, log') /\ buf' = buf
<1>. DEFINE head == IF tran[t].tail = Null THEN <<Rec("DUMMY_HEAD", t, NoPage, Null, Null)>>
                    ELSE <<>>
            rec == [Rec("POSTPONE", t, x, Null, Null) EXCEPT !.prev = IF head = <<>> THEN @ ELSE Lsa]
<1>1. log' = (log \o head) \o <<rec>> /\ buf' = buf  BY Zenon DEF AppendPostpone
<1>2. ~HasRedo(rec) /\ ~HasRedo(Rec("DUMMY_HEAD", t, NoPage, Null, Null))
  <2>1. rec.type = "POSTPONE"  BY DEF Rec
  <2>2. Rec("DUMMY_HEAD", t, NoPage, Null, Null).type = "DUMMY_HEAD"  BY ONLY SMT DEF Rec
  <2>. HIDE DEF rec
  <2>. QED  BY ONLY <2>1, <2>2 DEF HasRedo
<1>3. \A l, r : IsLog(l) => l \o <<r>> = Append(l, r) /\ l \o <<>> = l
  <2>. SUFFICES ASSUME NEW l, NEW r, IsLog(l) PROVE l \o <<r>> = Append(l, r) /\ l \o <<>> = l
    BY Zenon
  <2>1. PICK S : l \in Seq(S)  BY Zenon DEF IsLog
  <2>2. l \in Seq(S \cup {r}) /\ r \in S \cup {r}  BY ONLY <2>1
  <2>. QED  BY ONLY <2>2
<1>4. CASE tran[t].tail = Null
  <2>1. PICK h : h = Rec("DUMMY_HEAD", t, NoPage, Null, Null)  BY ONLY Zenon
  <2>2. head = <<h>>  BY ONLY <1>4, <2>1, Zenon
  <2>. HIDE DEF head, rec
  <2>3. Grows(log, Append(log, h)) /\ NoRedo(log, Append(log, h))
    BY <1>2, <2>1, AppendNoRedo, Zenon
  <2>4. PICK m : m = Append(log, h)  BY ONLY Zenon
  <2>5. Grows(log, m) /\ NoRedo(log, m) /\ IsLog(m)  BY ONLY <2>3, <2>4, Zenon DEF Grows
  <2>6. log' = Append(m, rec)
    <3>1. log \o head = m  BY ONLY <1>3, <2>2, <2>4, IsLog(log), Zenon
    <3>2. m \o <<rec>> = Append(m, rec)  BY ONLY <1>3, <2>5, Zenon
    <3>. QED  BY ONLY <1>1, <3>1, <3>2, Zenon
  <2>7. Grows(m, log') /\ NoRedo(m, log')  BY ONLY <1>2, <2>5, <2>6, AppendNoRedo, Zenon
  <2>8. Grows(log, log')  BY ONLY <2>5, <2>7, IsLog(log), GrowsTwice, Zenon
  <2>9. NoRedo(log, log')
    <3>1. ASSUME NEW i \in 1 .. Len(log'), i \notin 1 .. Len(log) PROVE ~HasRedo(log'[i])
      <4>1. CASE i \in 1 .. Len(m)
        <5>1. ~HasRedo(m[i])  BY ONLY <2>5, <3>1, <4>1, Zenon DEF NoRedo
        <5>. QED  BY ONLY <2>7, <4>1, <5>1, Zenon DEF Grows
      <4>2. CASE i \notin 1 .. Len(m)  BY ONLY <2>7, <3>1, <4>2, Zenon DEF NoRedo
      <4>. QED  BY ONLY <4>1, <4>2, Zenon
    <3>. QED  BY ONLY <3>1, Zenon DEF NoRedo
  <2>. QED  BY ONLY <1>1, <2>8, <2>9, Zenon
<1>5. CASE tran[t].tail # Null
  <2>1. head = <<>>  BY ONLY <1>5, Zenon
  <2>. HIDE DEF head, rec
  <2>2. log' = Append(log, rec)  BY ONLY <1>1, <1>3, <2>1, IsLog(log), Zenon
  <2>3. Grows(log, log') /\ NoRedo(log, log')
    BY ONLY <1>2, <2>2, IsLog(log), AppendNoRedo, Zenon
  <2>. QED  BY ONLY <1>1, <2>3, Zenon
<1>. QED  BY ONLY <1>4, <1>5, Zenon

\* So what a step of a transaction logs is applied.
LEMMA LogsApply ==
  ASSUME Types, NEW t, Logs(t), flushed' \in Nat, flushed <= flushed', disk' = disk
  PROVE  LogsAndApplies
<1>0. IsLog(log)  BY Zenon DEF Types, IsLog
<1>1. ASSUME NEW d, Set(t, d) PROVE Grows(log, log') /\ NoRedo(log, log') /\ buf' = buf
  <2>1. log' = log /\ buf' = buf  BY ONLY <1>1, Zenon DEF Set
  <2>2. Grows(log, log) /\ NoRedo(log, log)  BY ONLY <1>0, GrowsNot, Zenon
  <2>. QED  BY ONLY <2>1, <2>2, Zenon
<1>2. ASSUME NEW d, NEW k, NEW x, NEW y, NEW z, ~Redoing(k),
             Append1(t, Rec(k, t, x, y, z), d)
      PROVE  Grows(log, log') /\ NoRedo(log, log')
  <2>1. log' = Append(log, Rec(k, t, x, y, z))  BY ONLY <1>2, Zenon DEF Append1
  <2>2. ~HasRedo(Rec(k, t, x, y, z))  BY ONLY <1>2, RecFacts, Zenon
  <2>3. PICK r : r = Rec(k, t, x, y, z)  BY ONLY Zenon
  <2>. QED  BY ONLY <1>0, <2>1, <2>2, <2>3, AppendNoRedo, Zenon
<1>3. ASSUME NEW d, NEW k, NEW x, NEW y, NEW z, Redoing(k),
             AppendAndApply(t, Rec(k, t, x, y, z), d)
      PROVE  Applies
  <2>1. PICK r : r = Rec(k, t, x, y, z)  BY ONLY Zenon
  <2>2. HasRedo(r)  BY ONLY <1>3, <2>1, RecFacts, Zenon
  <2>3. AppendAndApply(t, r, d)  BY ONLY <1>3, <2>1, Zenon
  <2>4. log' = Append(log, r) /\ buf' = [buf EXCEPT ![r.page] = Append(buf[r.page], Len(log) + 1)]
    BY ONLY <2>3, Zenon DEF AppendAndApply, Append1, Lsa
  <2>. QED  BY ONLY <2>2, <2>4, Zenon DEF Applies
<1>4. ASSUME NEW x, AppendPostpone(t, x) PROVE Grows(log, log') /\ NoRedo(log, log') /\ buf' = buf
  BY ONLY <1>0, <1>4, PostponeLogs, Zenon
<1>5. (Grows(log, log') /\ NoRedo(log, log') /\ buf' = buf) \/ Applies
  <2>1. CASE \E d : Set(t, d)  BY ONLY <1>1, <2>1, Zenon
  <2>2. CASE \E d, k, x, y, z : /\ ~Redoing(k)
                                /\ Append1(t, Rec(k, t, x, y, z), d) /\ buf' = buf
    <3>1. PICK d, k, x, y, z : /\ ~Redoing(k)
                               /\ Append1(t, Rec(k, t, x, y, z), d) /\ buf' = buf
      BY ONLY <2>2, Zenon
    <3>. QED  BY ONLY <1>2, <3>1, Zenon
  <2>3. CASE \E d, k, x, y, z : /\ Redoing(k)
                                /\ AppendAndApply(t, Rec(k, t, x, y, z), d)
    <3>1. PICK d, k, x, y, z : /\ Redoing(k)
                               /\ AppendAndApply(t, Rec(k, t, x, y, z), d)
      BY ONLY <2>3, Zenon
    <3>. QED  BY ONLY <1>3, <3>1, Zenon
  <2>4. CASE \E x : AppendPostpone(t, x)  BY ONLY <1>4, <2>4, Zenon
  <2>. QED  BY ONLY <2>1, <2>2, <2>3, <2>4, Logs(t), Zenon DEF Logs
<1>. QED  BY <1>5, Zenon DEF LogsAndApplies
-----------------------------------------------------------------------------
(* The steps of a transaction. *)

\* Only the descriptor of t changes, and it is not about to flush the log.
Moves(t) ==
  /\ DOMAIN tran' = Trans /\ \A s \in Trans : s # t => tran'[s] = tran[s]
  /\ DOMAIN tran'[t] = Fields /\ tran'[t].pc \notin {"cwp_state", "flush"}

\* A record with redo, or one without.
LEMMA LogsOf ==
  ASSUME NEW t, NEW k, NEW x, NEW y, NEW z, NEW d
  PROVE  /\ Append1(t, Rec(k, t, x, y, z), d) /\ buf' = buf /\ ~Redoing(k) => Logs(t)
         /\ AppendAndApply(t, Rec(k, t, x, y, z), d) /\ Redoing(k) => Logs(t)
         /\ Set(t, d) => Logs(t)
  BY Zenon DEF Logs

LEMMA RedoTypes ==
  /\ Redoing("UNDOREDO") /\ Redoing("RUN_POSTPONE") /\ Redoing("COMPENSATE")
  /\ ~Redoing("SSP") /\ ~Redoing("SYSOP_COMMIT") /\ ~Redoing("SYSOP_ABORT") /\ ~Redoing("CWP")
  /\ ~Redoing("COMMIT") /\ ~Redoing("ABORT")
  BY DEF Redoing

\* The steps of a running transaction that neither set an address to flush the
\* log up to nor flush it.
LEMMA StepsThatMove ==
  ASSUME DOMAIN tran = Trans, NEW t \in Trans, DOMAIN tran[t] = Fields, NEW p,
         \/ Update(t, p) \/ AppendPostpone(t, p)
         \/ SysopStart(t) \/ SysopCommit(t) \/ SysopPostponed(t) \/ SysopAppendEnd(t)
         \/ SysopFinal(t) \/ SysopAbort(t) \/ SysopRollback(t)
         \/ Commit(t) \/ RunPostpone(t) \/ Abort(t) \/ Rollback(t)
  PROVE  Moves(t) /\ Logs(t) /\ UNCHANGED <<flushed, acked>> /\ TranUnchanged /\ phase = "run"
<1>0. DOMAIN tran = Trans /\ t \in Trans /\ DOMAIN tran[t] = Fields  OBVIOUS
<1>m. ASSUME NEW d, tran' = [tran EXCEPT ![t] = d], DOMAIN d = Fields,
             d.pc \notin {"cwp_state", "flush"}
      PROVE  Moves(t)
  BY ONLY <1>0, <1>m, Zenon DEF Moves
<1>1. ASSUME Update(t, p) PROVE Moves(t)
  <2>1. PICK d : d = [Logged(tran[t]) EXCEPT !.n = @ + 1]  BY ONLY Zenon
  <2>2. tran' = [tran EXCEPT ![t] = d] /\ tran[t].pc = "work"
    BY ONLY <1>1, <2>1, Zenon DEF Update, AppendAndApply, Append1, CanOp, Working
  <2>3. DOMAIN d = Fields /\ d.pc = tran[t].pc  BY ONLY <1>0, <2>1, SMTT(20) DEF Logged, Fields
  <2>. QED  BY ONLY <1>m, <2>2, <2>3, Zenon
<1>2. ASSUME AppendPostpone(t, p) PROVE Moves(t)
  <2>. DEFINE head == IF tran[t].tail = Null THEN <<Rec("DUMMY_HEAD", t, NoPage, Null, Null)>>
                      ELSE <<>>
              lsa == Lsa + Len(head)
              first(a) == IF a = Null THEN lsa ELSE a
              d1 == [tran[t] EXCEPT !.tail = lsa, !.undo = lsa, !.n = @ + 1,
                       !.cache = IF CacheFull(tran[t]) THEN @ ELSE @ \cup {lsa}]
  <2>1. /\ tran' = [tran EXCEPT ![t] =
                      IF InSysop(tran[t]) THEN [d1 EXCEPT !.topops[1].posp = first(@)]
                      ELSE [d1 EXCEPT !.posp = first(@)]]
        /\ tran[t].pc = "work"
    BY ONLY <1>2, Zenon DEF AppendPostpone, CanOp, Working
  <2>2. DOMAIN d1 = Fields /\ d1.pc = tran[t].pc
    <3>. HIDE DEF lsa
    <3>. QED  BY ONLY <1>0, SMTT(20) DEF Fields
  <2>. HIDE DEF d1, first
  <2>3. PICK d : /\ tran' = [tran EXCEPT ![t] = d]
                 /\ \/ d = [d1 EXCEPT !.topops[1].posp = first(@)]
                    \/ d = [d1 EXCEPT !.posp = first(@)]
    BY ONLY <2>1, Zenon
  <2>4. DOMAIN d = Fields /\ d.pc = d1.pc  BY ONLY <2>2, <2>3, SMTT(20) DEF Fields
  <2>. QED  BY ONLY <1>m, <2>1, <2>2, <2>3, <2>4, Zenon
<1>3. ASSUME SysopStart(t) PROVE Moves(t)
  <2>1. PICK d : tran' = [tran EXCEPT ![t] = d] /\ d = [tran[t] EXCEPT !.topops = <<[parent |-> tran[t].tail, posp |-> Null]>>]
    BY ONLY <1>3, Zenon DEF SysopStart, Set
  <2>2. tran[t].pc \notin {"cwp_state", "flush"}  BY ONLY <1>3, Zenon DEF SysopStart, CanOp, Working
  <2>3. DOMAIN d = Fields /\ d.pc \notin {"cwp_state", "flush"}
    BY ONLY <1>0, <2>1, <2>2, SMTT(20) DEF Fields
  <2>. QED  BY ONLY <1>m, <2>1, <2>3, Zenon
<1>4. ASSUME SysopCommit(t) PROVE Moves(t)
  <2>1. PICK d : /\ tran' = [tran EXCEPT ![t] = d]
                 /\ \/ d = [tran[t] EXCEPT !.topops = <<>>]
                    \/ d = [SysopEnded(tran[t]) EXCEPT !.pc = "sys_final"]
                    \/ d = [Logged(Postponed(t, tran[t], Head(tran[t].topops).posp)) EXCEPT
                             !.sposp = Lsa, !.pc = "sys_post",
                             !.st = "TOPOPE_COMMITTED_WITH_POSTPONE"]
    BY ONLY <1>4, Zenon DEF SysopCommit, Set, Append1
  <2>2. tran[t].pc \notin {"cwp_state", "flush"}  BY ONLY <1>4, Zenon DEF SysopCommit, Working
  <2>3. DOMAIN d = Fields /\ d.pc \notin {"cwp_state", "flush"}
    <3>1. CASE d = [tran[t] EXCEPT !.topops = <<>>]
      BY ONLY <1>0, <2>2, <3>1, SMTT(20) DEF Fields
    <3>2. CASE d = [SysopEnded(tran[t]) EXCEPT !.pc = "sys_final"]
      BY ONLY <1>0, <2>2, <3>2, SMTT(20) DEF Fields, SysopEnded, Logged
    <3>3. CASE d = [Logged(Postponed(t, tran[t], Head(tran[t].topops).posp)) EXCEPT
               !.sposp = Lsa, !.pc = "sys_post",
               !.st = "TOPOPE_COMMITTED_WITH_POSTPONE"]
      BY ONLY <1>0, <2>2, <3>3, SMTT(20) DEF Fields, Logged, Postponed
    <3>. QED  BY ONLY <3>1, <3>2, <3>3, <2>1, Zenon
  <2>. QED  BY ONLY <1>m, <2>1, <2>3, Zenon
<1>5. ASSUME SysopPostponed(t) PROVE Moves(t)
  <2>1. PICK d : tran' = [tran EXCEPT ![t] = d] /\ d = [tran[t] EXCEPT !.st = "ACTIVE", !.pc = "sys_end"]
    BY ONLY <1>5, Zenon DEF SysopPostponed, Set
  <2>2. tran[t].pc \notin {"cwp_state", "flush"}  BY ONLY <1>5, Zenon DEF SysopPostponed
  <2>3. DOMAIN d = Fields /\ d.pc \notin {"cwp_state", "flush"}
    BY ONLY <1>0, <2>1, <2>2, SMTT(20) DEF Fields
  <2>. QED  BY ONLY <1>m, <2>1, <2>3, Zenon
<1>6. ASSUME SysopAppendEnd(t) PROVE Moves(t)
  <2>1. PICK d : tran' = [tran EXCEPT ![t] = d] /\ d = [SysopEnded(tran[t]) EXCEPT !.pc = "sys_final"]
    BY ONLY <1>6, Zenon DEF SysopAppendEnd, Append1
  <2>2. tran[t].pc \notin {"cwp_state", "flush"}  BY ONLY <1>6, Zenon DEF SysopAppendEnd
  <2>3. DOMAIN d = Fields /\ d.pc \notin {"cwp_state", "flush"}
    BY ONLY <1>0, <2>1, <2>2, SMTT(20) DEF Fields, SysopEnded, Logged
  <2>. QED  BY ONLY <1>m, <2>1, <2>3, Zenon
<1>7. ASSUME SysopFinal(t) PROVE Moves(t)
  <2>1. PICK d : tran' = [tran EXCEPT ![t] = d] /\ d = [tran[t] EXCEPT !.topres = tran[t].tail, !.st = "ACTIVE",
                                               !.topops = <<>>, !.pc = "work"]
    BY ONLY <1>7, Zenon DEF SysopFinal, Set
  <2>2. tran[t].pc \notin {"cwp_state", "flush"}  BY ONLY <1>7, Zenon DEF SysopFinal
  <2>3. DOMAIN d = Fields /\ d.pc \notin {"cwp_state", "flush"}
    BY ONLY <1>0, <2>1, <2>2, SMTT(20) DEF Fields
  <2>. QED  BY ONLY <1>m, <2>1, <2>3, Zenon
<1>8. ASSUME SysopAbort(t) PROVE Moves(t)
  <2>1. PICK d : /\ tran' = [tran EXCEPT ![t] = d]
                 /\ \/ d = [tran[t] EXCEPT !.topops = <<>>]
                    \/ d = [tran[t] EXCEPT !.st = "ABORTED", !.pc = "sys_undo"]
    BY ONLY <1>8, Zenon DEF SysopAbort, Set
  <2>2. tran[t].pc \notin {"cwp_state", "flush"}  BY ONLY <1>8, Zenon DEF SysopAbort, Working
  <2>3. DOMAIN d = Fields /\ d.pc \notin {"cwp_state", "flush"}
    <3>1. CASE d = [tran[t] EXCEPT !.topops = <<>>]
      BY ONLY <1>0, <2>2, <3>1, SMTT(20) DEF Fields
    <3>2. CASE d = [tran[t] EXCEPT !.st = "ABORTED", !.pc = "sys_undo"]
      BY ONLY <1>0, <2>2, <3>2, SMTT(20) DEF Fields
    <3>. QED  BY ONLY <3>1, <3>2, <2>1, Zenon
  <2>. QED  BY ONLY <1>m, <2>1, <2>3, Zenon
<1>9. ASSUME SysopRollback(t) PROVE Moves(t)
  <2>1. PICK d : /\ tran' = [tran EXCEPT ![t] = d]
                 /\ \/ d = [Logged(tran[t]) EXCEPT !.undo = log[ToUndo(tran[t].undo, Head(tran[t].topops).parent)].prev]
                    \/ d = [SysopEnded(tran[t]) EXCEPT !.cache = {}, !.pc = "sys_final"]
    BY ONLY <1>9, Zenon DEF SysopRollback, Compensate, AppendAndApply, Append1
  <2>2. tran[t].pc \notin {"cwp_state", "flush"}  BY ONLY <1>9, Zenon DEF SysopRollback
  <2>3. DOMAIN d = Fields /\ d.pc \notin {"cwp_state", "flush"}
    <3>1. CASE d = [Logged(tran[t]) EXCEPT !.undo = log[ToUndo(tran[t].undo, Head(tran[t].topops).parent)].prev]
      BY ONLY <1>0, <2>2, <3>1, SMTT(20) DEF Fields, Logged
    <3>2. CASE d = [SysopEnded(tran[t]) EXCEPT !.cache = {}, !.pc = "sys_final"]
      BY ONLY <1>0, <2>2, <3>2, SMTT(20) DEF Fields, SysopEnded, Logged
    <3>. QED  BY ONLY <3>1, <3>2, <2>1, Zenon
  <2>. QED  BY ONLY <1>m, <2>1, <2>3, Zenon
<1>10. ASSUME Commit(t) PROVE Moves(t)
  <2>1. PICK d : tran' = [tran EXCEPT ![t] = d] /\ d = [tran[t] EXCEPT !.st = "WILL_COMMIT", !.undo = Null,
                       !.pc = IF tran[t].posp = Null THEN "complete" ELSE "cwp"]
    BY ONLY <1>10, Zenon DEF Commit, Set
  <2>2. tran[t].pc \notin {"cwp_state", "flush"}  BY ONLY <1>10, Zenon DEF Commit, Working
  <2>3. DOMAIN d = Fields /\ d.pc \notin {"cwp_state", "flush"}
    BY ONLY <1>0, <2>1, <2>2, SMTT(20) DEF Fields
  <2>. QED  BY ONLY <1>m, <2>1, <2>3, Zenon
<1>11. ASSUME RunPostpone(t) PROVE Moves(t)
  <2>1. PICK d : tran' = [tran EXCEPT ![t] = d] /\ d = [Logged(tran[t]) EXCEPT !.pend = @ \ {Min(tran[t].pend)}]
    BY ONLY <1>11, Zenon DEF RunPostpone, RunNext, AppendAndApply, Append1
  <2>2. tran[t].pc \notin {"cwp_state", "flush"}  BY ONLY <1>11, Zenon DEF RunPostpone
  <2>3. DOMAIN d = Fields /\ d.pc \notin {"cwp_state", "flush"}
    BY ONLY <1>0, <2>1, <2>2, SMTT(20) DEF Fields, Logged
  <2>. QED  BY ONLY <1>m, <2>1, <2>3, Zenon
<1>12. ASSUME Abort(t) PROVE Moves(t)
  <2>1. PICK d : tran' = [tran EXCEPT ![t] = d] /\ d = [tran[t] EXCEPT !.st = "ABORTED", !.pc = "undo"]
    BY ONLY <1>12, Zenon DEF Abort, Set
  <2>2. tran[t].pc \notin {"cwp_state", "flush"}  BY ONLY <1>12, Zenon DEF Abort, Working
  <2>3. DOMAIN d = Fields /\ d.pc \notin {"cwp_state", "flush"}
    BY ONLY <1>0, <2>1, <2>2, SMTT(20) DEF Fields
  <2>. QED  BY ONLY <1>m, <2>1, <2>3, Zenon
<1>13. ASSUME Rollback(t) PROVE Moves(t)
  <2>1. PICK d : /\ tran' = [tran EXCEPT ![t] = d]
                 /\ \/ d = [Logged(tran[t]) EXCEPT !.undo = log[ToUndo(tran[t].undo, Null)].prev]
                    \/ d = Gone
    BY ONLY <1>13, Zenon DEF Rollback, Compensate, AppendAndApply, Append1
  <2>2. tran[t].pc \notin {"cwp_state", "flush"}  BY ONLY <1>13, Zenon DEF Rollback
  <2>3. DOMAIN d = Fields /\ d.pc \notin {"cwp_state", "flush"}
    <3>1. CASE d = [Logged(tran[t]) EXCEPT !.undo = log[ToUndo(tran[t].undo, Null)].prev]
      BY ONLY <1>0, <2>2, <3>1, SMTT(20) DEF Fields, Logged
    <3>2. CASE d = Gone
      BY ONLY <1>0, <2>2, <3>2, SMTT(20) DEF Fields, Gone, Fresh
    <3>. QED  BY ONLY <3>1, <3>2, <2>1, Zenon
  <2>. QED  BY ONLY <1>m, <2>1, <2>3, Zenon
<1>14. Moves(t)
  BY <1>1, <1>2, <1>3, <1>4, <1>5, <1>6, <1>7, <1>8, <1>9, <1>10, <1>11, <1>12, <1>13, Zenon
<1>15. UNCHANGED <<flushed, acked>> /\ TranUnchanged /\ phase = "run"
  BY Zenon DEF Update, AppendPostpone, SysopStart, SysopCommit, SysopPostponed, SysopAppendEnd,
               SysopFinal, SysopAbort, SysopRollback, Commit, RunPostpone, Abort, Rollback,
               CanOp, Working
<1>16. Logs(t)
  <2>1. ASSUME Update(t, p) PROVE Logs(t)
    BY ONLY <2>1, LogsOf, RedoTypes, Zenon DEF Update
  <2>2. ASSUME AppendPostpone(t, p) PROVE Logs(t)  BY ONLY <2>2, Zenon DEF Logs
  <2>3. ASSUME SysopStart(t) \/ SysopPostponed(t) \/ SysopFinal(t) \/ SysopAbort(t) \/ Commit(t) \/ Abort(t)
        PROVE  Logs(t)
    BY ONLY <2>3, LogsOf, Zenon DEF SysopStart, SysopPostponed, SysopFinal, SysopAbort, Commit, Abort
  <2>4. ASSUME SysopCommit(t) PROVE Logs(t)
    BY ONLY <2>4, LogsOf, RedoTypes, Zenon DEF SysopCommit, SysopEnd
  <2>5. ASSUME SysopAppendEnd(t) PROVE Logs(t)
    BY ONLY <2>5, LogsOf, RedoTypes, Zenon DEF SysopAppendEnd, SysopEnd
  <2>6. ASSUME SysopRollback(t) PROVE Logs(t)
    BY ONLY <2>6, LogsOf, RedoTypes, Zenon DEF SysopRollback, Compensate, SysopEnd
  <2>7. ASSUME RunPostpone(t) PROVE Logs(t)
    BY ONLY <2>7, LogsOf, RedoTypes, Zenon DEF RunPostpone, RunNext
  <2>8. ASSUME Rollback(t) PROVE Logs(t)
    BY ONLY <2>8, LogsOf, RedoTypes, Zenon DEF Rollback, Compensate
  <2>. QED  BY <2>1, <2>2, <2>3, <2>4, <2>5, <2>6, <2>7, <2>8, Zenon
<1>. QED  BY ONLY <1>14, <1>15, <1>16, Zenon

\* The records of a transaction stay when the log grows.
LEMMA OfGrows ==
  ASSUME IsLog(log), Grows(log, log'), NEW t, NEW k
  PROVE  Of(t, k) \subseteq Of(t, k)'
<1>1. Len(log) \in Nat /\ Len(log') \in Nat /\ DOMAIN log = 1 .. Len(log) /\ DOMAIN log' = 1 .. Len(log')
  BY LogFacts, Zenon DEF Grows
<1>2. Len(log) <= Len(log') /\ \A i \in 1 .. Len(log) : log'[i] = log[i]  BY Zenon DEF Grows
<1>3. \A i \in 1 .. Len(log) : i \in 1 .. Len(log')  BY ONLY <1>1, <1>2
<1>. QED  BY ONLY <1>1, <1>2, <1>3, Zenon DEF Of

\* What the client was told stays true when the log grows, and what is known
\* of the descriptors when they stay.
LEMMA GrowKeeps ==
  ASSUME IInv, Grows(log, log'), flushed' \in Nat, flushed <= flushed', acked' = acked
  PROVE  /\ AckedIsDurable'
         /\ tran' = tran /\ (Serving' => Serving) => TransInv'
<1>1. Types /\ AckedIsDurable /\ TransInv  BY Zenon DEF IInv
<1>2. IsLog(log) /\ flushed \in Nat  BY ONLY <1>1, Zenon DEF Types, IsLog
<1>3. DOMAIN log = 1 .. Len(log) /\ Len(log) \in Nat  BY ONLY <1>2, LogFacts, Zenon
<1>4. \A s, k : Of(s, k) \subseteq Of(s, k)' /\ \A i \in Of(s, k) : i \in DOMAIN log
  <2>1. \A s, k : Of(s, k) \subseteq Of(s, k)'  BY ONLY Grows(log, log'), <1>2, OfGrows, Zenon
  <2>. QED  BY ONLY <2>1, Zenon DEF Of
<1>5. \A j \in DOMAIN log : j <= flushed => j <= flushed'  BY <1>2, <1>3
<1>6. AckedIsDurable'
  <2>1. ASSUME NEW t \in acked PROVE \E i \in Of(t, "COMMIT")' : i <= flushed'
    <3>1. PICK i \in Of(t, "COMMIT") : i <= flushed  BY ONLY <1>1, <2>1, Zenon DEF AckedIsDurable
    <3>. QED  BY ONLY <1>4, <1>5, <3>1, Zenon
  <2>. QED  BY <2>1, Zenon DEF AckedIsDurable
<1>7. ASSUME tran' = tran, NEW t, TranInv(t) PROVE TranInv(t)'
  BY ONLY <1>4, <1>7, Zenon DEF TranInv
<1>8. ASSUME tran' = tran, Serving' => Serving PROVE TransInv'
  BY ONLY <1>1, <1>7, <1>8, Zenon DEF TransInv
<1>. QED  BY ONLY <1>6, <1>8, Zenon

\* What a step that logs keeps.
LEMMA LoggingStep ==
  ASSUME IInv, ~RedoAhead, LogsAndApplies, UNCHANGED <<hdr, chk, phase>>
  PROVE  /\ Types' /\ ChkInv' /\ \A p \in Pages : PageInv(p)'
         /\ acked' = acked => AckedIsDurable'
         /\ \A t, k : Of(t, k) \subseteq Of(t, k)'
<1>1. Types /\ ChkInv /\ AckedIsDurable /\ \A p \in Pages : PageInv(p)  BY Zenon DEF IInv
<1>2. /\ Grows(log, log') /\ flushed' \in Nat /\ flushed <= flushed'
      /\ buf' \in [Pages -> Seq(Nat)] /\ disk' \in [Pages -> Seq(Nat)]
  BY <1>1, LogTypes, Zenon
<1>3. Types'
  <2>1. log' \in Seq(Members(log'))  BY ONLY <1>2, Zenon DEF Grows, IsLog
  <2>. QED  BY <1>1, <1>2, <2>1, Zenon DEF Types
<1>4. IsLog(log) /\ flushed \in Nat  BY ONLY <1>1, Zenon DEF Types, IsLog
<1>5. Len(log) \in Nat /\ Len(log') \in Nat /\ Len(log) <= Len(log') /\ DOMAIN log = 1 .. Len(log)
  BY ONLY <1>2, <1>4, LogFacts, Zenon DEF Grows
<1>6. ChkInv'
  <2>1. \A i \in 1 .. Len(log) : i \in 1 .. Len(log')  BY ONLY <1>5
  <2>2. chk' = chk /\ phase' = phase  BY Zenon
  <2>. QED  BY ONLY <1>1, <2>1, <2>2, Zenon DEF ChkInv, Serving
<1>7. \A t, k : Of(t, k) \subseteq Of(t, k)'  BY ONLY <1>2, <1>4, OfGrows, Zenon
<1>8. ASSUME acked' = acked PROVE AckedIsDurable'  BY ONLY IInv, <1>2, <1>8, GrowKeeps, Zenon
<1>9. \A p \in Pages : PageInv(p)'  BY <1>1, PageStays, Zenon
<1>. QED  BY ONLY <1>3, <1>6, <1>7, <1>8, <1>9, Zenon

\* A step of a running transaction keeps the invariant.
LEMMA RunningStep ==
  ASSUME IInv, NEW t \in Trans, TranStep(t)
  PROVE  IInv'
<1>1. phase = "run" /\ TranUnchanged
  <2>1. ASSUME NEW p, Update(t, p) \/ AppendPostpone(t, p) PROVE phase = "run" /\ TranUnchanged
    BY ONLY <2>1, Zenon DEF Update, AppendPostpone, CanOp, Working
  <2>. QED
    BY <2>1, Zenon DEF TranStep, SysopStart, SysopCommit, SysopPostponed, SysopAppendEnd,
       SysopFinal, SysopAbort, SysopRollback, Commit, CommitWithPostpone, CommitPostponeState,
       RunPostpone, AppendCommit, Completed, Abort, Rollback, CanOp, Working
<1>2. ~RedoAhead /\ Serving /\ disk' = disk /\ UNCHANGED <<hdr, chk, phase>>
  BY ONLY <1>1, Zenon DEF RedoAhead, Serving, TranUnchanged
<1>3. Types /\ DOMAIN tran = Trans /\ \A s \in Trans : TranInv(s)  BY <1>2, Zenon DEF IInv, TransInv
<1>4. flushed \in Nat /\ flushed <= flushed /\ IsLog(log) /\ Len(log) \in Nat
  <2>1. flushed \in Nat /\ IsLog(log)  BY ONLY <1>3, Zenon DEF Types, IsLog
  <2>2. flushed <= flushed  BY ONLY <2>1
  <2>. QED  BY ONLY <2>1, <2>2, LogFacts, Zenon
<1>5. DOMAIN tran[t] = Fields /\ t \in Trans  BY <1>3, Zenon DEF TranInv
\* A step that logs and moves only t keeps the invariant if it keeps that of t.
<1>6. ASSUME Logs(t), flushed' \in Nat, flushed <= flushed',
             DOMAIN tran' = Trans, \A s \in Trans : s # t => tran'[s] = tran[s],
             (\A u, k : Of(u, k) \subseteq Of(u, k)') => TranInv(t)' /\ (acked' = acked \/ AckedIsDurable')
      PROVE  IInv'
  <2>1. LogsAndApplies  BY ONLY <1>2, <1>3, <1>6, LogsApply, Zenon
  <2>2. /\ Types' /\ ChkInv' /\ \A p \in Pages : PageInv(p)'
        /\ acked' = acked => AckedIsDurable'
        /\ \A u, k : Of(u, k) \subseteq Of(u, k)'
    BY ONLY IInv, <1>2, <2>1, LoggingStep, Zenon
  <2>3. AckedIsDurable' /\ TranInv(t)'  BY ONLY <1>6, <2>2, Zenon
  <2>4. ASSUME NEW s \in Trans, s # t PROVE TranInv(s)'
    <3>1. tran'[s] = tran[s] /\ TranInv(s) /\ Of(s, "COMMIT") \subseteq Of(s, "COMMIT")'
      BY ONLY <1>3, <1>6, <2>2, <2>4, Zenon
    <3>. QED  BY ONLY <3>1, Zenon DEF TranInv
  <2>5. \A s \in Trans : TranInv(s)'  BY ONLY <2>3, <2>4, Zenon
  <2>6. TransInv'  BY ONLY <1>6, <2>5, Zenon DEF TransInv
  <2>. QED  BY ONLY <2>2, <2>3, <2>6, Zenon DEF IInv
<1>7. ASSUME Moves(t), Logs(t), UNCHANGED <<flushed, acked>> PROVE IInv'
  <2>1. /\ DOMAIN tran' = Trans /\ \A s \in Trans : s # t => tran'[s] = tran[s]
        /\ DOMAIN tran'[t] = Fields /\ tran'[t].pc \notin {"cwp_state", "flush"}
    BY ONLY <1>7, Zenon DEF Moves
  <2>2. TranInv(t)'  BY ONLY <2>1, Zenon DEF TranInv
  <2>3. flushed' \in Nat /\ flushed <= flushed' /\ acked' = acked  BY ONLY <1>4, <1>7, Zenon
  <2>. QED  BY ONLY <1>6, <1>7, <2>1, <2>2, <2>3, Zenon
<1>8. ASSUME NEW d, tran' = [tran EXCEPT ![t] = d]
      PROVE  DOMAIN tran' = Trans /\ (\A s \in Trans : s # t => tran'[s] = tran[s]) /\ tran'[t] = d
  BY ONLY <1>3, <1>5, <1>8, Zenon
<1>9. ASSUME CommitWithPostpone(t) PROVE IInv'
  <2>1. PICK d : /\ tran' = [tran EXCEPT ![t] = d]
                 /\ d = [Logged(Postponed(t, tran[t], tran[t].posp)) EXCEPT !.tposp = Lsa, !.pc = "cwp_state"]
    BY ONLY <1>9, Zenon DEF CommitWithPostpone, Append1
  <2>2. DOMAIN d = Fields /\ d.pc = "cwp_state" /\ d.tposp = Lsa
    BY ONLY <1>5, <2>1, SMTT(20) DEF Fields, Logged, Postponed
  <2>3. Lsa \in Nat  BY ONLY <1>4 DEF Lsa
  <2>4. TranInv(t)'
    <3>1. d.pc # "flush" /\ d.tposp \in Nat  BY ONLY <2>2, <2>3, Zenon
    <3>. QED  BY ONLY <1>8, <2>1, <2>2, <3>1, Zenon DEF TranInv
  <2>5. Logs(t)  BY ONLY <1>9, LogsOf, RedoTypes, Zenon DEF CommitWithPostpone
  <2>6. flushed' \in Nat /\ flushed <= flushed' /\ acked' = acked
    BY ONLY <1>4, <1>9, Zenon DEF CommitWithPostpone
  <2>. QED  BY ONLY <1>6, <1>8, <2>1, <2>4, <2>5, <2>6, Zenon
<1>10. ASSUME AppendCommit(t) PROVE IInv'
  <2>1. PICK d : /\ tran' = [tran EXCEPT ![t] = d]
                 /\ d = [Logged(tran[t]) EXCEPT !.pc = "flush"]
    BY ONLY <1>10, Zenon DEF AppendCommit, Append1
  <2>2. DOMAIN d = Fields /\ d.pc = "flush" /\ d.tail = Lsa
    BY ONLY <1>5, <2>1, SMTT(20) DEF Fields, Logged
  <2>3. Lsa \in Nat /\ Lsa = Len(log) + 1  BY ONLY <1>4 DEF Lsa
  <2>4. PICK r : r = Rec("COMMIT", t, NoPage, Null, Null)  BY ONLY Zenon
  <2>5. log' = Append(log, r) /\ r.type = "COMMIT" /\ r.trid = t
    <3>1. log' = Append(log, r)  BY ONLY <1>10, <2>4, Zenon DEF AppendCommit, Append1
    <3>2. r.type = "COMMIT" /\ r.trid = t  BY ONLY <2>4, SMTT(20) DEF Rec
    <3>. QED  BY ONLY <3>1, <3>2, Zenon
  <2>6. Lsa \in Of(t, "COMMIT")'
    <3>1. Grows(log, log') /\ Len(log') = Len(log) + 1 /\ log'[Len(log) + 1] = r
      BY ONLY <1>4, <2>5, AppendLog, Zenon
    <3>2. DOMAIN log' = 1 .. Len(log')  BY ONLY <3>1, LogFacts, Zenon DEF Grows
    <3>3. Len(log) + 1 \in 1 .. Len(log')  BY ONLY <1>4, <3>1
    <3>. QED  BY ONLY <2>3, <2>5, <3>1, <3>2, <3>3, Zenon DEF Of
  <2>7. TranInv(t)'
    <3>1. d.pc # "cwp_state"  BY ONLY <2>2, Zenon
    <3>. QED  BY ONLY <1>8, <2>1, <2>2, <2>3, <2>6, <3>1, Zenon DEF TranInv
  <2>8. Logs(t)  BY ONLY <1>10, LogsOf, RedoTypes, Zenon DEF AppendCommit
  <2>9. flushed' \in Nat /\ flushed <= flushed' /\ acked' = acked
    BY ONLY <1>4, <1>10, Zenon DEF AppendCommit
  <2>. QED  BY ONLY <1>6, <1>8, <2>1, <2>7, <2>8, <2>9, Zenon
<1>11. ASSUME CommitPostponeState(t) PROVE IInv'
  <2>1. PICK d : /\ tran' = [tran EXCEPT ![t] = d]
                 /\ d = [tran[t] EXCEPT !.st = "COMMITTED_WITH_POSTPONE", !.pc = "post"]
    BY ONLY <1>11, Zenon DEF CommitPostponeState, Set
  <2>2. DOMAIN d = Fields /\ d.pc = "post"  BY ONLY <1>5, <2>1, SMTT(20) DEF Fields
  <2>3. TranInv(t)'
    <3>1. d.pc # "cwp_state" /\ d.pc # "flush"  BY ONLY <2>2, Zenon
    <3>. QED  BY ONLY <1>8, <2>1, <2>2, <3>1, Zenon DEF TranInv
  <2>4. Logs(t)  BY ONLY <1>11, LogsOf, Zenon DEF CommitPostponeState
  <2>5. tran[t].tposp \in Nat /\ flushed' = Max({flushed, tran[t].tposp}) /\ acked' = acked
    BY ONLY <1>3, <1>5, <1>11, Zenon DEF CommitPostponeState, TranInv, FlushedTo
  <2>6. flushed' \in Nat /\ flushed <= flushed'  BY ONLY <1>4, <2>5, MaxOfTwo, Zenon
  <2>. QED  BY ONLY <1>6, <1>8, <2>1, <2>3, <2>4, <2>5, <2>6, Zenon
<1>12. ASSUME Completed(t) PROVE IInv'
  <2>1. tran' = [tran EXCEPT ![t] = Gone] /\ acked' = acked \cup {t} /\ log' = log
    BY ONLY <1>12, Zenon DEF Completed, Set
  <2>2. DOMAIN Gone = Fields /\ Gone.pc = "work"  BY ONLY SMT DEF Gone, Fresh, Fields
  <2>3. TranInv(t)'
    <3>1. Gone.pc # "cwp_state" /\ Gone.pc # "flush"  BY ONLY <2>2, Zenon
    <3>. QED  BY ONLY <1>8, <2>1, <2>2, <3>1, Zenon DEF TranInv
  <2>4. Logs(t)  BY ONLY <1>12, LogsOf, Zenon DEF Completed
  <2>5. PICK i : i = tran[t].tail  BY ONLY Zenon
  <2>6. i \in Nat /\ i \in Of(t, "COMMIT") /\ flushed' = Max({flushed, i})
    BY ONLY <1>3, <1>5, <1>12, <2>5, Zenon DEF Completed, TranInv, FlushedTo
  <2>7. flushed' \in Nat /\ flushed <= flushed' /\ i <= flushed'  BY ONLY <1>4, <2>6, MaxOfTwo, Zenon
  <2>8. AckedIsDurable'
    <3>1. AckedIsDurable  BY Zenon DEF IInv
    <3>2. \A s : Of(s, "COMMIT")' = Of(s, "COMMIT")  BY ONLY <2>1, Zenon DEF Of
    <3>3. \A s : \A j \in Of(s, "COMMIT") : j \in Nat
      <4>1. DOMAIN log = 1 .. Len(log)  BY ONLY <1>4, LogFacts, Zenon
      <4>2. \A j \in DOMAIN log : j \in Nat  BY ONLY <1>4, <4>1
      <4>. QED  BY ONLY <4>2, Zenon DEF Of
    <3>4. \A j \in Nat : j <= flushed => j <= flushed'  BY ONLY <1>4, <2>7
    <3>. QED  BY ONLY <2>1, <2>6, <2>7, <3>1, <3>2, <3>3, <3>4, Zenon DEF AckedIsDurable
  <2>. QED  BY ONLY <1>6, <1>8, <2>1, <2>3, <2>4, <2>7, <2>8, Zenon
<1>13. ASSUME NEW p,
              \/ Update(t, p) \/ AppendPostpone(t, p)
              \/ SysopStart(t) \/ SysopCommit(t) \/ SysopPostponed(t) \/ SysopAppendEnd(t)
              \/ SysopFinal(t) \/ SysopAbort(t) \/ SysopRollback(t)
              \/ Commit(t) \/ RunPostpone(t) \/ Abort(t) \/ Rollback(t)
       PROVE  IInv'
  <2>1. Moves(t) /\ Logs(t) /\ UNCHANGED <<flushed, acked>>
    BY ONLY <1>3, <1>5, <1>13, StepsThatMove, Zenon
  <2>. QED  BY ONLY <1>7, <2>1, Zenon
<1>. QED  BY <1>9, <1>10, <1>11, <1>12, <1>13, Zenon DEF TranStep
-----------------------------------------------------------------------------
(* The steps of recovery that log. *)

LEMMA RecoveryLogs ==
  ASSUME IInv, NEW t \in Trans,
         \/ FinishInterrupted(t) \/ FinishFind(t) \/ FinishRun(t) \/ FinishEnd(t) \/ Undo(t)
  PROVE  IInv'
<1>1. /\ phase \in {"postpone", "undo"} /\ UNCHANGED <<hdr, chk, phase>>
      /\ disk' = disk /\ acked' = acked
  BY Zenon DEF FinishInterrupted, FinishFind, FinishRun, FinishEnd, Undo, Finishing, RvUnchanged
<1>2. ~RedoAhead /\ ~Serving /\ phase' = phase  BY ONLY <1>1, Zenon DEF RedoAhead, Serving
<1>3. Types /\ flushed \in Nat /\ IsLog(log)  BY Zenon DEF IInv, Types, IsLog
<1>4. Logs(t)
  <2>1. ASSUME FinishInterrupted(t) PROVE Logs(t)
    BY ONLY <2>1, LogsOf, RedoTypes, Zenon DEF FinishInterrupted
  <2>2. ASSUME FinishFind(t) PROVE Logs(t)  BY ONLY <2>2, LogsOf, Zenon DEF FinishFind
  <2>3. ASSUME FinishRun(t) PROVE Logs(t)
    BY ONLY <2>3, LogsOf, RedoTypes, Zenon DEF FinishRun, RunNext
  <2>4. ASSUME FinishEnd(t) PROVE Logs(t)
    BY ONLY <2>4, LogsOf, RedoTypes, Zenon DEF FinishEnd, SysopEnd
  <2>5. ASSUME Undo(t) PROVE Logs(t)
    BY ONLY <2>5, LogsOf, RedoTypes, Zenon DEF Undo, Compensate
  <2>. QED  BY <2>1, <2>2, <2>3, <2>4, <2>5, Zenon
<1>5. flushed' \in Nat /\ flushed <= flushed'
  <2>1. flushed' = flushed \/ flushed' = Max({flushed, Lsa})
    BY Zenon DEF FinishInterrupted, FinishFind, FinishRun, FinishEnd, Undo, FlushedTo
  <2>2. Len(log) \in Nat  BY ONLY <1>3, LogFacts, Zenon
  <2>3. Lsa \in Nat /\ flushed <= flushed  BY ONLY <1>3, <2>2 DEF Lsa
  <2>. QED  BY ONLY <1>3, <2>1, <2>3, MaxOfTwo, Zenon
<1>6. LogsAndApplies  BY ONLY <1>1, <1>3, <1>4, <1>5, LogsApply, Zenon
<1>7. Types' /\ ChkInv' /\ (\A p \in Pages : PageInv(p)') /\ AckedIsDurable'
  BY ONLY IInv, <1>1, <1>2, <1>6, LoggingStep, Zenon
<1>8. TransInv'  BY ONLY <1>2, Zenon DEF TransInv, Serving
<1>. QED  BY ONLY <1>7, <1>8, Zenon DEF IInv

-----------------------------------------------------------------------------
(* Flushing pages. *)

\* The log of a page is up to its page LSA, and that is in the log.
LEMMA PageLsaInLog ==
  ASSUME Types, NEW p \in Pages, PageInv(p)
  PROVE  /\ PageLsa(buf[p]) \in 0 .. Len(log)
         /\ ~RedoAhead => \A i \in Redos(log, p) : i <= PageLsa(buf[p])
<1>1. buf[p] \in Seq(Nat) /\ Sorted(buf[p]) /\ IsLog(log)  BY Zenon DEF Types, PageInv, IsLog
<1>2. Len(log) \in Nat  BY ONLY <1>1, LogFacts, Zenon
<1>3. PICK e : e = PageLsa(buf[p])  BY ONLY Zenon
<1>4. e \in Nat /\ (\A i \in Members(buf[p]) : i <= e) /\ (e = 0 \/ e \in Members(buf[p]))
  BY ONLY <1>1, <1>3, PageLsaFacts, Zenon
<1>5. Members(buf[p]) \subseteq Redos(log, p)
  <2>1. CASE RedoAhead
    <3>1. buf[p] = disk[p] /\ Covers(disk[p], log, p, AnalysisStart, flushed)
      BY <2>1, Zenon DEF PageInv
    <3>. QED  BY ONLY <3>1, Zenon DEF Covers, UpTo
  <2>2. CASE ~RedoAhead  BY <2>2, Zenon DEF PageInv
  <2>. QED  BY ONLY <2>1, <2>2, Zenon
<1>6. Redos(log, p) \subseteq 1 .. Len(log)  BY ONLY Zenon DEF Redos
<1>7. e \in 0 .. Len(log)
  <2>1. e = 0 \/ e \in 1 .. Len(log)  BY ONLY <1>4, <1>5, <1>6, Zenon
  <2>. QED  BY ONLY <1>2, <2>1
<1>8. ~RedoAhead => \A i \in Redos(log, p) : i <= e
  <2>1. ~RedoAhead => Members(buf[p]) = Redos(log, p)  BY Zenon DEF PageInv
  <2>. QED  BY ONLY <1>4, <2>1, Zenon
<1>. QED  BY ONLY <1>3, <1>7, <1>8, Zenon

\* A page is written after the log that describes it.
LEMMA WritePage ==
  ASSUME Types, NEW p \in Pages, PageInv(p), ~RedoAhead,
         NEW g \in Nat, flushed <= g, PageLsa(buf[p]) <= g
  PROVE  /\ Sorted(buf[p]) /\ Prefix(buf[p], buf[p]) /\ Members(buf[p]) = Redos(log, p)
         /\ \A a \in Nat : Covers(disk[p], log, p, a, flushed) => Covers(buf[p], log, p, a, g)
<1>1. IsLog(log) /\ flushed \in Nat /\ buf[p] \in Seq(Nat)  BY Zenon DEF Types, IsLog
<1>2. Sorted(buf[p]) /\ Members(buf[p]) = Redos(log, p)  BY Zenon DEF PageInv
<1>3. PICK e : e = PageLsa(buf[p])  BY ONLY Zenon
<1>4. e \in 0 .. Len(log) /\ (\A i \in Redos(log, p) : i <= e) /\ e <= g
  BY <1>3, PageLsaInLog, Zenon
<1>5. ASSUME NEW a \in Nat, Covers(disk[p], log, p, a, flushed)
      PROVE  Covers(buf[p], log, p, a, g)
  BY ONLY g \in Nat, flushed <= g, <1>1, <1>2, <1>4, <1>5, CoversAll, Zenon
<1>6. Prefix(buf[p], buf[p])
  <2>1. Len(buf[p]) \in Nat  BY ONLY <1>1
  <2>2. Len(buf[p]) <= Len(buf[p])  BY ONLY <2>1
  <2>. QED  BY ONLY <2>2, Zenon DEF Prefix
<1>. QED  BY ONLY <1>2, <1>5, <1>6, Zenon

\* A page is not written.
LEMMA KeepPage ==
  ASSUME Types, NEW p, NEW g \in Nat, flushed <= g, NEW a, Covers(disk[p], log, p, a, flushed)
  PROVE  Covers(disk[p], log, p, a, g)
<1>1. IsLog(log) /\ flushed \in Nat  BY Zenon DEF Types, IsLog
<1>2. Grows(log, log)  BY ONLY <1>1, GrowsNot, Zenon
<1>. QED  BY <1>1, <1>2, CoversGrow, Zenon

\* pgbuf_bcb_flush_with_wal
LEMMA FlushPageStep ==
  ASSUME IInv, NEW p \in Pages, FlushPage(p)
  PROVE  IInv'
<1>1. Types /\ ChkInv /\ \A q \in Pages : PageInv(q)  BY Zenon DEF IInv
<1>2. /\ buf[p] # disk[p] /\ flushed' = Max({flushed, PageLsa(buf[p])})
      /\ disk' = [disk EXCEPT ![p] = buf[p]] /\ UNCHANGED <<log, hdr, buf, tran, phase, chk, acked>>
  BY Zenon DEF FlushPage, FlushedTo
<1>3. /\ IsLog(log) /\ flushed \in Nat /\ hdr \in Nat /\ buf[p] \in Seq(Nat)
      /\ disk \in [Pages -> Seq(Nat)] /\ buf \in [Pages -> Seq(Nat)]
      /\ chk \in [pc : {"idle", "pages", "table", "header"}, start : Nat]
  BY ONLY <1>1, p \in Pages, Zenon DEF Types, IsLog
<1>4. ~RedoAhead /\ Len(log) \in Nat
  <2>1. ~RedoAhead  BY ONLY <1>1, <1>2, p \in Pages, Zenon DEF PageInv
  <2>. QED  BY ONLY <1>3, <2>1, LogFacts, Zenon
<1>5. PICK e : e = PageLsa(buf[p])  BY ONLY Zenon
<1>6. e \in 0 .. Len(log) /\ \A i \in Redos(log, p) : i <= e
  BY ONLY <1>1, <1>4, <1>5, p \in Pages, PageLsaInLog, Zenon
<1>7. flushed' \in Nat /\ flushed <= flushed' /\ e <= flushed'
  <2>1. e \in Nat  BY ONLY <1>4, <1>6
  <2>. QED  BY ONLY <1>2, <1>3, <1>5, <2>1, MaxOfTwo, Zenon
<1>8. /\ disk'[p] = buf[p] /\ disk' \in [Pages -> Seq(Nat)]
      /\ \A q \in Pages : q # p => disk'[q] = disk[q]
  BY ONLY <1>2, <1>3, p \in Pages, Zenon
<1>9. AnalysisStart \in Nat /\ chk.start \in Nat
  <2>1. AnalysisStart \in Nat  BY ONLY <1>3 DEF AnalysisStart
  <2>. QED  BY ONLY <1>3, <2>1
<1>10. PageInv(p)'
  <2>1. /\ Sorted(buf[p]) /\ Prefix(buf[p], buf[p]) /\ Members(buf[p]) = Redos(log, p)
        /\ \A a \in Nat : Covers(disk[p], log, p, a, flushed) => Covers(buf[p], log, p, a, flushed')
    BY ONLY p \in Pages, <1>1, <1>4, <1>5, <1>7, WritePage, Zenon
  <2>2. /\ Covers(disk[p], log, p, AnalysisStart, flushed)
        /\ chk.pc \in {"table", "header"} => Covers(disk[p], log, p, chk.start, flushed)
    BY ONLY <1>1, p \in Pages, Zenon DEF PageInv
  <2>3. AnalysisStart' = AnalysisStart /\ ~RedoAhead'
    BY ONLY <1>2, <1>4, Zenon DEF AnalysisStart, RedoAhead
  <2>. QED  BY ONLY <1>2, <1>8, <1>9, <2>1, <2>2, <2>3, Zenon DEF PageInv
<1>11. ASSUME NEW q \in Pages, q # p PROVE PageInv(q)'
  <2>1. PageInv(q)  BY ONLY <1>1, <1>11, Zenon
  <2>2. ASSUME NEW a, Covers(disk[q], log, q, a, flushed) PROVE Covers(disk[q], log, q, a, flushed')
    BY ONLY <1>1, <1>7, <2>2, KeepPage, Zenon
  <2>3. disk'[q] = disk[q] /\ AnalysisStart' = AnalysisStart /\ (RedoAhead' <=> RedoAhead)
    BY ONLY <1>2, <1>8, <1>11, Zenon DEF AnalysisStart, RedoAhead
  <2>. QED  BY ONLY <1>2, <2>1, <2>2, <2>3, Zenon DEF PageInv
<1>12. Types'  BY ONLY <1>1, <1>2, <1>7, <1>8, Zenon DEF Types
<1>13. ChkInv'  BY ONLY <1>1, <1>2, Zenon DEF ChkInv, Serving
<1>14. AckedIsDurable' /\ TransInv'
  <2>1. Grows(log, log')  BY ONLY <1>2, <1>3, GrowsNot, Zenon
  <2>2. Serving' => Serving  BY ONLY <1>2, Zenon DEF Serving
  <2>. QED  BY ONLY IInv, <1>2, <1>7, <2>1, <2>2, GrowKeeps, Zenon
<1>. QED  BY ONLY <1>10, <1>11, <1>12, <1>13, <1>14, Zenon DEF IInv
-----------------------------------------------------------------------------
(* The checkpoint. *)

\* A checkpoint logs one record of its own, at its start and at its end.
LEMMA ChkptLogs ==
  ASSUME IInv, NEW r, ~HasRedo(r), log' = Append(log, r), UNCHANGED <<hdr, buf, disk, phase, tran, acked>>,
         flushed' \in Nat, flushed <= flushed', chk.pc # "idle" \/ Serving,
         chk' \in [pc : {"pages", "table", "header"}, start : Nat], chk'.start \in 1 .. Len(log) + 1,
         chk'.pc \in {"table", "header"} => chk.pc \in {"table", "header"} /\ chk'.start = chk.start
  PROVE  IInv'
<1>1. Types /\ ChkInv /\ \A p \in Pages : PageInv(p)  BY Zenon DEF IInv
<1>2. IsLog(log)  BY ONLY <1>1, Zenon DEF Types, IsLog
<1>3. Grows(log, log') /\ NoRedo(log, log') /\ Len(log') = Len(log) + 1
  BY <1>2, AppendNoRedo, AppendLog, Zenon
<1>4. LogsAndApplies  BY <1>3, Zenon DEF LogsAndApplies
<1>5. Serving /\ ~RedoAhead /\ phase' = phase
  <2>1. Serving  BY <1>1, Zenon DEF ChkInv
  <2>. QED  BY <2>1, Zenon DEF Serving, RedoAhead
<1>6. Types'
  <2>1. chk' \in [pc : {"idle", "pages", "table", "header"}, start : Nat]  OBVIOUS
  <2>2. log' \in Seq(Members(log'))  BY ONLY <1>3, Zenon DEF Grows, IsLog
  <2>. QED  BY <1>1, <2>1, <2>2, Zenon DEF Types
<1>7. ChkInv'  BY <1>3, <1>5, Zenon DEF ChkInv, Serving
<1>8. AckedIsDurable' /\ TransInv'
  <2>1. Serving' => Serving  BY ONLY <1>5, Zenon DEF Serving
  <2>. QED  BY <1>3, <2>1, GrowKeeps, Zenon
<1>9. ASSUME NEW p \in Pages PROVE PageInv(p)'
  <2>1. /\ Sorted(buf'[p]) /\ Prefix(disk'[p], buf'[p]) /\ Members(buf'[p]) = Redos(log', p)
        /\ \A a : Covers(disk[p], log, p, a, flushed) => Covers(disk'[p], log', p, a, flushed')
    BY ONLY <1>1, <1>4, <1>5, <1>9, PageLogged, Zenon
  <2>2. AnalysisStart' = AnalysisStart /\ ~RedoAhead'  BY <1>5, Zenon DEF AnalysisStart, RedoAhead
  <2>3. /\ Covers(disk[p], log, p, AnalysisStart, flushed)
        /\ chk.pc \in {"table", "header"} => Covers(disk[p], log, p, chk.start, flushed)
    BY ONLY <1>1, <1>9, Zenon DEF PageInv
  <2>4. chk'.pc \in {"table", "header"} => Covers(disk[p], log, p, chk'.start, flushed)
    <3>1. chk'.pc \in {"table", "header"} => chk.pc \in {"table", "header"} /\ chk'.start = chk.start
      OBVIOUS
    <3>. QED  BY ONLY <2>3, <3>1, Zenon
  <2>. QED  BY ONLY <2>1, <2>2, <2>3, <2>4, Zenon DEF PageInv
<1>. QED  BY ONLY <1>6, <1>7, <1>8, <1>9, Zenon DEF IInv

LEMMA ChkptStartStep ==
  ASSUME IInv, ChkptStart
  PROVE  IInv'
<1>1. IsLog(log) /\ flushed \in Nat  BY Zenon DEF IInv, Types, IsLog
<1>2. Len(log) \in Nat  BY ONLY <1>1, LogFacts, Zenon
<1>3. PICK r : r = [type |-> "START_CHKPT", trid |-> Null]  BY ONLY Zenon
<1>4. /\ log' = Append(log, r) /\ UNCHANGED <<hdr, buf, disk, phase, tran, acked>>
      /\ flushed' = Max({flushed, Len(log)}) /\ Serving /\ chk' = [pc |-> "pages", start |-> Lsa]
  BY <1>3, Zenon DEF ChkptStart, FlushedTo, ChkUnchanged, Serving
<1>5. ~HasRedo(r)  BY ONLY <1>3, SMTT(20) DEF HasRedo
<1>6. flushed' \in Nat /\ flushed <= flushed'  BY ONLY <1>1, <1>2, <1>4, MaxOfTwo, Zenon
<1>7. /\ chk' \in [pc : {"pages", "table", "header"}, start : Nat] /\ chk'.start \in 1 .. Len(log) + 1
      /\ chk'.pc \notin {"table", "header"}
  BY ONLY <1>2, <1>4 DEF Lsa
<1>. QED  BY ONLY IInv, <1>4, <1>5, <1>6, <1>7, ChkptLogs, Zenon

LEMMA ChkptTableStep ==
  ASSUME IInv, ChkptTable
  PROVE  IInv'
<1>1. /\ IsLog(log) /\ flushed \in Nat /\ ChkInv
      /\ chk \in [pc : {"idle", "pages", "table", "header"}, start : Nat]
  BY Zenon DEF IInv, Types, IsLog
<1>2. Len(log) \in Nat  BY ONLY <1>1, LogFacts, Zenon
<1>3. PICK r : r = [type |-> "END_CHKPT", trid |-> Null,
                    trans |-> [t \in Checkpointed |-> Snapshot(tran[t])],
                    tops |-> [t \in Topops |-> tran[t].sposp]]
  BY ONLY Zenon
<1>4. /\ log' = Append(log, r) /\ UNCHANGED <<hdr, buf, disk, phase, tran, acked>>
      /\ flushed' = flushed /\ chk.pc = "table" /\ chk' = [chk EXCEPT !.pc = "header"]
  BY <1>3, Zenon DEF ChkptTable, ChkUnchanged
<1>5. ~HasRedo(r)
  <2>1. r.type = "END_CHKPT"  BY ONLY <1>3, SMT
  <2>. QED  BY ONLY <2>1, SMTT(20) DEF HasRedo
<1>6. flushed' \in Nat /\ flushed <= flushed'  BY ONLY <1>1, <1>4, SMT
<1>7. chk.pc # "idle" /\ chk.pc \in {"table", "header"}  BY ONLY <1>4, Zenon
<1>8. chk.start \in 1 .. Len(log)  BY ONLY <1>1, <1>7, Zenon DEF ChkInv
<1>9. /\ chk' \in [pc : {"pages", "table", "header"}, start : Nat] /\ chk'.start \in 1 .. Len(log) + 1
      /\ chk'.start = chk.start
  BY ONLY <1>1, <1>2, <1>4, <1>8, SMT
<1>. QED  BY ONLY IInv, <1>4, <1>5, <1>6, <1>7, <1>9, ChkptLogs, Zenon

\* pgbuf_flush_checkpoint leaves a page that is clean, or that was dirtied after
\* the start: it has all changes up to there.
LEMMA LeftPage ==
  ASSUME Types, NEW p \in Pages, PageInv(p), ~RedoAhead, NEW b \in Nat,
         ~(buf[p] # disk[p] /\ OldestUnflushed(p) <= b)
  PROVE  \A i \in Redos(log, p) : i <= b => i \in Members(disk[p])
<1>1. buf[p] \in Seq(Nat) /\ disk[p] \in Seq(Nat)  BY Zenon DEF Types
<1>2. Sorted(buf[p]) /\ Prefix(disk[p], buf[p]) /\ Members(buf[p]) = Redos(log, p)  BY Zenon DEF PageInv
<1>3. CASE buf[p] = disk[p]  BY ONLY <1>2, <1>3, Zenon
<1>4. CASE buf[p] # disk[p]
  <2>0. PICK x, y : x = buf[p] /\ y = disk[p]  OBVIOUS
  <2>1. /\ x \in Seq(Nat) /\ y \in Seq(Nat) /\ Sorted(x) /\ Prefix(y, x) /\ Members(x) = Redos(log, p)
        /\ ~(x[Len(y) + 1] <= b)
    BY <1>1, <1>2, <1>4, <2>0, Zenon DEF OldestUnflushed
  <2>2. Len(x) \in Nat /\ Len(y) \in Nat /\ \A i \in 1 .. Len(x) : x[i] \in Nat  BY ONLY <2>1
  <2>3. ASSUME NEW i \in Members(x), i <= b PROVE i \in Members(y)
    <3>1. PICK k \in 1 .. Len(x) : i = x[k]  BY ONLY <2>3, Zenon DEF Members
    <3>2. CASE k <= Len(y)
      <4>1. k \in 1 .. Len(y)  BY ONLY <2>2, <3>1, <3>2
      <4>2. y[k] = i  BY ONLY <2>1, <3>1, <4>1, Zenon DEF Prefix
      <4>. QED  BY ONLY <4>1, <4>2, Zenon DEF Members
    <3>3. CASE ~(k <= Len(y))
      <4>1. Len(y) + 1 \in 1 .. Len(x) /\ (k = Len(y) + 1 \/ Len(y) + 1 < k)  BY ONLY <2>2, <3>1, <3>3
      <4>2. k = Len(y) + 1 \/ x[Len(y) + 1] < x[k]  BY ONLY <2>1, <3>1, <4>1, Zenon DEF Sorted
      <4>3. x[Len(y) + 1] \in Nat /\ x[k] \in Nat /\ x[k] <= b  BY ONLY <2>2, <2>3, <3>1, <4>1, Zenon
      <4>4. x[Len(y) + 1] <= b
        <5>1. CASE k = Len(y) + 1  BY ONLY <4>3, <5>1, Zenon
        <5>2. CASE x[Len(y) + 1] < x[k]  BY ONLY <4>3, <5>2, b \in Nat
        <5>. QED  BY ONLY <4>2, <5>1, <5>2, Zenon
      <4>. QED  BY ONLY <2>1, <4>4, Zenon
    <3>. QED  BY ONLY <3>2, <3>3, Zenon
  <2>. QED  BY ONLY <2>0, <2>1, <2>3, Zenon
<1>. QED  BY ONLY <1>3, <1>4, Zenon

LEMMA ChkptPagesStep ==
  ASSUME IInv, ChkptPages
  PROVE  IInv'
<1>. DEFINE old == {p \in Pages : buf[p] # disk[p] /\ OldestUnflushed(p) <= chk.start}
            lsas == {chk.start} \cup {PageLsa(buf[p]) : p \in old}
<1>1. Types /\ ChkInv /\ \A p \in Pages : PageInv(p)  BY Zenon DEF IInv
<1>2. /\ chk.pc = "pages" /\ flushed' = Max({flushed, Max(lsas)})
      /\ disk' = [p \in Pages |-> IF p \in old THEN buf[p] ELSE disk[p]]
      /\ chk' = [chk EXCEPT !.pc = "table"] /\ UNCHANGED <<log, hdr, buf, tran, phase, acked>>
  BY Zenon DEF ChkptPages, FlushedTo, ChkUnchanged
<1>3. /\ IsLog(log) /\ flushed \in Nat /\ hdr \in Nat /\ buf \in [Pages -> Seq(Nat)] /\ disk \in [Pages -> Seq(Nat)]
      /\ chk \in [pc : {"idle", "pages", "table", "header"}, start : Nat]
  BY ONLY <1>1, Zenon DEF Types, IsLog
<1>4. Len(log) \in Nat  BY ONLY <1>3, LogFacts, Zenon
<1>5. Serving /\ ~RedoAhead /\ chk.start \in 1 .. Len(log)
  <2>1. chk.pc # "idle"  BY ONLY <1>2, Zenon
  <2>. QED  BY ONLY <1>1, <2>1, Zenon DEF ChkInv, Serving, RedoAhead
<1>6. Max(lsas) \in 0 .. Len(log) /\ \A y \in lsas : y <= Max(lsas)
  <2>1. \A p \in Pages : PageLsa(buf[p]) \in 0 .. Len(log)  BY ONLY <1>1, PageLsaInLog, Zenon
  <2>2. chk.start \in 0 .. Len(log)  BY ONLY <1>4, <1>5
  <2>3. lsas \in SUBSET (0 .. Len(log)) /\ lsas # {}  BY ONLY <2>1, <2>2, Zenon
  <2>. HIDE DEF lsas
  <2>. QED  BY ONLY <1>4, <2>3, MaxFacts, Zenon
<1>7. chk.start \in lsas /\ \A p \in old : PageLsa(buf[p]) \in lsas  BY ONLY Zenon
<1>8. PICK m : m = Max(lsas)  BY ONLY Zenon
<1>9. flushed' \in Nat /\ flushed <= flushed' /\ m \in Nat /\ m <= flushed'
  <2>1. m \in Nat  BY ONLY <1>4, <1>6, <1>8
  <2>. HIDE DEF lsas
  <2>. QED  BY ONLY <1>2, <1>3, <1>8, <2>1, MaxOfTwo, Zenon
<1>10. chk.start <= flushed' /\ chk.start \in Nat
  <2>1. chk.start <= m  BY ONLY <1>6, <1>7, <1>8, Zenon
  <2>. QED  BY ONLY <1>4, <1>5, <1>9, <2>1
<1>11. \A p \in old : PageLsa(buf[p]) <= flushed'
  <2>1. ASSUME NEW p \in old PROVE PageLsa(buf[p]) <= flushed'
    <3>1. PICK e : e = PageLsa(buf[p])  BY ONLY Zenon
    <3>2. e <= m /\ p \in Pages  BY ONLY <1>6, <1>7, <1>8, <2>1, <3>1, Zenon
    <3>3. e \in 0 .. Len(log)  BY ONLY <1>1, <3>1, <3>2, PageLsaInLog, Zenon
    <3>4. e <= flushed'  BY ONLY <1>4, <1>9, <3>2, <3>3
    <3>. QED  BY ONLY <3>1, <3>4, Zenon
  <2>. QED  BY ONLY <2>1, Zenon
<1>12. \A p \in Pages : (p \in old => disk'[p] = buf[p]) /\ (p \notin old => disk'[p] = disk[p])
  <2>. HIDE DEF old
  <2>. QED  BY ONLY <1>2, Zenon
<1>13. /\ chk' \in [pc : {"idle", "pages", "table", "header"}, start : Nat]
       /\ chk'.pc = "table" /\ chk'.start = chk.start
  BY ONLY <1>2, <1>3, SMT
<1>14. disk' \in [Pages -> Seq(Nat)]
  <2>. HIDE DEF old
  <2>. QED  BY ONLY <1>2, <1>3, Zenon
<1>15. AnalysisStart \in Nat /\ chk.start \in 0 .. Len(log)
  <2>1. AnalysisStart \in Nat  BY ONLY <1>3 DEF AnalysisStart
  <2>. QED  BY ONLY <1>4, <1>5, <2>1
<1>16. ASSUME NEW p \in Pages PROVE PageInv(p)'
  <2>1. PageInv(p)  BY ONLY <1>1, <1>16, Zenon
  <2>2. AnalysisStart' = AnalysisStart /\ ~RedoAhead'  BY ONLY <1>2, <1>5, Zenon DEF AnalysisStart, RedoAhead
  <2>3. /\ Covers(disk[p], log, p, AnalysisStart, flushed) /\ Members(buf[p]) = Redos(log, p)
        /\ Sorted(buf[p]) /\ Prefix(disk[p], buf[p])
    BY ONLY <1>5, <2>1, Zenon DEF PageInv
  <2>4. flushed' <= flushed'  BY ONLY <1>9
  <2>5. CASE p \in old
    <3>1. Prefix(buf[p], buf[p]) /\ Covers(buf[p], log, p, AnalysisStart, flushed')
      BY ONLY <1>1, <1>5, <1>9, <1>11, <1>15, <1>16, <2>1, <2>3, <2>5, WritePage, Zenon
    <3>2. Covers(buf[p], log, p, chk.start, flushed')
      BY ONLY <1>3, <1>9, <1>10, <1>15, <2>3, <2>4, <3>1, CoversFrom, Zenon
    <3>. QED  BY ONLY <1>2, <1>12, <1>13, <1>16, <2>2, <2>3, <2>5, <3>1, <3>2, Zenon DEF PageInv
  <2>6. CASE p \notin old
    <3>1. Covers(disk[p], log, p, AnalysisStart, flushed')
      BY ONLY <1>1, <1>9, <2>3, KeepPage, Zenon
    <3>2. \A i \in Redos(log, p) : i <= chk.start => i \in Members(disk[p])
      <4>1. ~(buf[p] # disk[p] /\ OldestUnflushed(p) <= chk.start)  BY ONLY <1>16, <2>6, Zenon
      <4>. QED  BY ONLY <1>1, <1>5, <1>10, <1>16, <2>1, <4>1, LeftPage, Zenon
    <3>3. Covers(disk[p], log, p, chk.start, flushed')
      BY ONLY <1>3, <1>9, <1>10, <1>15, <2>3, <3>2, CoversFrom, Zenon
    <3>. QED  BY ONLY <1>2, <1>12, <1>13, <1>16, <2>2, <2>3, <2>6, <3>1, <3>3, Zenon DEF PageInv
  <2>. QED  BY ONLY <2>5, <2>6, Zenon
<1>17. Types'  BY ONLY <1>1, <1>2, <1>9, <1>13, <1>14, Zenon DEF Types
<1>18. ChkInv'  BY ONLY <1>2, <1>5, <1>13, Zenon DEF ChkInv, Serving
<1>19. AckedIsDurable' /\ TransInv'
  <2>1. Grows(log, log')  BY ONLY <1>2, <1>3, GrowsNot, Zenon
  <2>2. Serving' => Serving  BY ONLY <1>2, Zenon DEF Serving
  <2>. QED  BY ONLY IInv, <1>2, <1>9, <2>1, <2>2, GrowKeeps, Zenon
<1>. QED  BY ONLY <1>16, <1>17, <1>18, <1>19, Zenon DEF IInv

LEMMA ChkptHeaderStep ==
  ASSUME IInv, ChkptHeader
  PROVE  IInv'
<1>1. Types /\ ChkInv /\ \A p \in Pages : PageInv(p)  BY Zenon DEF IInv
<1>2. /\ chk.pc = "header" /\ flushed' = Max({flushed, Len(log)}) /\ hdr' = chk.start
      /\ chk' = [pc |-> "idle", start |-> Null] /\ phase' = "run"
      /\ UNCHANGED <<log, disk, buf, tran, acked>>
  BY Zenon DEF ChkptHeader, FlushedTo, ChkUnchanged
<1>3. IsLog(log) /\ flushed \in Nat  BY ONLY <1>1, Zenon DEF Types, IsLog
<1>4. Len(log) \in Nat  BY ONLY <1>3, LogFacts, Zenon
<1>5. Serving /\ ~RedoAhead /\ chk.start \in 1 .. Len(log)
  <2>1. chk.pc # "idle"  BY ONLY <1>2, Zenon
  <2>. QED  BY ONLY <1>1, <2>1, Zenon DEF ChkInv, Serving, RedoAhead
<1>6. flushed' \in Nat /\ flushed <= flushed'  BY ONLY <1>2, <1>3, <1>4, MaxOfTwo, Zenon
<1>7. hdr' \in Nat /\ AnalysisStart' = chk.start
  <2>1. chk.start \in Nat /\ chk.start # Null  BY ONLY <1>4, <1>5 DEF Null
  <2>. QED  BY ONLY <1>2, <2>1, Zenon DEF AnalysisStart
<1>8. chk' \in [pc : {"idle", "pages", "table", "header"}, start : Nat] /\ chk'.pc = "idle"
  BY ONLY <1>2 DEF Null
<1>9. ASSUME NEW p \in Pages PROVE PageInv(p)'
  <2>1. /\ Covers(disk[p], log, p, chk.start, flushed) /\ Members(buf[p]) = Redos(log, p)
        /\ Sorted(buf[p]) /\ Prefix(disk[p], buf[p])
    BY ONLY <1>1, <1>2, <1>5, <1>9, Zenon DEF PageInv
  <2>2. Covers(disk[p], log, p, chk.start, flushed')  BY ONLY <1>1, <1>6, <2>1, KeepPage, Zenon
  <2>3. ~RedoAhead' /\ chk'.pc \notin {"table", "header"}  BY ONLY <1>2, <1>8, Zenon DEF RedoAhead
  <2>. QED  BY ONLY <1>2, <1>7, <2>1, <2>2, <2>3, Zenon DEF PageInv
<1>10. Types'
  <2>1. phase' \in {"run", "analysis", "redo", "postpone", "undo", "chkpt"}  BY ONLY <1>2, Zenon
  <2>. QED  BY ONLY <1>1, <1>2, <1>6, <1>7, <1>8, <2>1, Zenon DEF Types
<1>11. ChkInv'  BY ONLY <1>8, Zenon DEF ChkInv
<1>12. AckedIsDurable' /\ TransInv'
  <2>1. Grows(log, log')  BY ONLY <1>2, <1>3, GrowsNot, Zenon
  <2>. QED  BY ONLY IInv, <1>2, <1>5, <1>6, <2>1, GrowKeeps, Zenon
<1>. QED  BY ONLY <1>9, <1>10, <1>11, <1>12, Zenon DEF IInv
-----------------------------------------------------------------------------
(* The crash, and recovery. *)

LEMMA CrashStep ==
  ASSUME IInv, Crash
  PROVE  IInv'
<1>1. Types /\ AckedIsDurable /\ \A p \in Pages : PageInv(p)  BY Zenon DEF IInv
<1>2. PICK n \in flushed .. Len(log) : log' = SubSeq(log, 1, n) /\ flushed' = n
  BY Zenon DEF Crash
<1>3. /\ buf' = disk /\ disk' = disk /\ hdr' = hdr /\ acked' = acked
      /\ chk' = [pc |-> "idle", start |-> Null] /\ phase' = "analysis"
  BY Zenon DEF Crash
<1>4. IsLog(log) /\ flushed \in Nat /\ disk \in [Pages -> Seq(Nat)] /\ buf \in [Pages -> Seq(Nat)]
  BY ONLY <1>1, Zenon DEF Types, IsLog
<1>5. Len(log) \in Nat /\ DOMAIN log = 1 .. Len(log)  BY ONLY <1>4, LogFacts, Zenon
<1>6. n \in 0 .. Len(log) /\ n \in Nat /\ flushed <= n  BY ONLY <1>2, <1>4, <1>5
<1>7. IsLog(log') /\ Len(log') = n /\ \A i \in 1 .. n : log'[i] = log[i]
  BY ONLY <1>2, <1>4, <1>6, CutLog, Zenon
<1>8. chk' \in [pc : {"idle", "pages", "table", "header"}, start : Nat] /\ chk'.pc = "idle"
  BY ONLY <1>3 DEF Null
<1>9. Types'
  <2>1. log' \in Seq(Members(log'))  BY ONLY <1>7, Zenon DEF IsLog
  <2>2. phase' \in {"run", "analysis", "redo", "postpone", "undo", "chkpt"}  BY ONLY <1>3, Zenon
  <2>. QED  BY ONLY <1>1, <1>2, <1>3, <1>6, <1>8, <2>1, <2>2, Zenon DEF Types
<1>10. ChkInv'  BY ONLY <1>8, Zenon DEF ChkInv
<1>11. TransInv'  BY ONLY <1>3, Zenon DEF TransInv, Serving
<1>12. AckedIsDurable'
  <2>1. DOMAIN log' = 1 .. n  BY ONLY <1>7, LogFacts, Zenon
  <2>2. \A i \in 1 .. Len(log) : i <= flushed => i \in 1 .. n /\ i <= n  BY ONLY <1>4, <1>5, <1>6
  <2>3. ASSUME NEW t \in acked PROVE \E i \in Of(t, "COMMIT")' : i <= flushed'
    <3>1. PICK i \in Of(t, "COMMIT") : i <= flushed  BY ONLY <1>1, <2>3, Zenon DEF AckedIsDurable
    <3>2. i \in 1 .. Len(log) /\ log[i].trid = t /\ log[i].type = "COMMIT"
      BY ONLY <1>5, <3>1, Zenon DEF Of
    <3>3. i \in Of(t, "COMMIT")' /\ i <= n
      BY ONLY <1>7, <2>1, <2>2, <3>1, <3>2, Zenon DEF Of
    <3>. QED  BY ONLY <1>2, <3>3, Zenon
  <2>. QED  BY ONLY <1>3, <2>3, Zenon DEF AckedIsDurable
<1>13. ASSUME NEW p \in Pages PROVE PageInv(p)'
  <2>1. /\ Sorted(buf[p]) /\ Prefix(disk[p], buf[p])
        /\ Covers(disk[p], log, p, AnalysisStart, flushed)
    BY ONLY <1>1, <1>13, Zenon DEF PageInv
  <2>2. disk[p] \in Seq(Nat) /\ buf[p] \in Seq(Nat)  BY ONLY <1>4, <1>13, Zenon
  <2>3. Len(disk[p]) \in Nat /\ Len(buf[p]) \in Nat  BY ONLY <2>2
  <2>4. Sorted(disk[p]) /\ Prefix(disk[p], disk[p])
    <3>1. /\ Len(disk[p]) <= Len(buf[p]) /\ \A i \in 1 .. Len(disk[p]) : disk[p][i] = buf[p][i]
      BY ONLY <2>1, Zenon DEF Prefix
    <3>2. Len(disk[p]) <= Len(disk[p]) /\ \A i \in 1 .. Len(disk[p]) : i \in 1 .. Len(buf[p])
      BY ONLY <2>3, <3>1
    <3>. QED  BY ONLY <2>1, <3>1, <3>2, Zenon DEF Sorted, Prefix
  <2>5. Covers(disk[p], log', p, AnalysisStart, n)
    <3>1. PICK a, x, m : a = AnalysisStart /\ x = disk[p] /\ m = log'  OBVIOUS
    <3>2. IsLog(log) /\ flushed \in Nat /\ n \in flushed .. Len(log)  BY ONLY <1>2, <1>4, Zenon
    <3>3. Covers(x, log, p, a, flushed)  BY ONLY <2>1, <3>1, Zenon
    <3>4. Len(m) = n /\ \A i \in 1 .. n : m[i] = log[i]  BY ONLY <1>7, <3>1, Zenon
    <3>5. Covers(x, m, p, a, n)  BY ONLY <3>2, <3>3, <3>4, CoversCut, Zenon
    <3>. QED  BY ONLY <3>1, <3>5, Zenon
  <2>6. AnalysisStart' = AnalysisStart /\ RedoAhead' /\ chk'.pc \notin {"table", "header"}
    BY ONLY <1>3, <1>8, Zenon DEF AnalysisStart, RedoAhead
  <2>. QED  BY ONLY <1>2, <1>3, <2>4, <2>5, <2>6, Zenon DEF PageInv
<1>. QED  BY ONLY <1>9, <1>10, <1>11, <1>12, <1>13, Zenon DEF IInv

LEMMA AnalysisStep ==
  ASSUME IInv, Analysis
  PROVE  IInv'
<1>1. /\ phase = "analysis" /\ phase' = "redo"
      /\ UNCHANGED <<log, buf, flushed, hdr, disk, chk, acked>>
  BY Zenon DEF Analysis, RvUnchanged
<1>2. RedoAhead /\ RedoAhead' /\ ~Serving /\ ~Serving'  BY ONLY <1>1, Zenon DEF RedoAhead, Serving
<1>3. Types'
  <2>1. phase' \in {"run", "analysis", "redo", "postpone", "undo", "chkpt"}  BY ONLY <1>1, Zenon
  <2>. QED  BY <1>1, <2>1, Zenon DEF IInv, Types
<1>4. ChkInv' /\ TransInv'  BY <1>1, <1>2, Zenon DEF IInv, ChkInv, TransInv
<1>5. AckedIsDurable'  BY <1>1, Zenon DEF IInv, AckedIsDurable, Of
<1>6. \A p \in Pages : PageInv(p)'  BY <1>1, <1>2, Zenon DEF IInv, PageInv, AnalysisStart
<1>. QED  BY ONLY <1>3, <1>4, <1>5, <1>6, Zenon DEF IInv

\* The test of the page LSA finds the records that a page lacks.
LEMMA RedoFinds ==
  ASSUME Types, NEW p \in Pages, PageInv(p), RedoAhead, NEW S, S = {i \in ToRedo : log[i].page = p}
  PROVE  /\ S \in SUBSET (1 .. Len(log)) /\ Members(buf[p]) \cup S = Redos(log, p)
         /\ \A i \in Members(buf[p]), j \in S : i < j
<1>1. IsLog(log) /\ hdr \in Nat /\ buf[p] \in Seq(Nat) /\ Sorted(buf[p])
  BY Zenon DEF Types, IsLog, PageInv
<1>2. Len(log) \in Nat  BY ONLY <1>1, LogFacts, Zenon
<1>3. buf[p] = disk[p] /\ Covers(disk[p], log, p, AnalysisStart, flushed)  BY Zenon DEF PageInv
<1>4. PICK d \in 0 .. Len(log) : AnalysisStart <= d + 1 /\ Members(buf[p]) = UpTo(log, p, d)
  BY ONLY <1>3, Zenon DEF Covers
<1>5. PICK a, e : a = AnalysisStart /\ e = PageLsa(buf[p])  OBVIOUS
<1>6. /\ e \in Nat /\ (\A i \in Members(buf[p]) : i <= e) /\ (e = 0 \/ e \in Members(buf[p]))
      /\ \A i \in Members(buf[p]) : i \in Nat
  BY ONLY <1>1, <1>5, PageLsaFacts, MembersFacts, Zenon
<1>7. a \in Nat /\ a <= d + 1
  <2>1. AnalysisStart \in Nat  BY ONLY <1>1 DEF AnalysisStart
  <2>. QED  BY ONLY <1>4, <1>5, <2>1, Zenon
<1>8. \A i : i \in S <=> i \in a .. Len(log) /\ HasRedo(log[i]) /\ log[i].page = p /\ i > e
  BY <1>5, Zenon DEF ToRedo
<1>9. \A i : i \in Members(buf[p]) <=> i \in Redos(log, p) /\ i <= d  BY ONLY <1>4, Zenon DEF UpTo
<1>10. \A i : i \in Redos(log, p) <=> i \in 1 .. Len(log) /\ HasRedo(log[i]) /\ log[i].page = p
  BY ONLY Zenon DEF Redos
<1>11. ASSUME NEW i \in S PROVE i \in 1 .. Len(log) /\ i \in Redos(log, p)
  <2>1. i \in a .. Len(log) /\ i > e /\ HasRedo(log[i]) /\ log[i].page = p  BY ONLY <1>8, <1>11, Zenon
  <2>2. i \in 1 .. Len(log)  BY ONLY <1>2, <1>6, <1>7, <2>1
  <2>. QED  BY ONLY <1>10, <2>1, <2>2, Zenon
<1>12. ASSUME NEW i \in Redos(log, p), i \notin Members(buf[p]) PROVE i \in S
  <2>1. i \in 1 .. Len(log) /\ HasRedo(log[i]) /\ log[i].page = p /\ ~(i <= d)
    BY ONLY <1>9, <1>10, <1>12, Zenon
  <2>2. e = 0 \/ e <= d  BY ONLY <1>6, <1>9, Zenon
  <2>3. i \in a .. Len(log) /\ i > e  BY ONLY <1>2, <1>4, <1>6, <1>7, <2>1, <2>2
  <2>. QED  BY ONLY <1>8, <2>1, <2>3, Zenon
<1>13. ASSUME NEW i \in Members(buf[p]), NEW j \in S PROVE i < j
  <2>1. i \in Nat /\ i <= e /\ j > e /\ j \in 1 .. Len(log)  BY ONLY <1>6, <1>8, <1>11, <1>13, Zenon
  <2>. QED  BY ONLY <1>2, <1>6, <2>1
<1>14. S \in SUBSET (1 .. Len(log))  BY ONLY <1>11, Zenon
<1>15. Members(buf[p]) \cup S = Redos(log, p)  BY ONLY <1>9, <1>11, <1>12, Zenon
<1>. QED  BY ONLY <1>13, <1>14, <1>15, Zenon

LEMMA RedoStep ==
  ASSUME IInv, Redo
  PROVE  IInv'
<1>1. Types /\ ChkInv /\ \A p \in Pages : PageInv(p)  BY Zenon DEF IInv
<1>2. /\ phase = "redo" /\ phase' = "postpone" /\ UNCHANGED <<log, flushed, hdr, disk, chk, acked>>
      /\ buf' = [p \in Pages |-> buf[p] \o InLogOrder({i \in ToRedo : log[i].page = p})]
  BY Zenon DEF Redo, RvUnchanged
<1>3. RedoAhead /\ ~RedoAhead' /\ ~Serving /\ ~Serving'  BY ONLY <1>2, Zenon DEF RedoAhead, Serving
<1>4. IsLog(log)  BY ONLY <1>1, Zenon DEF Types, IsLog
<1>5. Len(log) \in Nat  BY ONLY <1>4, LogFacts, Zenon
<1>6. ASSUME NEW p \in Pages
      PROVE  /\ buf'[p] \in Seq(Nat) /\ Sorted(buf'[p]) /\ Prefix(disk[p], buf'[p])
             /\ Members(buf'[p]) = Redos(log, p)
  <2>1. PICK S : S = {i \in ToRedo : log[i].page = p}  BY ONLY Zenon
  <2>2. /\ S \in SUBSET (1 .. Len(log)) /\ Members(buf[p]) \cup S = Redos(log, p)
        /\ \A i \in Members(buf[p]), j \in S : i < j
    BY ONLY <1>1, <1>3, <1>6, <2>1, RedoFinds, Zenon
  <2>3. PICK s : s = InLogOrder(S)  BY ONLY Zenon
  <2>4. s \in Seq(Nat) /\ Sorted(s) /\ Members(s) = S  BY ONLY <1>5, <2>2, <2>3, InOrder, Zenon
  <2>5. buf'[p] = buf[p] \o s  BY ONLY <1>2, <1>6, <2>1, <2>3, Zenon
  <2>6. buf[p] \in Seq(Nat) /\ Sorted(buf[p]) /\ buf[p] = disk[p]
    BY ONLY <1>1, <1>3, <1>6, Zenon DEF Types, PageInv
  <2>7. /\ buf[p] \o s \in Seq(Nat) /\ Sorted(buf[p] \o s)
        /\ Members(buf[p] \o s) = Members(buf[p]) \cup Members(s) /\ Prefix(buf[p], buf[p] \o s)
    BY ONLY <2>2, <2>4, <2>6, ConcatPages, Zenon
  <2>. QED  BY ONLY <2>2, <2>4, <2>5, <2>6, <2>7, Zenon
<1>7. buf' \in [Pages -> Seq(Nat)]
  <2>1. PICK f : f = buf'  BY ONLY Zenon
  <2>2. \A p \in Pages : f[p] \in Seq(Nat)  BY ONLY <1>6, <2>1, Zenon
  <2>3. f = [p \in Pages |-> f[p]]
    <3>1. PICK g : g = [p \in Pages |-> buf[p] \o InLogOrder({i \in ToRedo : log[i].page = p})]  BY ONLY Zenon
    <3>2. g = [p \in Pages |-> g[p]]  BY ONLY <3>1, Zenon
    <3>. QED  BY ONLY <1>2, <2>1, <3>1, <3>2, Zenon
  <2>4. f \in [Pages -> Seq(Nat)]  BY ONLY <2>2, <2>3, SMT
  <2>. QED  BY ONLY <2>1, <2>4, Zenon
<1>8. Types'
  <2>1. phase' \in {"run", "analysis", "redo", "postpone", "undo", "chkpt"}  BY ONLY <1>2, Zenon
  <2>. QED  BY ONLY <1>1, <1>2, <1>7, <2>1, Zenon DEF Types
<1>9. ChkInv' /\ TransInv'  BY ONLY <1>1, <1>2, <1>3, Zenon DEF ChkInv, TransInv
<1>10. AckedIsDurable'  BY <1>2, Zenon DEF IInv, AckedIsDurable, Of
<1>11. ASSUME NEW p \in Pages PROVE PageInv(p)'
  <2>1. /\ Covers(disk[p], log, p, AnalysisStart, flushed)
        /\ chk.pc \in {"table", "header"} => Covers(disk[p], log, p, chk.start, flushed)
    BY ONLY <1>1, <1>11, Zenon DEF PageInv
  <2>2. AnalysisStart' = AnalysisStart  BY ONLY <1>2, Zenon DEF AnalysisStart
  <2>. QED  BY ONLY <1>2, <1>3, <1>6, <1>11, <2>1, <2>2, Zenon DEF PageInv
<1>. QED  BY ONLY <1>8, <1>9, <1>10, <1>11, Zenon DEF IInv

\* The end of a phase, where all pages and the log are flushed.
LEMMA FlushAllStep ==
  ASSUME IInv, PostponesFinished \/ UndoFinished
  PROVE  IInv'
<1>1. Types /\ ChkInv /\ \A p \in Pages : PageInv(p)  BY Zenon DEF IInv
<1>2. /\ phase \in {"postpone", "undo"} /\ phase' \in {"undo", "chkpt"}
      /\ flushed' = Max({flushed, Len(log)}) /\ disk' = buf
      /\ UNCHANGED <<log, buf, hdr, chk, acked>>
  BY Zenon DEF PostponesFinished, UndoFinished, FlushAll, FlushedTo
<1>3. ~RedoAhead /\ ~RedoAhead' /\ ~Serving  BY ONLY <1>2, Zenon DEF RedoAhead, Serving
<1>4. IsLog(log) /\ flushed \in Nat /\ hdr \in Nat /\ buf \in [Pages -> Seq(Nat)]
  BY ONLY <1>1, Zenon DEF Types, IsLog
<1>5. Len(log) \in Nat  BY ONLY <1>4, LogFacts, Zenon
<1>6. flushed' \in Nat /\ flushed <= flushed' /\ Len(log) <= flushed'
  BY ONLY <1>2, <1>4, <1>5, MaxOfTwo, Zenon
<1>7. Types'
  <2>1. phase' \in {"run", "analysis", "redo", "postpone", "undo", "chkpt"}  BY ONLY <1>2, Zenon
  <2>. QED  BY ONLY <1>1, <1>2, <1>6, <2>1, Zenon DEF Types
<1>8. chk.pc = "idle" /\ chk' = chk  BY ONLY <1>1, <1>2, <1>3, Zenon DEF ChkInv
<1>9. ChkInv'  BY ONLY <1>8, Zenon DEF ChkInv
<1>10. AckedIsDurable'
  <2>1. Grows(log, log')  BY ONLY <1>2, <1>4, GrowsNot, Zenon
  <2>. QED  BY ONLY IInv, <1>2, <1>6, <2>1, GrowKeeps, Zenon
<1>11. TransInv'
  <2>1. CASE PostponesFinished
    <3>1. ~Serving'  BY ONLY <2>1, Zenon DEF PostponesFinished, Serving
    <3>. QED  BY ONLY <3>1, Zenon DEF TransInv
  <2>2. CASE UndoFinished
    <3>1. tran' = [t \in Trans |-> IF \E i \in DOMAIN log : log[i].trid = t THEN Gone ELSE Fresh]
      BY ONLY <2>2, Zenon DEF UndoFinished
    <3>2. DOMAIN tran' = Trans /\ \A t \in Trans : tran'[t] = Gone \/ tran'[t] = Fresh
      BY ONLY <3>1, Zenon
    <3>3. /\ DOMAIN Gone = Fields /\ Gone.pc # "cwp_state" /\ Gone.pc # "flush"
          /\ DOMAIN Fresh = Fields /\ Fresh.pc # "cwp_state" /\ Fresh.pc # "flush"
      BY ONLY SMT DEF Gone, Fresh, Fields
    <3>. QED  BY ONLY <3>2, <3>3, Zenon DEF TransInv, TranInv
  <2>. QED  BY <2>1, <2>2, Zenon
<1>12. ASSUME NEW p \in Pages PROVE PageInv(p)'
  <2>1. PageInv(p) /\ AnalysisStart' = AnalysisStart
    BY ONLY <1>1, <1>2, <1>12, Zenon DEF AnalysisStart
  <2>2. AnalysisStart \in Nat  BY ONLY <1>4 DEF AnalysisStart
  <2>3. PageLsa(buf[p]) <= flushed'
    <3>1. PICK e : e = PageLsa(buf[p])  BY ONLY Zenon
    <3>2. e \in 0 .. Len(log)  BY ONLY <1>1, <1>12, <3>1, PageLsaInLog, Zenon
    <3>3. e <= flushed'  BY ONLY <1>5, <1>6, <3>2
    <3>. QED  BY ONLY <3>1, <3>3, Zenon
  <2>4. Covers(disk[p], log, p, AnalysisStart, flushed)  BY ONLY <2>1, Zenon DEF PageInv
  <2>5. /\ Sorted(buf[p]) /\ Prefix(buf[p], buf[p]) /\ Members(buf[p]) = Redos(log, p)
        /\ Covers(buf[p], log, p, AnalysisStart, flushed')
    BY ONLY <1>1, <1>3, <1>6, <1>12, <2>1, <2>2, <2>3, <2>4, WritePage, Zenon
  <2>6. chk'.pc \notin {"table", "header"}  BY ONLY <1>8, Zenon
  <2>. QED  BY ONLY <1>2, <1>3, <2>1, <2>5, <2>6, Zenon DEF PageInv
<1>. QED  BY ONLY <1>7, <1>9, <1>10, <1>11, <1>12, Zenon DEF IInv

-----------------------------------------------------------------------------
(* The theorems. *)

LEMMA InitInv ==
  ASSUME Init
  PROVE  IInv
<1>1. /\ log = <<>> /\ flushed = 0 /\ hdr = 0 /\ phase = "run" /\ acked = {}
      /\ buf = [p \in Pages |-> <<>>] /\ disk = buf /\ tran = [t \in Trans |-> Fresh]
      /\ chk = [pc |-> "idle", start |-> 0]
  BY DEF Init, Null
<1>2. Types
  <2>1. log \in Seq(Members(log))
    <3>1. PICK S : S = Members(log)  BY ONLY Zenon
    <3>2. <<>> \in Seq(S)  OBVIOUS
    <3>. QED  BY ONLY <1>1, <3>1, <3>2, Zenon
  <2>2. flushed \in Nat /\ hdr \in Nat /\ chk \in [pc : {"idle", "pages", "table", "header"}, start : Nat]
    BY ONLY <1>1
  <2>3. buf \in [Pages -> Seq(Nat)]
    <3>1. <<>> \in Seq(Nat)  OBVIOUS
    <3>. QED  BY ONLY <1>1, <3>1, Zenon
  <2>. QED  BY ONLY <1>1, <2>1, <2>2, <2>3, Zenon DEF Types
<1>3. ChkInv  BY ONLY <1>1 DEF ChkInv
<1>4. AckedIsDurable  BY ONLY <1>1, Zenon DEF AckedIsDurable
<1>5. TransInv
  <2>1. DOMAIN Fresh = Fields /\ Fresh.pc # "cwp_state" /\ Fresh.pc # "flush"
    BY ONLY SMT DEF Fresh, Fields
  <2>. QED  BY ONLY <1>1, <2>1, Zenon DEF TransInv, TranInv
<1>6. ASSUME NEW p \in Pages PROVE PageInv(p)
  <2>1. buf[p] = <<>> /\ disk[p] = <<>>  BY ONLY <1>1, <1>6, Zenon
  <2>2. Len(<<>>) = 0 /\ (\A i : i \notin 1 .. 0) /\ 0 <= 0 /\ 1 <= 0 + 1 /\ 0 \in 0 .. 0  BY ONLY SMT
  <2>3. Members(<<>>) = {} /\ Redos(<<>>, p) = {} /\ UpTo(<<>>, p, 0) = {}
    BY ONLY <2>2, Zenon DEF Members, Redos, UpTo
  <2>4. Sorted(<<>>) /\ Prefix(<<>>, <<>>)  BY ONLY <2>2, Zenon DEF Sorted, Prefix
  <2>5. AnalysisStart = 1  BY ONLY <1>1 DEF AnalysisStart, Null
  <2>6. Covers(<<>>, <<>>, p, 1, 0)  BY ONLY <2>2, <2>3, Zenon DEF Covers
  <2>7. chk.pc \notin {"table", "header"}  BY ONLY <1>1
  <2>. QED  BY ONLY <1>1, <2>1, <2>3, <2>4, <2>5, <2>6, <2>7, Zenon DEF PageInv
<1>. QED  BY ONLY <1>2, <1>3, <1>4, <1>5, <1>6, Zenon DEF IInv

\* Every step keeps the invariant: what transactions, flushers, the checkpoint,
\* a crash and each phase of recovery do, in any order.
LEMMA NextInv ==
  ASSUME IInv, [Next]_vars
  PROVE  IInv'
<1>1. CASE UNCHANGED vars
  BY <1>1, Zenon DEF vars, IInv, Types, ChkInv, TransInv, TranInv, AckedIsDurable, Of, PageInv, Serving,
     RedoAhead, AnalysisStart
<1>2. ASSUME ChkptStart \/ ChkptPages \/ ChkptTable \/ ChkptHeader PROVE IInv'
  BY <1>2, ChkptStartStep, ChkptPagesStep, ChkptTableStep, ChkptHeaderStep, Zenon
<1>3. ASSUME RecoveryStep PROVE IInv'
  BY <1>2, <1>3, AnalysisStep, RedoStep, FlushAllStep, RecoveryLogs, Zenon DEF RecoveryStep
<1>. QED  BY <1>1, <1>2, <1>3, RunningStep, FlushPageStep, CrashStep, Zenon DEF Next

\* IInv holds in every state: a page on disk always has all changes of the log
\* up to some record that is not before the start of recovery and not after the
\* part of the log that is certainly on disk.
THEOREM Inductive == Spec => []IInv
<1>1. Init => IInv  BY InitInv
<1>2. IInv /\ [Next]_vars => IInv'  BY NextInv
<1>. QED  BY <1>1, <1>2, PTL DEF Spec

\* What PagesFollowLog says follows from the invariant.
LEMMA PagesFromInv ==
  ASSUME IInv
  PROVE  PagesFollowLog
<1>1. Types /\ \A p \in Pages : PageInv(p)  BY Zenon DEF IInv
<1>2. IsLog(log)  BY ONLY <1>1, Zenon DEF Types, IsLog
<1>3. Len(log) \in Nat /\ DOMAIN log = 1 .. Len(log)  BY ONLY <1>2, LogFacts, Zenon
<1>4. ASSUME NEW p \in Pages
      PROVE  LET redo == InLogOrder({i \in DOMAIN log : HasRedo(log[i]) /\ log[i].page = p})
             IN /\ Len(disk[p]) <= Len(redo) /\ disk[p] = SubSeq(redo, 1, Len(disk[p]))
                /\ phase \notin {"analysis", "redo"} => buf[p] = redo
  <2>1. PICK S : S = {i \in DOMAIN log : HasRedo(log[i]) /\ log[i].page = p}  BY ONLY Zenon
  <2>2. S = Redos(log, p) /\ S \in SUBSET (1 .. Len(log))  BY ONLY <1>3, <2>1, Zenon DEF Redos
  <2>3. PICK r : r = InLogOrder(S)  BY ONLY Zenon
  <2>4. r \in Seq(Nat) /\ Sorted(r) /\ Members(r) = S  BY ONLY <1>3, <2>2, <2>3, InOrder, Zenon
  <2>5. PICK x, y : x = buf[p] /\ y = disk[p]  OBVIOUS
  <2>6. /\ x \in Seq(Nat) /\ y \in Seq(Nat) /\ Sorted(x) /\ Prefix(y, x)
        /\ ~RedoAhead => Members(x) = S
        /\ Covers(y, log, p, AnalysisStart, flushed)
    BY ONLY <1>1, <1>4, <2>2, <2>5, Zenon DEF Types, PageInv
  <2>7. Sorted(y)
    <3>1. Len(y) \in Nat /\ Len(x) \in Nat  BY ONLY <2>6
    <3>2. Len(y) <= Len(x) /\ \A i \in 1 .. Len(y) : y[i] = x[i]  BY ONLY <2>6, Zenon DEF Prefix
    <3>3. \A i \in 1 .. Len(y) : i \in 1 .. Len(x)  BY ONLY <3>1, <3>2
    <3>. QED  BY ONLY <2>6, <3>2, <3>3, Zenon DEF Sorted
  <2>8. Prefix(y, r)
    <3>1. PICK d \in 0 .. Len(log) : Members(y) = UpTo(log, p, d)  BY ONLY <2>6, Zenon DEF Covers
    <3>2. d \in Nat  BY ONLY <1>3, <3>1
    <3>3. Members(y) = {i \in Members(r) : i <= d}  BY ONLY <2>2, <2>4, <3>1, Zenon DEF UpTo
    <3>4. y \in Seq(Nat) /\ r \in Seq(Nat) /\ Sorted(r)  BY ONLY <2>4, <2>6, Zenon
    <3>. QED  BY ONLY <2>7, <3>2, <3>3, <3>4, SamePage, SMT
  <2>9. y = SubSeq(r, 1, Len(y)) /\ Len(y) <= Len(r)
    <3>1. y = SubSeq(r, 1, Len(y))  BY ONLY <2>4, <2>6, <2>8, PrefixIsSubSeq, Zenon
    <3>. QED  BY ONLY <2>8, <3>1, Zenon DEF Prefix
  <2>10. ASSUME ~RedoAhead PROVE x = r
    <3>1. Members(x) = Members(r)  BY ONLY <2>4, <2>6, <2>10, Zenon
    <3>2. \A i \in Members(r) : i \in Nat /\ i <= Len(log)
      <4>1. \A i \in 1 .. Len(log) : i \in Nat /\ i <= Len(log)  BY ONLY <1>3
      <4>. QED  BY ONLY <2>2, <2>4, <4>1, Zenon
    <3>3. /\ Members(x) = {i \in Members(r) : i <= Len(log)}
          /\ Members(r) = {i \in Members(x) : i <= Len(log)}
      BY ONLY <3>1, <3>2, Zenon
    <3>4. Prefix(x, r) /\ Prefix(r, x)
      <4>1. Prefix(x, r)  BY ONLY <1>3, <2>4, <2>6, <3>3, SamePage, SMT
      <4>2. Prefix(r, x)  BY ONLY <1>3, <2>4, <2>6, <3>3, SamePage, SMT
      <4>. QED  BY ONLY <4>1, <4>2, Zenon
    <3>5. Len(x) = Len(r)
      <4>1. Len(x) <= Len(r) /\ Len(r) <= Len(x)  BY ONLY <3>4, Zenon DEF Prefix
      <4>2. Len(x) \in Nat /\ Len(r) \in Nat  BY ONLY <2>4, <2>6
      <4>. QED  BY ONLY <4>1, <4>2
    <3>6. x = SubSeq(r, 1, Len(r)) /\ r = SubSeq(r, 1, Len(r))
      <4>1. x = SubSeq(r, 1, Len(x))  BY ONLY <2>4, <2>6, <3>4, PrefixIsSubSeq, Zenon
      <4>2. Prefix(r, r)
        <5>1. Len(r) \in Nat  BY ONLY <2>4
        <5>2. Len(r) <= Len(r)  BY ONLY <5>1
        <5>. QED  BY ONLY <5>2, Zenon DEF Prefix
      <4>3. r = SubSeq(r, 1, Len(r))  BY ONLY <2>4, <4>2, PrefixIsSubSeq, Zenon
      <4>. QED  BY ONLY <3>5, <4>1, <4>3, Zenon
    <3>. QED  BY ONLY <3>6, Zenon
  <2>11. phase \notin {"analysis", "redo"} => x = r  BY ONLY <2>10, Zenon DEF RedoAhead
  <2>. QED  BY ONLY <2>1, <2>3, <2>5, <2>9, <2>11, Zenon
<1>. QED  BY ONLY <1>4, Zenon DEF PagesFollowLog

\* The pages follow the log: once redo is over the page buffer holds exactly the
\* effects that the log names, in log order, and the disk always holds a
\* beginning of them, through any number of crashes, checkpoints and page
\* flushes, and crashes during recovery (write-ahead logging, the redo start of
\* a checkpoint, log_rv_redo_record's test of the page LSA).
THEOREM PagesFollow == Spec => []PagesFollowLog
<1>1. IInv => PagesFollowLog  BY PagesFromInv
<1>. QED  BY <1>1, Inductive, PTL

\* A commit the client was told of (log_change_tran_as_completed) has its record
\* in the part of the log that no crash can cut off.
THEOREM Durable == Spec => []AckedIsDurable
<1>1. IInv => AckedIsDurable  BY DEF IInv
<1>. QED  BY <1>1, Inductive, PTL
=============================================================================
