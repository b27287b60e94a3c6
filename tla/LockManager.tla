---------------------------- MODULE LockManager ----------------------------
(***************************************************************************)
(* The lock manager (src/transaction/lock_manager.c): transactions lock    *)
(* resources, convert the modes they hold, wait in the resource's lists,   *)
(* and are woken by a grant, a timeout, an interrupt or as the victim of a *)
(* deadlock.                                                               *)
(*                                                                         *)
(* A resource (LK_RES) has a list of holders, in which the holders that    *)
(* wait for a conversion come first, a list of waiters, and two cached     *)
(* total modes.  Every step below is made under the mutex of one resource, *)
(* and a thread's wait fields change under the mutex of its entry, so each *)
(* is one action.  What is not atomic is kept apart: a woken thread leaves *)
(* the lists only when it runs again (Resume), the end of a transaction    *)
(* releases one resource at a time (UnlockAll), and the deadlock detector  *)
(* reads one resource at a time (Scan).                                    *)
(*                                                                         *)
(* One thread serves a transaction, so there are no wait trains.  Lock     *)
(* escalation, instant and transient locks and the non-two-phase list are  *)
(* not modelled.                                                           *)
(***************************************************************************)
EXTENDS Naturals, FiniteSets, Sequences, SequencesExt

CONSTANTS
  Trans,        \* the transactions
  Resources,    \* the classes and the rows that they lock
  Classes,      \* those of them that are classes
  ModesOf,      \* the modes in which a transaction asks for a resource
  CanTimeout,   \* the transactions with a finite wait_msecs
  Owners,       \* those that ask for a row ahead of its waiters
  MaxRequests   \* bound: the requests of a transaction

VARIABLES
  res,              \* the lock table
  lockwait_state,   \* of the thread that serves the transaction
  waiting_for_res,  \* the resource whose list that thread's wait is in
  requests,         \* how many requests a transaction made; names its waits
  unscanned,        \* the resources that the detector has still to read
  edges,            \* the wait-for graph that it collects
  victims           \* whom it has picked and not woken yet

vars == <<res, lockwait_state, waiting_for_res, requests, unscanned, edges,
          victims>>

(***************************************************************************)
(* The modes, weakest first, and the two tables of lock_table.c.           *)
(***************************************************************************)
Modes == <<"NULL", "SCH-S", "IS", "S", "IX", "BU", "SIX", "X", "SCH-M">>

Mode == Range(Modes)

\* what a requested mode is compatible with
CompatibleWith(requested) ==
  CASE requested = "NULL"  -> Mode
    [] requested = "SCH-S" -> Mode \ {"SCH-M"}
    [] requested = "IS"    -> {"NULL", "SCH-S", "IS", "S", "IX", "SIX"}
    [] requested = "S"     -> {"NULL", "SCH-S", "IS", "S"}
    [] requested = "IX"    -> {"NULL", "SCH-S", "IS", "IX"}
    [] requested = "BU"    -> {"NULL", "SCH-S", "BU"}
    [] requested = "SIX"   -> {"NULL", "SCH-S", "IS"}
    [] requested = "X"     -> {"NULL", "SCH-S"}
    [] requested = "SCH-M" -> {"NULL"}

lock_Comp ==
  [requested \in Mode |-> [current \in Mode |-> current \in CompatibleWith(requested)]]

Compat(requested, current) == lock_Comp[requested][current]

Rank(mode) == CHOOSE i \in DOMAIN Modes : Modes[i] = mode

\* the stronger of the two, save for S with IX and for BU, whose row and
\* column differ
lock_Conv ==
  [requested \in Mode |-> [current \in Mode |->
     CASE {requested, current} = {"S", "IX"} -> "SIX"
       [] {requested, current} = {"S", "BU"} -> "X"
       [] requested = "BU" /\ current = "SIX" -> "BU"
       [] current = "BU" /\ requested \in {"IS", "IX", "SIX"} -> "X"
       [] OTHER -> IF Rank(requested) > Rank(current) THEN requested ELSE current]]

Conv(requested, current) == lock_Conv[requested][current]

(***************************************************************************)
(* Entries and lists.                                                      *)
(***************************************************************************)
Entry == [tran : Trans, granted : Mode, blocked : Mode, count : Nat \ {0},
          shared_requested : BOOLEAN]

Resource == [holder : Seq(Entry), waiter : Seq(Entry),
             total_holders_mode : Mode, total_waiters_mode : Mode]

ConvOf(modes) == FoldLeft(LAMBDA total, mode : Conv(mode, total), "NULL", modes)

GrantedModes(entries) == [i \in DOMAIN entries |-> entries[i].granted]

BlockedModes(entries) == [i \in DOMAIN entries |-> entries[i].blocked]

\* The variants named after a mistake are the definition that follows with
\* that mistake made; the properties must tell them apart.
HoldersModeForgetsBlocked(entries) == ConvOf(GrantedModes(entries))

\* the total of the granted and the blocked modes of the holders
HoldersMode(entries) ==
  FoldLeft(LAMBDA total, e : Conv(e.blocked, Conv(e.granted, total)), "NULL", entries)

Granted(t, mode) == [tran |-> t, granted |-> mode, blocked |-> "NULL", count |-> 1,
                     shared_requested |-> mode = "S"]

Blocked(t, mode) == [tran |-> t, granted |-> "NULL", blocked |-> mode, count |-> 1,
                     shared_requested |-> mode = "S"]

Position(entries, t) == {i \in DOMAIN entries : entries[i].tran = t}

Holds(q, t) == Position(q.holder, t) # {}

EntryOf(entries, t) == entries[CHOOSE i \in Position(entries, t) : TRUE]

Without(entries, t) == SelectSeq(entries, LAMBDA e : e.tran # t)

PlaceOfAtTheEnd(entries, e) == Len(entries) + 1

\* The Upgrader Positioning Rule: a blocked holder goes before the first
\* blocked one that its mode is compatible with, or else before the first
\* that waits for it and that it does not wait for, or else behind all
\* blocked ones; an unblocked holder goes first of the unblocked.
PlaceOf(entries, e) ==
  LET blocked == {i \in DOMAIN entries : entries[i].blocked # "NULL"}
      ta == {i \in blocked : Compat(e.blocked, entries[i].blocked)}
      tb == {i \in blocked : /\ Compat(e.blocked, entries[i].granted)
                             /\ ~Compat(entries[i].blocked, e.granted)}
      tc == DOMAIN entries \ blocked
      First(S) == CHOOSE i \in S : \A j \in S : i <= j
  IN CASE e.blocked # "NULL" /\ ta # {} -> First(ta)
       [] e.blocked # "NULL" /\ ta = {} /\ tb # {} -> First(tb)
       [] OTHER -> IF tc = {} THEN Len(entries) + 1 ELSE First(tc)

PositionHolder(entries, e) == InsertAt(entries, PlaceOf(entries, e), e)

(***************************************************************************)
(* Grants.  Each operator maps a resource to what its list becomes; a      *)
(* thread that was woken for another reason still has its entry in a list, *)
(* and is passed over.                                                     *)
(***************************************************************************)
IsLockwait(t) == lockwait_state[t] = "suspended"

GrantBlockedHolder[q \in Resource, i \in Nat] ==
  IF i > Len(q.holder) \/ q.holder[i].blocked = "NULL" THEN q
  ELSE LET h == q.holder[i]
           after == SubSeq(q.holder, i + 1, Len(q.holder))
           granted == [h EXCEPT !.granted = h.blocked, !.blocked = "NULL"]
       IN IF ~Compat(h.blocked, ConvOf(GrantedModes(after))) THEN q
          ELSE IF IsLockwait(h.tran)
          THEN GrantBlockedHolder[
                 [q EXCEPT !.holder = PositionHolder(Without(q.holder, h.tran), granted)], i]
          ELSE GrantBlockedHolder[q, i + 1]

\* a waiter becomes a holder
Promoted(q, w) ==
  LET e == [w EXCEPT !.granted = w.blocked, !.blocked = "NULL"]
  IN [q EXCEPT !.waiter = Without(q.waiter, w.tran),
               !.holder = PositionHolder(q.holder, e),
               !.total_holders_mode = Conv(e.granted, q.total_holders_mode)]

RetotalWaiters(q) ==
  [q EXCEPT !.total_waiters_mode = ConvOf(BlockedModes(q.waiter))]

GrantBlockedWaiter[q \in Resource, i \in Nat] ==
  IF i > Len(q.waiter) \/ ~Compat(q.waiter[i].blocked, q.total_holders_mode) THEN q
  ELSE IF IsLockwait(q.waiter[i].tran)
  THEN GrantBlockedWaiter[RetotalWaiters(Promoted(q, q.waiter[i])), i]
  ELSE GrantBlockedWaiter[q, i + 1]

\* from the i-th waiter on, each compatible with those that stay before it
GrantBlockedWaiterPartial[q \in Resource, i \in Nat] ==
  IF \/ i > Len(q.waiter)
     \/ ~Compat(q.waiter[i].blocked, ConvOf(BlockedModes(SubSeq(q.waiter, 1, i - 1))))
  THEN RetotalWaiters(q)
  ELSE IF /\ Compat(q.waiter[i].blocked, q.total_holders_mode)
          /\ IsLockwait(q.waiter[i].tran)
  THEN GrantBlockedWaiterPartial[Promoted(q, q.waiter[i]), i]
  ELSE GrantBlockedWaiterPartial[q, i + 1]

Regrant(q) ==
  GrantBlockedWaiter[
    GrantBlockedHolder[[q EXCEPT !.total_holders_mode = HoldersMode(q.holder)], 1], 1]

(***************************************************************************)
(* Requests.                                                               *)
(***************************************************************************)
FreeResource == [holder |-> <<>>, waiter |-> <<>>,
                 total_holders_mode |-> "NULL", total_waiters_mode |-> "NULL"]

Init ==
  /\ res = [r \in Resources |-> FreeResource]
  /\ lockwait_state = [t \in Trans |-> "active"]
  /\ waiting_for_res = [t \in Trans |-> "NULL"]
  /\ requests = [t \in Trans |-> 0]
  /\ unscanned = {}
  /\ edges = {}
  /\ victims = {}

\* lock_resume: the threads whose request the new list of r has granted
Wakes(r) ==
  [u \in Trans |->
     IF /\ IsLockwait(u) /\ waiting_for_res[u] = r
        /\ Holds(res'[r], u) /\ EntryOf(res'[r].holder, u).blocked = "NULL"
     THEN "resumed" ELSE lockwait_state[u]]

Suspend(t, r) ==
  /\ lockwait_state' = [lockwait_state EXCEPT ![t] = "suspended"]
  /\ waiting_for_res' = [waiting_for_res EXCEPT ![t] = r]

GoesOn == UNCHANGED <<lockwait_state, waiting_for_res>>

HeldOnlyByWriters(q) ==
  /\ q.holder # <<>>
  /\ \A i \in DOMAIN q.holder : q.holder[i].granted = "X" /\ ~q.holder[i].shared_requested

NewRequesterIgnoresHolders(t, r, mode, cond, ahead) ==
  LET q == IF res[r].holder = <<>> /\ res[r].waiter = <<>> THEN FreeResource ELSE res[r]
      grantable == Compat(mode, q.total_waiters_mode)
      passes == ahead /\ HeldOnlyByWriters(q)
      w == Blocked(t, mode)
  IN \/ /\ grantable
        /\ res' = [res EXCEPT ![r] =
             [q EXCEPT !.holder = PositionHolder(q.holder, Granted(t, mode)),
                       !.total_holders_mode = Conv(mode, q.total_holders_mode)]]
        /\ GoesOn
     \/ /\ ~grantable
        /\ cond \/ passes
        /\ GoesOn /\ UNCHANGED res
     \/ /\ ~grantable /\ ~cond /\ ~passes
        /\ res' = [res EXCEPT ![r] =
             [q EXCEPT !.waiter = IF ahead THEN <<w>> \o q.waiter ELSE Append(q.waiter, w),
                       !.total_waiters_mode = Conv(mode, q.total_waiters_mode)]]
        /\ Suspend(t, r)

\* a request by a transaction that does not hold the resource
NewRequester(t, r, mode, cond, ahead) ==
  LET q == IF res[r].holder = <<>> /\ res[r].waiter = <<>> THEN FreeResource ELSE res[r]
      grantable == Compat(mode, q.total_waiters_mode) /\ Compat(mode, q.total_holders_mode)
      passes == ahead /\ HeldOnlyByWriters(q)
      w == Blocked(t, mode)
  IN \/ /\ grantable
        /\ res' = [res EXCEPT ![r] =
             [q EXCEPT !.holder = PositionHolder(q.holder, Granted(t, mode)),
                       !.total_holders_mode = Conv(mode, q.total_holders_mode)]]
        /\ GoesOn
     \/ /\ ~grantable
        /\ cond \/ passes
        /\ GoesOn /\ UNCHANGED res
     \/ /\ ~grantable /\ ~cond /\ ~passes
        /\ res' = [res EXCEPT ![r] =
             [q EXCEPT !.waiter = IF ahead THEN <<w>> \o q.waiter ELSE Append(q.waiter, w),
                       !.total_waiters_mode = Conv(mode, q.total_waiters_mode)]]
        /\ Suspend(t, r)

\* a request by a holder, which may convert its mode
ExistingHolder(t, r, mode, cond) ==
  LET q == res[r]
      e == [EntryOf(q.holder, t) EXCEPT !.shared_requested = @ \/ mode = "S"]
      others == Without(q.holder, t)
      new == Conv(mode, e.granted)
      fits == Compat(new, ConvOf(GrantedModes(others)))
      Become(f) == [i \in DOMAIN q.holder |-> IF q.holder[i].tran = t THEN f ELSE q.holder[i]]
  IN \/ /\ new = e.granted
        /\ res' = [res EXCEPT ![r].holder = Become([e EXCEPT !.count = @ + 1])]
        /\ GoesOn
     \/ /\ new # e.granted /\ fits
        /\ res' = [res EXCEPT ![r].holder = Become([e EXCEPT !.count = @ + 1, !.granted = new]),
                              ![r].total_holders_mode = Conv(mode, @)]
        /\ GoesOn
     \/ /\ new # e.granted /\ ~fits /\ cond
        /\ res' = [res EXCEPT ![r].holder = Become(e)]
        /\ GoesOn
     \/ /\ new # e.granted /\ ~fits /\ ~cond
        /\ res' = [res EXCEPT
             ![r].holder = PositionHolder(others, [e EXCEPT !.count = @ + 1, !.blocked = new]),
             ![r].total_holders_mode = Conv(mode, @)]
        /\ Suspend(t, r)

Lock(t, r, mode, cond, ahead) ==
  /\ lockwait_state[t] = "active"
  /\ requests[t] < MaxRequests[t]
  /\ mode \in ModesOf[t][r]
  /\ ahead => t \in Owners /\ mode = "X" /\ ~cond
  /\ requests' = [requests EXCEPT ![t] = @ + 1]
  /\ IF Holds(res[r], t) THEN ExistingHolder(t, r, mode, cond)
                         ELSE NewRequester(t, r, mode, cond, ahead)
  /\ UNCHANGED <<unscanned, edges, victims>>

(***************************************************************************)
(* Releases.  ChangeRes: the list of r becomes q, and t goes to state s.   *)
(***************************************************************************)
ChangeRes(r, q, t, s) ==
  /\ res' = [res EXCEPT ![r] = q]
  /\ lockwait_state' = [Wakes(r) EXCEPT ![t] = s]
  /\ waiting_for_res' = [waiting_for_res EXCEPT ![t] = "NULL"]
  /\ UNCHANGED <<requests, unscanned, edges, victims>>

Drop(q, t) == Regrant([q EXCEPT !.holder = Without(q.holder, t)])

\* a converter that was not granted keeps what it held before
ConverterGivesUp(q, t) ==
  LET e == EntryOf(q.holder, t)
      kept == [e EXCEPT !.count = @ - 1, !.blocked = "NULL"]
  IN IF kept.count > 0
     THEN Regrant([q EXCEPT !.holder = PositionHolder(Without(q.holder, t), kept)])
     ELSE Drop(q, t)

WaiterGivesUpQuietly(q, t) == RetotalWaiters([q EXCEPT !.waiter = Without(q.waiter, t)])

\* a waiter that was not granted leaves, and those behind it may be granted
WaiterGivesUp(q, t) ==
  GrantBlockedWaiterPartial[[q EXCEPT !.waiter = Without(q.waiter, t)],
                            CHOOSE i \in Position(q.waiter, t) : TRUE]

GiveUp(q, t) == IF Holds(q, t) THEN ConverterGivesUp(q, t) ELSE WaiterGivesUp(q, t)

\* the woken thread runs again
Resume(t) ==
  LET r == waiting_for_res[t]
      q == GiveUp(res[r], t)
  IN \/ /\ lockwait_state[t] = "resumed"
        /\ lockwait_state' = [lockwait_state EXCEPT ![t] = "active"]
        /\ waiting_for_res' = [waiting_for_res EXCEPT ![t] = "NULL"]
        /\ UNCHANGED <<res, requests, unscanned, edges, victims>>
     \/ /\ lockwait_state[t] = "timeout"
        /\ ChangeRes(r, q, t, "active")
     \/ /\ lockwait_state[t] = "aborted"
        /\ ChangeRes(r, q, t, "ending")

Unlock(t, r) ==
  /\ lockwait_state[t] = "active"
  /\ Holds(res[r], t)
  /\ LET q == res[r]
         i == CHOOSE k \in Position(q.holder, t) : TRUE
     IN ChangeRes(r, IF q.holder[i].count > 1 THEN [q EXCEPT !.holder[i].count = @ - 1]
                     ELSE Drop(q, t), t, "active")

Demotions == {<<"S", "IS">>, <<"SIX", "IX">>, <<"SCH-M", "IX">>}

Demote(t, r) ==
  /\ lockwait_state[t] = "active"
  /\ r \in Classes
  /\ \E d \in Demotions :
       \E i \in Position(res[r].holder, t) :
          /\ res[r].holder[i].granted = d[1]
          /\ ChangeRes(r, Regrant([res[r] EXCEPT !.holder[i].granted = d[2]]), t, "active")

\* commit or rollback
EndTransaction(t) ==
  /\ lockwait_state[t] = "active"
  /\ lockwait_state' = [lockwait_state EXCEPT ![t] = "ending"]
  /\ UNCHANGED <<res, waiting_for_res, requests, unscanned, edges, victims>>

UnlockAll(t) ==
  /\ lockwait_state[t] = "ending"
  /\ \/ \E r \in Resources : Holds(res[r], t) /\ ChangeRes(r, Drop(res[r], t), t, "ending")
     \/ /\ \A r \in Resources : ~Holds(res[r], t)
        /\ lockwait_state' = [lockwait_state EXCEPT ![t] = "ended"]
        /\ UNCHANGED <<res, waiting_for_res, requests, unscanned, edges, victims>>

(***************************************************************************)
(* The deadlock-detect daemon.                                             *)
(***************************************************************************)
\* a wait that expired or that was interrupted
Expire(t) ==
  /\ IsLockwait(t)
  /\ t \in CanTimeout
  /\ lockwait_state' = [lockwait_state EXCEPT ![t] = "timeout"]
  /\ UNCHANGED <<res, waiting_for_res, requests, unscanned, edges, victims>>

StartDetectionForThree ==
  /\ unscanned = {} /\ edges = {} /\ victims = {}
  /\ Cardinality({t \in Trans : IsLockwait(t)}) >= 3
  /\ unscanned' = Resources
  /\ UNCHANGED <<res, lockwait_state, waiting_for_res, requests, edges, victims>>

StartDetection ==
  /\ unscanned = {} /\ edges = {} /\ victims = {}
  /\ Cardinality({t \in Trans : IsLockwait(t)}) >= 2
  /\ unscanned' = Resources
  /\ UNCHANGED <<res, lockwait_state, waiting_for_res, requests, edges, victims>>

Edge(from, to, isHolder) ==
  [from |-> from.tran, to |-> to.tran, holder |-> isHolder, wait |-> requests[from.tran]]

WaitsForHoldersOnly(q) ==
  {Edge(p[1], p[2], TRUE) : p \in
     {x \in Range(q.holder \o q.waiter) \X Range(q.holder) :
        x[1].tran # x[2].tran /\ ~Compat(x[1].blocked, x[2].granted)}}

\* who waits for whom in the lists of a resource
WaitsFor(q) ==
  LET h == q.holder
      w == q.waiter
      Hinders(e, f) == ~Compat(e.blocked, f.granted) \/ ~Compat(e.blocked, f.blocked)
      pairs == {p \in (DOMAIN h) \X (DOMAIN h) : p[1] < p[2] /\ h[p[1]].blocked # "NULL"}
  IN {Edge(h[p[2]], h[p[1]], TRUE) : p \in {x \in pairs : Hinders(h[x[2]], h[x[1]])}}
     \union {Edge(h[p[1]], h[p[2]], TRUE) :
              p \in {x \in pairs : ~Compat(h[x[1]].blocked, h[x[2]].granted)}}
     \union {Edge(w[p[1]], h[p[2]], TRUE) :
              p \in {x \in (DOMAIN w) \X (DOMAIN h) : Hinders(w[x[1]], h[x[2]])}}
     \union {Edge(w[p[2]], w[p[1]], FALSE) :
              p \in {x \in (DOMAIN w) \X (DOMAIN w) :
                       x[1] < x[2] /\ ~Compat(w[x[2]].blocked, w[x[1]].blocked)}}

\* one resource; waiters that nobody holds up are granted here at the latest
Scan(r) ==
  /\ r \in unscanned
  /\ unscanned' = unscanned \ {r}
  /\ res' = [res EXCEPT ![r] =
       IF @.holder = <<>> /\ @.waiter # <<>>
       THEN GrantBlockedWaiter[[@ EXCEPT !.total_holders_mode = "NULL"], 1] ELSE @]
  /\ lockwait_state' = Wakes(r)
  /\ edges' = edges \union
       {e \in WaitsFor(res'[r]) : "aborted" \notin {lockwait_state[e.from], lockwait_state[e.to]}}
  /\ UNCHANGED <<waiting_for_res, requests, victims>>

\* edges of a wait that has not ended since they were read
LiveEdges ==
  {e \in edges : e.wait = requests[e.from]
                 /\ lockwait_state[e.from] \notin {"active", "ending", "ended"}}

Reached[T \in SUBSET Trans] ==
  LET U == T \union {e.to : e \in {x \in LiveEdges : x.from \in T}}
  IN IF U = T THEN T ELSE Reached[U]

\* the holders that somebody on a cycle with them waits for
Candidates ==
  {e.to : e \in {x \in LiveEdges : x.holder /\ x.from \in Reached[{x.to}]}}

SelectVictim(v) ==
  /\ unscanned = {}
  /\ v \in Candidates
  /\ victims' = victims \union {v}
  /\ edges' = {e \in LiveEdges : v \notin {e.from, e.to}}
  /\ UNCHANGED <<res, lockwait_state, waiting_for_res, requests, unscanned>>

\* once there are no more cycles; the victim may have stopped waiting, or wait
\* for something else by now
WakeupVictim(v) ==
  /\ unscanned = {} /\ v \in victims
  /\ Candidates = {}
  /\ victims' = victims \ {v}
  /\ edges' = {}
  /\ lockwait_state' = [lockwait_state EXCEPT ![v] =
       CASE ~IsLockwait(v) -> @
         [] IsLockwait(v) /\ v \in CanTimeout -> "timeout"
         [] OTHER -> "aborted"]
  /\ UNCHANGED <<res, waiting_for_res, requests, unscanned>>

EndDetection ==
  /\ unscanned = {} /\ edges # {} /\ victims = {}
  /\ Candidates = {}
  /\ edges' = {}
  /\ UNCHANGED <<res, lockwait_state, waiting_for_res, requests, unscanned, victims>>

Detector ==
  \/ StartDetection
  \/ \E r \in Resources : Scan(r)
  \/ \E v \in Trans : SelectVictim(v) \/ WakeupVictim(v)
  \/ EndDetection

Finished ==
  /\ \A t \in Trans : lockwait_state[t] = "ended"
  /\ UNCHANGED vars

Next ==
  \/ \E t \in Trans :
       \/ \E r \in Resources :
            \/ \E mode \in ModesOf[t][r], cond, ahead \in BOOLEAN : Lock(t, r, mode, cond, ahead)
            \/ Unlock(t, r)
            \/ Demote(t, r)
       \/ Resume(t)
       \/ EndTransaction(t)
       \/ UnlockAll(t)
       \/ Expire(t)
  \/ Detector
  \/ Finished

(***************************************************************************)
(* A thread that can run gets to run: a woken one resumes, a transaction   *)
(* ends some time and its locks are then released.  The daemon comes round *)
(* every interval.                                                         *)
(***************************************************************************)
Runs == \E t \in Trans : Resume(t) \/ EndTransaction(t) \/ UnlockAll(t)

Fairness == WF_vars(Runs) /\ WF_vars(Detector)

Spec == Init /\ [][Next]_vars /\ Fairness

(***************************************************************************)
(* Properties.                                                             *)
(***************************************************************************)
\* Types, and what the loops over the lists rely on: a transaction has one
\* entry in the lists of a resource, blocked holders come before the others,
\* and a waiting thread's entry is in the lists of the resource it waits for.
TypeOK ==
  /\ \A r \in Resources :
       LET h == res[r].holder
           w == res[r].waiter
       IN /\ \A i \in DOMAIN h : h[i] \in Entry /\ h[i].granted # "NULL"
          /\ \A i \in DOMAIN w : w[i] \in Entry /\ w[i].granted = "NULL"
          /\ \A i, j \in DOMAIN h : i < j => h[i].tran # h[j].tran /\ (h[i].blocked = "NULL" => h[j].blocked = "NULL")
          /\ \A i \in DOMAIN w : ~Holds(res[r], w[i].tran)
  /\ lockwait_state \in [Trans -> {"active", "suspended", "resumed", "timeout",
                                   "aborted", "ending", "ended"}]
  /\ \A t \in Trans : requests[t] \in 0..MaxRequests[t]
  /\ unscanned \subseteq Resources
  /\ victims \subseteq Trans
  /\ \A t \in Trans : lockwait_state[t] \in {"suspended", "timeout", "aborted"} =>
       LET q == res[waiting_for_res[t]]
       IN \/ Position(q.waiter, t) # {}
          \/ Holds(q, t) /\ EntryOf(q.holder, t).blocked # "NULL"

\* Two transactions never hold a resource in modes that the compatibility
\* table forbids to be held together, whatever was converted, demoted,
\* granted from the lists or given up (lock_internal_perform_lock_object and
\* the grant functions).
HoldersAreCompatible ==
  \A r \in Resources : \A i, j \in DOMAIN res[r].holder :
    i # j => Compat(res[r].holder[i].granted, res[r].holder[j].granted)

\* The cached totals, by which a new request is judged, admit a mode exactly
\* if every entry of the list does: a total that was left too strong keeps
\* requests out, one that was left too weak lets them in.
TotalsAreCurrent ==
  \A r \in Resources, mode \in Mode :
    /\ Compat(mode, res[r].total_holders_mode) <=>
         \A i \in DOMAIN res[r].holder : /\ Compat(mode, res[r].holder[i].granted)
                                         /\ Compat(mode, res[r].holder[i].blocked)
    /\ Compat(mode, res[r].total_waiters_mode) <=>
         \A i \in DOMAIN res[r].waiter : Compat(mode, res[r].waiter[i].blocked)

\* No grant is missed: a sleeping transaction at the head of the waiters is
\* held up by a holder's mode, and a sleeping converter that comes first is
\* held up by the mode of another holder.  A release, a demotion, and a wait
\* that is given up must all have looked for whom to wake.
NoForgottenWaiter ==
  \A r \in Resources :
    LET h == res[r].holder
        w == res[r].waiter
    IN /\ w # <<>> /\ IsLockwait(w[1].tran) =>
            \E i \in DOMAIN h : ~Compat(w[1].blocked, h[i].granted) \/ ~Compat(w[1].blocked, h[i].blocked)
       /\ h # <<>> /\ h[1].blocked # "NULL" /\ IsLockwait(h[1].tran) =>
            \E i \in DOMAIN h \ {1} : ~Compat(h[1].blocked, h[i].granted)

\* Everybody who sleeps waits for somebody in the graph that the detector
\* would collect now (lock_detect_local_deadlock); a wait without an edge
\* could be part of a deadlock that it never sees.
EveryWaitIsSeen ==
  \A t \in Trans : IsLockwait(t) =>
    \E e \in WaitsFor(res[waiting_for_res[t]]) : e.from = t /\ e.to # t

\* Every sleeping transaction is woken: a deadlock is found and broken, and
\* what is released reaches those who wait for it.  The transactions make
\* MaxRequests requests, so every wait ends if and only if in the end nobody
\* sleeps.
EveryWaitEnds ==
  <>[](\A t \in Trans : ~IsLockwait(t))

=============================================================================
