---------------------------- MODULE LockfreeTran ----------------------------
(***************************************************************************)
(* Epoch reclamation of lock-free nodes: lockfree::tran::table and         *)
(* lockfree::tran::descriptor.  Every thread owns one descriptor.  It      *)
(* publishes the global transaction id while it reads the structure, and   *)
(* keeps the nodes it retired in a list ordered by retire id.  A retired   *)
(* node is handed back to its owner once the minimum over the published    *)
(* ids has passed its retire id.                                           *)
(*                                                                         *)
(* Loads and stores of the atomics m_global_tranid, m_min_active_tranid    *)
(* and m_tranid are separate steps; the fields only the owner of a         *)
(* descriptor touches change together with the step that uses them, and a  *)
(* local is reset to its initial value where it goes out of use.  The      *)
(* publishing store and the scan's loads are seq_cst in the code, so       *)
(* sequentially consistent interleaving is the memory model.               *)
(*                                                                         *)
(* The structure the nodes live in is the client of this component: a node *)
(* is linked, unlinked by one thread, retired, and free again; hold[t] is  *)
(* the set of nodes thread t has reached under its current transaction.    *)
(***************************************************************************)
EXTENDS Integers, Sequences, FiniteSets

CONSTANTS
  NThreads,             \* system::get_max_transaction_count ()
  Nodes,                \* reclaimable nodes
  NoNode,               \* NULL
  INVALID_TRANID,       \* the largest id: "no transaction"
  RefreshInterval       \* MATI_REFRESH_INTERVAL

ASSUME ConstantsAssumption ==
  /\ NThreads \in Nat \ {0}
  /\ NoNode \notin Nodes
  /\ INVALID_TRANID \in Nat \ {0}
  /\ RefreshInterval \in Nat \ {0}

Threads == 0 .. (NThreads - 1)
Ids == 0 .. INVALID_TRANID

VARIABLES
  globalTranid,      \* table::m_global_tranid
  minActive,         \* table::m_min_active_tranid
  tranid,            \* descriptor::m_tranid
  didIncr,           \* descriptor::m_did_incr
  lastReclaim,       \* descriptor::m_last_reclaim_minid
  retired,           \* descriptor::m_retired_head .. m_retired_tail
  retireTranid,      \* reclaimable_node::m_retire_tranid
  status,            \* where a node is: linked, unlinked, retired, free
  hold,              \* nodes reached under the current transaction
  pc,                \* step of the descriptor call in progress
  ret,               \* where start_tran_and_increment_id or the scan returns
  drawn,             \* id loaded or drawn from m_global_tranid
  victim,            \* argument of retire_node
  shouldEnd,         \* retire_node's local should_end
  it,                \* loop index of compute_min_active_tranid
  minvalue           \* minimum of the scan, then min_tran_id of the reclaim

table == <<globalTranid, minActive>>
desc == <<tranid, didIncr, lastReclaim, retired, retireTranid>>
client == <<status, hold>>
locals == <<pc, ret, drawn, victim, shouldEnd, it, minvalue>>
vars == <<table, desc, client, locals>>

PcValues == {"run", "start", "publish", "scan", "reclaim", "take", "append"}

TypeOK ==
  /\ globalTranid \in 0 .. (INVALID_TRANID - 1)
  /\ minActive \in Ids
  /\ tranid \in [Threads -> Ids]
  /\ didIncr \in [Threads -> BOOLEAN]
  /\ lastReclaim \in [Threads -> Ids]
  /\ retired \in [Threads -> Seq(Nodes)]
  /\ retireTranid \in [Nodes -> Ids]
  /\ status \in [Nodes -> {"linked", "unlinked", "retired", "free"}]
  /\ hold \in [Threads -> SUBSET Nodes]
  /\ pc \in [Threads -> PcValues]
  /\ ret \in [Threads -> PcValues]
  /\ drawn \in [Threads -> Ids]
  /\ victim \in [Threads -> Nodes \cup {NoNode}]
  /\ shouldEnd \in [Threads -> BOOLEAN]
  /\ it \in [Threads -> 0 .. NThreads]
  /\ minvalue \in [Threads -> Ids]

Init ==
  /\ globalTranid = 0
  /\ minActive = 0
  /\ tranid = [t \in Threads |-> INVALID_TRANID]
  /\ didIncr = [t \in Threads |-> FALSE]
  /\ lastReclaim = [t \in Threads |-> 0]
  /\ retired = [t \in Threads |-> <<>>]
  /\ retireTranid = [n \in Nodes |-> 0]
  /\ status = [n \in Nodes |-> "free"]
  /\ hold = [t \in Threads |-> {}]
  /\ pc = [t \in Threads |-> "run"]
  /\ ret = [t \in Threads |-> "run"]
  /\ drawn = [t \in Threads |-> 0]
  /\ victim = [t \in Threads |-> NoNode]
  /\ shouldEnd = [t \in Threads |-> FALSE]
  /\ it = [t \in Threads |-> 0]
  /\ minvalue = [t \in Threads |-> 0]

IsTranStarted(t) == tranid[t] # INVALID_TRANID

Goto(t, label) == pc' = [pc EXCEPT ![t] = label]

-----------------------------------------------------------------------------
(* start_tran: load the global id, then publish it.                        *)

StartTranLoad(t) ==
  /\ pc[t] = "run" /\ victim[t] = NoNode
  /\ ~IsTranStarted(t)
  /\ drawn' = [drawn EXCEPT ![t] = globalTranid]
  /\ Goto(t, "start")
  /\ UNCHANGED <<table, desc, client, ret, victim, shouldEnd, it, minvalue>>

StartTranPublish(t) ==
  /\ pc[t] = "start"
  /\ tranid' = [tranid EXCEPT ![t] = drawn[t]]
  /\ drawn' = [drawn EXCEPT ![t] = 0]
  /\ Goto(t, "run")
  /\ UNCHANGED <<table, didIncr, lastReclaim, retired, retireTranid, client,
                 ret, victim, shouldEnd, it, minvalue>>

EndTran(t) ==
  /\ pc[t] = "run" /\ victim[t] = NoNode
  /\ IsTranStarted(t)
  /\ tranid' = [tranid EXCEPT ![t] = INVALID_TRANID]
  /\ didIncr' = [didIncr EXCEPT ![t] = FALSE]
  /\ hold' = [hold EXCEPT ![t] = {}]
  /\ UNCHANGED <<table, lastReclaim, retired, retireTranid, status, locals>>

-----------------------------------------------------------------------------
(* The client.  A reader reaches linked nodes only, and only inside a      *)
(* transaction.  The thread that unlinks a node is the one that retires    *)
(* it, and it draws the retire id after the unlink: list_delete promotes   *)
(* its transaction only once the unlink succeeded.                         *)

Access(t, n) ==
  /\ pc[t] = "run" /\ IsTranStarted(t)
  /\ status[n] = "linked"
  /\ hold' = [hold EXCEPT ![t] = @ \cup {n}]
  /\ UNCHANGED <<table, desc, status, locals>>

Link(n) ==
  /\ status[n] = "free"
  /\ status' = [status EXCEPT ![n] = "linked"]
  /\ UNCHANGED <<table, desc, hold, locals>>

Unlink(t, n) ==
  /\ pc[t] = "run" /\ victim[t] = NoNode /\ ~didIncr[t]
  /\ status[n] = "linked"
  /\ status' = [status EXCEPT ![n] = "unlinked"]
  /\ victim' = [victim EXCEPT ![t] = n]
  /\ UNCHANGED <<table, desc, hold, pc, ret, drawn, shouldEnd, it, minvalue>>

-----------------------------------------------------------------------------
(* start_tran_and_increment_id: draw a new global id, publish it, and only *)
(* then refresh the cached minimum when the id is due.                     *)

CanDraw == globalTranid + 1 < INVALID_TRANID

Due(id) == id % RefreshInterval = 0

(* refresh_min_active_tranid_if_due: scan first when id is due, then go on *)
(* to k.                                                                   *)
RefreshIfDue(t, id, k) ==
  /\ Goto(t, IF Due(id) THEN "scan" ELSE k)
  /\ ret' = [ret EXCEPT ![t] = IF Due(id) THEN k ELSE "run"]
  /\ minvalue' = [minvalue EXCEPT ![t] = IF Due(id) THEN INVALID_TRANID ELSE @]

(* Mutant: the cached minimum is refreshed as the id is drawn, before it   *)
(* is published.                                                           *)
ScanBeforePublish(t, k) ==
  /\ CanDraw
  /\ globalTranid' = globalTranid + 1
  /\ drawn' = [drawn EXCEPT ![t] = globalTranid + 1]
  /\ RefreshIfDue(t, globalTranid + 1, "publish")
  /\ UNCHANGED <<minActive, desc, status, victim, it>>

(* get_new_global_tranid inside start_tran_and_increment_id, which goes on *)
(* to k once the id is published.                                          *)
IncrementId(t, k) ==
  /\ CanDraw
  /\ globalTranid' = globalTranid + 1
  /\ drawn' = [drawn EXCEPT ![t] = globalTranid + 1]
  /\ ret' = [ret EXCEPT ![t] = k]
  /\ Goto(t, "publish")
  /\ UNCHANGED <<minActive, desc, status, victim, it, minvalue>>

(* promote_tran_force: after it the caller uses nothing it reached before. *)
Promote(t) ==
  /\ pc[t] = "run" /\ victim[t] # NoNode
  /\ IsTranStarted(t) /\ ~didIncr[t]
  /\ hold' = [hold EXCEPT ![t] = {}]
  /\ IncrementId(t, "run")
  /\ UNCHANGED shouldEnd

PublishIncremented(t) ==
  /\ pc[t] = "publish"
  /\ tranid' = [tranid EXCEPT ![t] = drawn[t]]
  /\ didIncr' = [didIncr EXCEPT ![t] = TRUE]
  /\ RefreshIfDue(t, drawn[t], ret[t])
  /\ UNCHANGED <<table, lastReclaim, retired, retireTranid, client,
                 drawn, victim, shouldEnd, it>>

-----------------------------------------------------------------------------
(* compute_min_active_tranid: read the descriptors one by one, then store  *)
(* the minimum in the shared cache.                                        *)

(* Mutant: the last active descriptor read wins, not the lowest.           *)
ScanKeepsLast(t) ==
  /\ pc[t] = "scan" /\ it[t] < NThreads
  /\ minvalue' = [minvalue EXCEPT ![t] = IF IsTranStarted(it[t]) THEN tranid[it[t]] ELSE @]
  /\ it' = [it EXCEPT ![t] = @ + 1]
  /\ UNCHANGED <<table, desc, client, pc, ret, drawn, victim, shouldEnd>>

ScanOne(t) ==
  /\ pc[t] = "scan" /\ it[t] < NThreads
  /\ minvalue' = [minvalue EXCEPT ![t] = IF @ > tranid[it[t]] THEN tranid[it[t]] ELSE @]
  /\ it' = [it EXCEPT ![t] = @ + 1]
  /\ UNCHANGED <<table, desc, client, pc, ret, drawn, victim, shouldEnd>>

ScanStore(t) ==
  /\ pc[t] = "scan" /\ it[t] = NThreads
  /\ minActive' = minvalue[t]
  /\ it' = [it EXCEPT ![t] = 0]
  /\ minvalue' = [minvalue EXCEPT ![t] = IF ret[t] = "take" THEN @ ELSE 0]
  /\ Goto(t, ret[t])
  /\ ret' = [ret EXCEPT ![t] = "run"]
  /\ UNCHANGED <<globalTranid, desc, client, drawn, victim, shouldEnd>>

-----------------------------------------------------------------------------
(* retire_node.  The retire id is the one published by the promotion, or,  *)
(* inside a plain transaction, a new one that is not published.            *)

RetireOutside(t) ==
  /\ pc[t] = "run" /\ victim[t] # NoNode
  /\ ~IsTranStarted(t)
  /\ shouldEnd' = [shouldEnd EXCEPT ![t] = TRUE]
  /\ IncrementId(t, "reclaim")
  /\ UNCHANGED hold

RetirePromoted(t) ==
  /\ pc[t] = "run" /\ victim[t] # NoNode
  /\ IsTranStarted(t) /\ didIncr[t]
  /\ drawn' = [drawn EXCEPT ![t] = tranid[t]]
  /\ Goto(t, "reclaim")
  /\ UNCHANGED <<table, desc, client, ret, victim, shouldEnd, it, minvalue>>

RetireInside(t) ==
  /\ pc[t] = "run" /\ victim[t] # NoNode
  /\ IsTranStarted(t) /\ ~didIncr[t] /\ CanDraw
  /\ globalTranid' = globalTranid + 1
  /\ drawn' = [drawn EXCEPT ![t] = globalTranid + 1]
  /\ RefreshIfDue(t, globalTranid + 1, "reclaim")
  /\ UNCHANGED <<minActive, desc, client, victim, shouldEnd, it>>

(* freelist::claim runs the same reclaim pass inside a transaction before  *)
(* it takes a free node.                                                   *)
ClaimReclaims(t) ==
  /\ pc[t] = "run" /\ victim[t] = NoNode
  /\ IsTranStarted(t)
  /\ Goto(t, "reclaim")
  /\ UNCHANGED <<table, desc, client, ret, drawn, victim, shouldEnd, it, minvalue>>

AfterReclaim(t) == IF victim[t] = NoNode THEN "run" ELSE "append"

(* reclaim_retired_list up to the choice of min_tran_id: the cached        *)
(* minimum, or a fresh scan when the cache holds the sentinel.             *)
ReclaimRead(t) ==
  /\ pc[t] = "reclaim"
  /\ Goto(t, IF retired[t] = <<>> THEN AfterReclaim(t)
             ELSE IF minActive = INVALID_TRANID THEN "scan" ELSE "take")
  /\ ret' = [ret EXCEPT ![t] = IF retired[t] # <<>> /\ minActive = INVALID_TRANID
                                THEN "take" ELSE "run"]
  /\ minvalue' = [minvalue EXCEPT ![t] = IF retired[t] = <<>> THEN @ ELSE minActive]
  /\ UNCHANGED <<table, desc, client, drawn, victim, shouldEnd, it>>

(* The run of reclaimable nodes is the longest prefix whose ids are below  *)
(* min_tran_id.                                                            *)
IsReclaimRun(t, min, k) ==
  /\ \A i \in 1 .. k : retireTranid[retired[t][i]] < min
  /\ k < Len(retired[t]) => retireTranid[retired[t][k + 1]] >= min

ReclaimTake(t) ==
  /\ pc[t] = "take"
  /\ \E k \in 0 .. Len(retired[t]) :
       /\ IF minvalue[t] <= lastReclaim[t] THEN k = 0 ELSE IsReclaimRun(t, minvalue[t], k)
       /\ retired' = [retired EXCEPT ![t] = SubSeq(@, k + 1, Len(@))]
       /\ status' = [n \in Nodes |->
                       IF \E i \in 1 .. k : retired[t][i] = n THEN "free" ELSE status[n]]
  /\ lastReclaim' = [lastReclaim EXCEPT ![t] =
                       IF minvalue[t] > @ /\ minvalue[t] # INVALID_TRANID THEN minvalue[t] ELSE @]
  /\ minvalue' = [minvalue EXCEPT ![t] = 0]
  /\ Goto(t, AfterReclaim(t))
  /\ UNCHANGED <<table, tranid, didIncr, retireTranid, hold,
                 ret, drawn, victim, shouldEnd, it>>

(* The tail of retire_node: append the node, and end the transaction       *)
(* retire_node itself started.                                             *)
RetireAppend(t) ==
  /\ pc[t] = "append"
  /\ retireTranid' = [retireTranid EXCEPT ![victim[t]] = drawn[t]]
  /\ retired' = [retired EXCEPT ![t] = Append(@, victim[t])]
  /\ status' = [status EXCEPT ![victim[t]] = "retired"]
  /\ victim' = [victim EXCEPT ![t] = NoNode]
  /\ tranid' = [tranid EXCEPT ![t] = IF shouldEnd[t] THEN INVALID_TRANID ELSE @]
  /\ didIncr' = [didIncr EXCEPT ![t] = IF shouldEnd[t] THEN FALSE ELSE @]
  /\ drawn' = [drawn EXCEPT ![t] = 0]
  /\ shouldEnd' = [shouldEnd EXCEPT ![t] = FALSE]
  /\ Goto(t, "run")
  /\ UNCHANGED <<table, lastReclaim, hold, ret, it, minvalue>>

-----------------------------------------------------------------------------
Step(t) ==
  \/ StartTranLoad(t) \/ StartTranPublish(t) \/ EndTran(t)
  \/ Promote(t) \/ PublishIncremented(t)
  \/ ScanOne(t) \/ ScanStore(t)
  \/ RetireOutside(t) \/ RetirePromoted(t) \/ RetireInside(t)
  \/ ClaimReclaims(t) \/ ReclaimRead(t) \/ ReclaimTake(t) \/ RetireAppend(t)
  \/ \E n \in Nodes : Access(t, n) \/ Unlink(t, n)

Next ==
  \/ \E t \in Threads : Step(t)
  \/ \E n \in Nodes : Link(n)

Spec == Init /\ [][Next]_vars

-----------------------------------------------------------------------------
(* No node is handed back to its owner while a thread that reached it is   *)
(* still inside the transaction it reached it under: reclaim_retired_list  *)
(* never frees below a reader, whatever interleaving of publishing,        *)
(* scanning and retiring led to the minimum it used.                       *)
NoReclaimWhileHeld ==
  \A t \in Threads : \A n \in hold[t] : status[n] # "free"

(* "Nothing active" is never cached: every caller of                       *)
(* compute_min_active_tranid has published an id before it scans, so the   *)
(* sentinel that authorises reclaiming every list cannot get into          *)
(* m_min_active_tranid.                                                    *)
SentinelNeverCached == minActive # INVALID_TRANID

(* retire_node appends, so each retired list is ordered by retire id and   *)
(* everything reclaimable is a prefix of it.                               *)
RetiredInOrder ==
  \A t \in Threads : \A i, j \in 1 .. Len(retired[t]) :
    i < j => retireTranid[retired[t][i]] < retireTranid[retired[t][j]]
=============================================================================
