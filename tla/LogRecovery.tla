----------------------------- MODULE LogRecovery -----------------------------
(***************************************************************************)
(* The write-ahead log and crash recovery (log_manager.c, log_append.cpp,  *)
(* log_page_buffer.c, log_recovery.c).  Transactions change pages, postpone *)
(* actions until they commit, bracket changes in system operations, commit *)
(* and roll back; a fuzzy checkpoint and page flushes run beside them; a    *)
(* crash may come at any point, also during recovery, and recovery runs     *)
(* analysis, redo, the unfinished postpones, undo and a checkpoint.         *)
(*                                                                         *)
(* An LSA is an index into log.  A page is the sequence of LSAs whose redo  *)
(* was applied to it; its page LSA is the last of them.  prior_lsa_mutex    *)
(* makes an append and the descriptor fields it sets one step.              *)
(***************************************************************************)
EXTENDS Integers, Sequences, FiniteSets, FiniteSetsExt

CONSTANTS NTrans,     \* transactions are 1 .. NTrans, each runs once
          Pages,
          MaxCache,   \* m_max_cache_entries of the postpone cache
          Workloads   \* the bounds of a behaviour: may[t] is what transaction t
                      \* does besides committing, ops[t] the number of its
                      \* updates and postpones, pages the pages
                      \* they are on, chkpts and crashes the number of
                      \* checkpoints at run time and of crashes.  After the last
                      \* crash no page flush and no checkpoint starts by itself:
                      \* nobody would read what it wrote.

Trans == 1 .. NTrans

Null == 0

ASSUME ConstantsAssumption ==
    /\ NTrans \in Nat \ {0} /\ MaxCache \in Nat \ {0}
    /\ \A w \in Workloads :
         /\ w.may \in [Trans -> SUBSET {"update", "postpone", "sysop", "abort"}]
         /\ w.ops \in [Trans -> Nat] /\ w.pages \subseteq Pages
         /\ w.chkpts \in Nat /\ w.crashes \in Nat

VARIABLES
    log,       \* every appended record, durable or not
    flushed,   \* the log is certainly on disk up to here
    hdr,       \* chkpt_lsa of the log header on disk
    buf,       \* the page buffer
    disk,      \* the pages on disk
    tran,      \* the transaction descriptors
    phase,     \* "run", or the recovery phase
    chk,       \* the checkpoint in progress
    acked,     \* transactions whose commit was reported to the client
    load,      \* the workload of this behaviour
    nchk, ncrash

vars == <<log, flushed, hdr, buf, disk, tran, phase, chk, acked, load, nchk, ncrash>>

\* LOG_TDES: only the fields that logging and recovery read.
Fresh == [st |-> "ACTIVE", tail |-> Null, undo |-> Null, posp |-> Null,
          topres |-> Null, tposp |-> Null, sposp |-> Null, topops |-> <<>>,
          cache |-> {}, pend |-> {}, pc |-> "work", n |-> 0]

\* No descriptor is assigned to the transaction.
Gone == [Fresh EXCEPT !.st = "NONE"]

\* A descriptor that recovery allocates.
RvFresh == [Fresh EXCEPT !.st = "UNILATERALLY_ABORTED"]

Lsa == Len(log) + 1

PageLsa(page) == IF page = <<>> THEN Null ELSE page[Len(page)]

Rec(type, t, page, ref, nxt) ==
    [type |-> type, trid |-> t, prev |-> tran[t].tail, page |-> page,
     ref |-> ref, nxt |-> nxt]

NoPage == "none"

\* The descriptor after a record of its transaction was appended.
Logged(d) == [d EXCEPT !.tail = Lsa, !.undo = Lsa]

Init ==
    /\ log = <<>> /\ flushed = 0 /\ hdr = Null
    /\ buf = [p \in Pages |-> <<>>] /\ disk = buf
    /\ tran = [t \in Trans |-> Fresh]
    /\ phase = "run" /\ chk = [pc |-> "idle", start |-> Null]
    /\ acked = {} /\ load \in Workloads /\ nchk = 0 /\ ncrash = 0

-----------------------------------------------------------------------------
(* Appending and applying.  d is the descriptor after the step. *)

Append1(t, rec, d) ==
    /\ log' = Append(log, rec)
    /\ tran' = [tran EXCEPT ![t] = d]

\* A record that also changes its page, under the page latch.
AppendAndApply(t, rec, d) ==
    /\ Append1(t, rec, d)
    /\ buf' = [buf EXCEPT ![rec.page] = Append(@, Lsa)]

Set(t, d) ==
    /\ tran' = [tran EXCEPT ![t] = d]
    /\ UNCHANGED <<log, buf>>

InSysop(d) == d.topops # <<>>

\* What a step of a transaction leaves alone besides flushed and acked.
TranUnchanged == UNCHANGED <<hdr, disk, phase, chk, load, nchk, ncrash>>

FlushedTo(lsa) == flushed' = Max({flushed, lsa})

-----------------------------------------------------------------------------
(* Postpones. *)

\* The system operations, newest first, that ended after start: the chain
\* tail_topresult_lsa, prv_topresult_lsa, ...
Chain(d, start) ==
    LET from[e \in 0 .. Len(log)] ==
            IF e <= start THEN {} ELSE {e} \cup from[log[e].ref]
    IN from[d.topres]

\* The records of t that a scan from start to the tail looks at.  It jumps
\* over the range of every system operation of the chain, and when start is
\* the last record before such a range it jumps over start as well.
Scanned(t, d, start) ==
    LET ends == Chain(d, start)
        hidden(i) == \E e \in ends : /\ i < e
                                     /\ \/ log[e].nxt < i
                                        \/ i = start /\ log[e].nxt = start
    IN {i \in start .. d.tail : log[i].trid = t /\ ~hidden(i)}

\* The postpones log_do_postpone executes: each scanned stretch ends at a
\* start of a postpone phase.
ToPostpone(t, d, start) ==
    LET seen == Scanned(t, d, start)
        cut(i) == \E j \in seen : /\ j < i /\ log[j].type \in {"CWP", "SSP"}
                                  /\ \A e \in Chain(d, start) : ~(j < e /\ e < i)
    IN {i \in seen : log[i].type = "POSTPONE" /\ ~cut(i)}

CacheFull(d) == Cardinality(d.cache) = MaxCache

\* The descriptor once the postpones to run were found: in the cache when it
\* holds the first one and all later ones, otherwise in the log.
Postponed(t, d, start) ==
    LET hit == start \in d.cache
    IN [d EXCEPT
          !.pend = IF hit /\ ~CacheFull(d) THEN {i \in d.cache : i >= start}
                   ELSE ToPostpone(t, d, start),
          !.cache = IF hit THEN {i \in d.cache : i < start} ELSE @]

\* log_execute_run_postpone of the next one.
RunNext(t) ==
    LET d == tran[t]
        i == Min(d.pend)
    IN AppendAndApply(t, Rec("RUN_POSTPONE", t, log[i].page, i, Null),
                      [Logged(d) EXCEPT !.pend = @ \ {i}])

-----------------------------------------------------------------------------
(* Undo: the next address to undo after record i. *)

\* Mutation of UndoNext: undo goes back from a compensation to what it undid.
UndoNextIntoUndone(i) ==
    IF log[i].type \in {"SYSOP_COMMIT", "SYSOP_ABORT"} THEN log[i].nxt
    ELSE IF log[i].type \in {"COMPENSATE", "UNDOREDO", "POSTPONE", "DUMMY_HEAD"}
    THEN log[i].prev ELSE Null


UndoNext(i) ==
    CASE log[i].type \in {"COMPENSATE", "SYSOP_COMMIT", "SYSOP_ABORT"} -> log[i].nxt
      [] log[i].type \in {"UNDOREDO", "POSTPONE", "DUMMY_HEAD"} -> log[i].prev
      [] OTHER -> Null

\* The first record from i on that log_rollback has to compensate, or the
\* point, not above upto, at which it stops.
ToUndo(i, upto) ==
    LET seek[j \in 0 .. Len(log)] ==
            IF j <= upto \/ log[j].type = "UNDOREDO" THEN j ELSE seek[UndoNext(j)]
    IN seek[i]

\* log_append_compensate for record i, after which undo goes on at nxt.
Compensate(t, i, nxt) ==
    AppendAndApply(t, Rec("COMPENSATE", t, log[i].page, i, nxt),
                   [Logged(tran[t]) EXCEPT !.undo = nxt])

-----------------------------------------------------------------------------
(* A running transaction. *)

Working(t) == phase = "run" /\ tran[t].st = "ACTIVE" /\ tran[t].pc = "work"

CanOp(t, op) == Working(t) /\ op \in load.may[t] /\ tran[t].n < load.ops[t]

\* log_append_undoredo_data
Update(t, p) ==
    /\ CanOp(t, "update")
    /\ AppendAndApply(t, Rec("UNDOREDO", t, p, Null, Null),
                      [Logged(tran[t]) EXCEPT !.n = @ + 1])
    /\ UNCHANGED <<flushed, acked>> /\ TranUnchanged

\* log_append_postpone.  A transaction with no record yet gets a head first.
AppendPostpone(t, p) ==
    LET d == tran[t]
        head == IF d.tail = Null THEN <<Rec("DUMMY_HEAD", t, NoPage, Null, Null)>>
                ELSE <<>>
        lsa == Lsa + Len(head)
        rec == [Rec("POSTPONE", t, p, Null, Null) EXCEPT
                  !.prev = IF head = <<>> THEN @ ELSE Lsa]
        first(a) == IF a = Null THEN lsa ELSE a
        d1 == [d EXCEPT !.tail = lsa, !.undo = lsa, !.n = @ + 1,
                        !.cache = IF CacheFull(d) THEN @ ELSE @ \cup {lsa}]
    IN /\ CanOp(t, "postpone")
       /\ log' = (log \o head) \o <<rec>>
       /\ tran' = [tran EXCEPT ![t] =
                     IF InSysop(d) THEN [d1 EXCEPT !.topops[1].posp = first(@)]
                     ELSE [d1 EXCEPT !.posp = first(@)]]
       /\ UNCHANGED <<buf, flushed, acked>> /\ TranUnchanged

\* log_sysop_start; at most one system operation of a transaction is open.
SysopStart(t) ==
    /\ CanOp(t, "sysop") /\ ~InSysop(tran[t])
    /\ Set(t, [tran[t] EXCEPT !.topops = <<[parent |-> tran[t].tail, posp |-> Null]>>])
    /\ UNCHANGED <<flushed, acked>> /\ TranUnchanged

SysopEnd(type, t) ==
    Rec(type, t, NoPage, tran[t].topres, Head(tran[t].topops).parent)

\* The effect on the descriptor of appending a LOG_SYSOP_END.
SysopEnded(d) == [Logged(d) EXCEPT
    !.sposp = IF Head(d.topops).parent < @ THEN Null ELSE @]

Unchanged(d) == d.tail <= Head(d.topops).parent

\* log_sysop_commit_internal up to the postpones: nothing is logged for an
\* empty operation; with postpones LOG_SYSOP_START_POSTPONE, the descriptor's
\* sysop_start_postpone_lsa and its state are set under prior_lsa_mutex.
SysopCommit(t) ==
    LET d == tran[t]
        op == Head(d.topops)
    IN /\ Working(t) /\ InSysop(d)
       /\ \/ /\ Unchanged(d)
             /\ Set(t, [d EXCEPT !.topops = <<>>])
          \/ /\ ~Unchanged(d) /\ op.posp = Null
             /\ Append1(t, SysopEnd("SYSOP_COMMIT", t),
                        [SysopEnded(d) EXCEPT !.pc = "sys_final"])
             /\ UNCHANGED buf
          \/ /\ ~Unchanged(d) /\ op.posp # Null
             /\ Append1(t, Rec("SSP", t, NoPage, op.posp, op.parent),
                        [Logged(Postponed(t, d, op.posp)) EXCEPT
                           !.sposp = Lsa, !.pc = "sys_post",
                           !.st = "TOPOPE_COMMITTED_WITH_POSTPONE"])
             /\ UNCHANGED buf
       /\ UNCHANGED <<flushed, acked>> /\ TranUnchanged

\* log_sysop_do_postpone gives the descriptor its state back before ...
SysopPostponed(t) ==
    /\ phase = "run" /\ tran[t].pc = "sys_post" /\ tran[t].pend = {}
    /\ Set(t, [tran[t] EXCEPT !.st = "ACTIVE", !.pc = "sys_end"])
    /\ UNCHANGED <<flushed, acked>> /\ TranUnchanged

\* ... log_sysop_commit_internal appends the end of the operation.
SysopAppendEnd(t) ==
    /\ phase = "run" /\ tran[t].pc = "sys_end"
    /\ Append1(t, SysopEnd("SYSOP_COMMIT", t),
               [SysopEnded(tran[t]) EXCEPT !.pc = "sys_final"])
    /\ UNCHANGED <<buf, flushed, acked>> /\ TranUnchanged

\* "Remember last partial result", restore the state and log_sysop_end_final.
SysopFinal(t) ==
    /\ phase = "run" /\ tran[t].pc = "sys_final"
    /\ Set(t, [tran[t] EXCEPT !.topres = tran[t].tail, !.st = "ACTIVE",
                              !.topops = <<>>, !.pc = "work"])
    /\ UNCHANGED <<flushed, acked>> /\ TranUnchanged

\* log_sysop_abort
SysopAbort(t) ==
    /\ Working(t) /\ InSysop(tran[t])
    /\ Set(t, IF Unchanged(tran[t]) THEN [tran[t] EXCEPT !.topops = <<>>]
              ELSE [tran[t] EXCEPT !.st = "ABORTED", !.pc = "sys_undo"])
    /\ UNCHANGED <<flushed, acked>> /\ TranUnchanged

\* Mutation of SysopRollback: the postpone cache is not reset.
SysopRollbackKeepsCache(t) ==
    LET d == tran[t]
        parent == Head(d.topops).parent
        i == ToUndo(d.undo, parent)
    IN /\ phase = "run" /\ d.pc = "sys_undo"
       /\ IF i > parent THEN Compensate(t, i, log[i].prev)
          ELSE /\ Append1(t, SysopEnd("SYSOP_ABORT", t),
                          [SysopEnded(d) EXCEPT !.pc = "sys_final"])
               /\ UNCHANGED buf
       /\ UNCHANGED <<flushed, acked>> /\ TranUnchanged

\* One record of log_rollback to the start of the system operation, or its end.
SysopRollback(t) ==
    LET d == tran[t]
        i == ToUndo(d.undo, Head(d.topops).parent)
    IN /\ phase = "run" /\ d.pc = "sys_undo"
       /\ \/ /\ i > Head(d.topops).parent
             /\ Compensate(t, i, log[i].prev)
          \/ /\ i <= Head(d.topops).parent
             /\ Append1(t, SysopEnd("SYSOP_ABORT", t),
                        [SysopEnded(d) EXCEPT !.cache = {}, !.pc = "sys_final"])
             /\ UNCHANGED buf
       /\ UNCHANGED <<flushed, acked>> /\ TranUnchanged

-----------------------------------------------------------------------------
(* The end of a transaction.  One without records writes none and is left out. *)

\* log_commit_local: the state is set, and then the postpones are prepared.
Commit(t) ==
    /\ Working(t) /\ ~InSysop(tran[t]) /\ tran[t].tail # Null
    /\ Set(t, [tran[t] EXCEPT !.st = "WILL_COMMIT", !.undo = Null,
                 !.pc = IF tran[t].posp = Null THEN "complete" ELSE "cwp"])
    /\ UNCHANGED <<flushed, acked>> /\ TranUnchanged

\* log_append_commit_postpone appends the record under the mutex ...
CommitWithPostpone(t) ==
    LET d == tran[t]
    IN /\ phase = "run" /\ d.pc = "cwp"
       /\ Append1(t, Rec("CWP", t, NoPage, d.posp, Null),
                  [Logged(Postponed(t, d, d.posp)) EXCEPT !.tposp = Lsa, !.pc = "cwp_state"])
       /\ UNCHANGED <<buf, flushed, acked>> /\ TranUnchanged

\* ... sets the state after it, and flushes the log.
CommitPostponeState(t) ==
    /\ phase = "run" /\ tran[t].pc = "cwp_state"
    /\ Set(t, [tran[t] EXCEPT !.st = "COMMITTED_WITH_POSTPONE", !.pc = "post"])
    /\ FlushedTo(tran[t].tposp)
    /\ UNCHANGED acked /\ TranUnchanged

\* One postpone of a committing transaction or system operation.
RunPostpone(t) ==
    /\ phase = "run" /\ tran[t].pc \in {"post", "sys_post"} /\ tran[t].pend # {}
    /\ RunNext(t)
    /\ UNCHANGED <<flushed, acked>> /\ TranUnchanged

\* log_append_commit_log sets commit_abort_lsa: the checkpoint skips t.
AppendCommit(t) ==
    /\ phase = "run"
    /\ tran[t].pc = "complete" \/ (tran[t].pc = "post" /\ tran[t].pend = {})
    /\ Append1(t, Rec("COMMIT", t, NoPage, Null, Null),
               [Logged(tran[t]) EXCEPT !.pc = "flush"])
    /\ UNCHANGED <<buf, flushed, acked>> /\ TranUnchanged

\* Mutation of Completed: the client is told before the log is flushed.
CompletedUnflushed(t) ==
    /\ phase = "run" /\ tran[t].pc = "flush"
    /\ acked' = acked \cup {t}
    /\ Set(t, Gone)
    /\ UNCHANGED flushed /\ TranUnchanged

\* log_change_tran_as_completed flushes the log; the client learns of it.
Completed(t) ==
    /\ phase = "run" /\ tran[t].pc = "flush"
    /\ FlushedTo(tran[t].tail)
    /\ acked' = acked \cup {t}
    /\ Set(t, Gone)
    /\ TranUnchanged

\* log_abort_local
Abort(t) ==
    /\ Working(t) /\ "abort" \in load.may[t] /\ ~InSysop(tran[t]) /\ tran[t].tail # Null
    /\ Set(t, [tran[t] EXCEPT !.st = "ABORTED", !.pc = "undo"])
    /\ UNCHANGED <<flushed, acked>> /\ TranUnchanged

\* One record of log_rollback, or the LOG_ABORT of log_complete.
Rollback(t) ==
    LET i == ToUndo(tran[t].undo, Null)
    IN /\ phase = "run" /\ tran[t].pc = "undo"
       /\ \/ i # Null /\ Compensate(t, i, log[i].prev)
          \/ i = Null /\ Append1(t, Rec("ABORT", t, NoPage, Null, Null), Gone)
                      /\ UNCHANGED buf
       /\ UNCHANGED <<flushed, acked>> /\ TranUnchanged

-----------------------------------------------------------------------------
(* Page flushes and the checkpoint. *)

\* pgbuf_bcb_flush_with_wal, by any flusher and in any phase.
FlushPage(p) ==
    /\ buf[p] # disk[p] /\ phase # "analysis"
    /\ ncrash < load.crashes
    /\ FlushedTo(PageLsa(buf[p]))
    /\ disk' = [disk EXCEPT ![p] = buf[p]]
    /\ UNCHANGED <<log, hdr, buf, tran, phase, chk, acked, load, nchk, ncrash>>

ChkUnchanged == UNCHANGED <<buf, tran, acked, load, ncrash>>

\* logpb_checkpoint: the log is flushed and LOG_START_CHKPT appended.
ChkptStart ==
    /\ chk.pc = "idle"
    /\ phase = "chkpt" \/ (phase = "run" /\ nchk < load.chkpts /\ ncrash < load.crashes)
    /\ FlushedTo(Len(log))
    /\ log' = Append(log, [type |-> "START_CHKPT", trid |-> Null])
    /\ chk' = [pc |-> "pages", start |-> Lsa]
    /\ nchk' = IF phase = "run" THEN nchk + 1 ELSE nchk
    /\ ChkUnchanged /\ UNCHANGED <<hdr, disk, phase>>

\* oldest_unflush_lsa of a dirty page
OldestUnflushed(p) == buf[p][Len(disk[p]) + 1]

\* pgbuf_flush_checkpoint: pages not dirtied before the start are left.
ChkptPages ==
    LET old == {p \in Pages : buf[p] # disk[p] /\ OldestUnflushed(p) <= chk.start}
    IN /\ chk.pc = "pages"
       /\ FlushedTo(Max({chk.start} \cup {PageLsa(buf[p]) : p \in old}))
       /\ disk' = [p \in Pages |-> IF p \in old THEN buf[p] ELSE disk[p]]
       /\ chk' = [chk EXCEPT !.pc = "table"]
       /\ ChkUnchanged /\ UNCHANGED <<log, hdr, phase, nchk>>

\* logpb_checkpoint_trans
Snapshot(d) == [st |-> d.st, tail |-> d.tail,
                undo |-> IF d.st = "ABORTED" THEN d.tail ELSE d.undo,
                posp |-> d.posp, topres |-> d.topres, tposp |-> d.tposp]

\* Mutation of Checkpointed: commit_abort_lsa is not looked at.
CheckpointedWithEnded == {t \in Trans : tran[t].st # "NONE" /\ tran[t].tail # Null}


Checkpointed == {t \in Trans : /\ tran[t].st # "NONE" /\ tran[t].tail # Null
                               /\ tran[t].pc # "flush"}

\* logpb_checkpoint_topops, called only when some descriptor's state says
\* that its system operation runs postpones.
Topops ==
    IF \E t \in Checkpointed : /\ InSysop(tran[t])
                               /\ tran[t].st = "TOPOPE_COMMITTED_WITH_POSTPONE"
    THEN {t \in Trans : tran[t].sposp # Null} ELSE {}

\* Both tables and LOG_END_CHKPT are written under prior_lsa_mutex.
ChkptTable ==
    /\ chk.pc = "table"
    /\ log' = Append(log, [type |-> "END_CHKPT", trid |-> Null,
                           trans |-> [t \in Checkpointed |-> Snapshot(tran[t])],
                           tops |-> [t \in Topops |-> tran[t].sposp]])
    /\ chk' = [chk EXCEPT !.pc = "header"]
    /\ ChkUnchanged /\ UNCHANGED <<hdr, disk, phase, flushed, nchk>>

\* The log is flushed, then the header that names the checkpoint.
ChkptHeader ==
    /\ chk.pc = "header"
    /\ FlushedTo(Len(log))
    /\ hdr' = chk.start
    /\ chk' = [pc |-> "idle", start |-> Null]
    /\ phase' = "run"
    /\ ChkUnchanged /\ UNCHANGED <<log, disk, nchk>>

\* The server stops; what was not certainly flushed may or may not be on disk.
Crash ==
    /\ ncrash < load.crashes /\ phase # "analysis"
    /\ \E n \in flushed .. Len(log) :
         log' = SubSeq(log, 1, n) /\ flushed' = n
    /\ buf' = disk
    /\ tran' = [t \in Trans |-> Gone]
    /\ chk' = [pc |-> "idle", start |-> Null]
    /\ phase' = "analysis" /\ ncrash' = ncrash + 1
    /\ UNCHANGED <<hdr, disk, acked, load, nchk>>

-----------------------------------------------------------------------------
(* Recovery: analysis.  Each case is one log_rv_analysis_... handler; d is the *)
(* descriptor of the record's transaction, i the record's LSA.                 *)

AnalyzeRunPostpone(d, r, i) ==
    LET st == CASE d.st \in {"WILL_COMMIT", "COMMITTED_WITH_POSTPONE",
                             "TOPOPE_COMMITTED_WITH_POSTPONE"} -> d.st
                [] InSysop(d) -> "TOPOPE_COMMITTED_WITH_POSTPONE"
                [] OTHER -> "COMMITTED_WITH_POSTPONE"
        d1 == [d EXCEPT !.st = st, !.tail = i,
                        !.undo = IF st = "COMMITTED_WITH_POSTPONE" THEN Null ELSE @]
    IN IF st = "TOPOPE_COMMITTED_WITH_POSTPONE"
       THEN [d1 EXCEPT !.topops[1].posp = r.ref]
       ELSE [d1 EXCEPT !.posp = r.ref]

AnalyzeSysopEnd(d, r, i) ==
    LET d1 == [d EXCEPT !.tail = i, !.topres = i,
                 !.undo = IF /\ r.type = "SYSOP_ABORT"
                             /\ d.st = "COMMITTED_WITH_POSTPONE" THEN Null ELSE i,
                 !.sposp = IF @ > r.nxt THEN Null ELSE @]
    IN IF d.st # "TOPOPE_COMMITTED_WITH_POSTPONE" THEN [d1 EXCEPT !.topops = <<>>]
       ELSE IF r.type = "SYSOP_ABORT" THEN d1
       ELSE [d1 EXCEPT !.topops = <<>>,
               !.st = IF d.tposp # Null THEN "COMMITTED_WITH_POSTPONE"
                      ELSE "UNILATERALLY_ABORTED"]

AnalyzeRecord(d, r, i) ==
    CASE r.type = "UNDOREDO" -> [d EXCEPT !.tail = i, !.undo = i]
      [] r.type = "DUMMY_HEAD" ->
           [d EXCEPT !.tail = i, !.undo = i, !.posp = IF @ = Null THEN i ELSE @]
      [] r.type = "POSTPONE" ->
           [d EXCEPT !.tail = i, !.undo = i, !.posp = IF @ = Null THEN d.tail ELSE @]
      [] r.type = "RUN_POSTPONE" -> AnalyzeRunPostpone(d, r, i)
      [] r.type = "COMPENSATE" -> [d EXCEPT !.undo = r.nxt]
      [] r.type = "CWP" ->
           [d EXCEPT !.st = "COMMITTED_WITH_POSTPONE", !.undo = Null, !.tail = i,
                     !.tposp = i, !.posp = r.ref]
      [] r.type = "SSP" ->
           [d EXCEPT !.st = "TOPOPE_COMMITTED_WITH_POSTPONE", !.tail = i, !.undo = i,
                     !.sposp = i, !.topops = <<[parent |-> r.nxt, posp |-> r.ref]>>]
      [] r.type \in {"SYSOP_COMMIT", "SYSOP_ABORT"} -> AnalyzeSysopEnd(d, r, i)
      [] r.type \in {"COMMIT", "ABORT"} -> Gone

\* log_rv_analysis_end_checkpoint
AnalyzeCheckpoint(tr, r) ==
    LET restored(s) == [RvFresh EXCEPT
            !.st = IF s.st \in {"ACTIVE", "ABORTED"} THEN @ ELSE s.st,
            !.tail = s.tail, !.undo = s.undo, !.posp = s.posp,
            !.topres = s.topres, !.tposp = s.tposp]
        base(t) == IF t \in DOMAIN r.trans THEN restored(r.trans[t]) ELSE tr[t]
        start(t) == log[r.tops[t]]
    IN [t \in Trans |->
          IF t \in DOMAIN r.tops
          THEN [base(t) EXCEPT !.sposp = r.tops[t],
                  !.topops = <<[parent |-> start(t).nxt, posp |-> start(t).ref]>>]
          ELSE base(t)]

RvUnchanged == UNCHANGED <<hdr, disk, chk, acked, load, nchk, ncrash>>

\* Analysis begins at the checkpoint the header names; only that checkpoint's
\* end record is used.  The records are folded from the first to the last.
AnalysisStart == IF hdr = Null THEN 1 ELSE hdr

Analysis ==
    LET ours(i) == hdr # Null /\ \A j \in hdr .. i - 1 : log[j].type # "END_CHKPT"
        step(tr, i) ==
            CASE log[i].type = "START_CHKPT" -> tr
              [] log[i].type = "END_CHKPT" ->
                   IF ours(i) THEN AnalyzeCheckpoint(tr, log[i]) ELSE tr
              [] OTHER -> [tr EXCEPT ![log[i].trid] =
                             AnalyzeRecord(IF @.st = "NONE" THEN RvFresh ELSE @, log[i], i)]
    IN /\ phase = "analysis"
       /\ tran' = MapThenFoldSet(LAMBDA i, tr : step(tr, i), tran, LAMBDA i : i, Max,
                                AnalysisStart .. Len(log))
       /\ phase' = "redo"
       /\ UNCHANGED <<log, buf, flushed>> /\ RvUnchanged

\* Redo: a record is applied only when its page is older.
HasRedo(r) == r.type \in {"UNDOREDO", "RUN_POSTPONE", "COMPENSATE"}

\* Mutation of ToRedo: the record the page already has is applied again.
ToRedoAgain == {i \in AnalysisStart .. Len(log) :
                  HasRedo(log[i]) /\ i >= PageLsa(buf[log[i].page])}

ToRedo == {i \in AnalysisStart .. Len(log) :
             HasRedo(log[i]) /\ i > PageLsa(buf[log[i].page])}

\* The LSAs, smallest first: the forward scan of log_recovery_redo.
InLogOrder(lsas) ==
    [k \in 1 .. Cardinality(lsas) |->
       CHOOSE i \in lsas : Cardinality({j \in lsas : j <= i}) = k]

\* log_recovery_redo.  A crash in the middle leaves what a crash at run time
\* with the same pages flushed leaves, so the scan is one step.
Redo ==
    /\ phase = "redo"
    /\ buf' = [p \in Pages |->
                 buf[p] \o InLogOrder({i \in ToRedo : log[i].page = p})]
    /\ phase' = "postpone"
    /\ UNCHANGED <<log, tran, flushed>> /\ RvUnchanged

-----------------------------------------------------------------------------
(* Recovery: log_recovery_finish_all_postpone, in the order of the indices. *)

Postponing == {t \in Trans : tran[t].st \in {"WILL_COMMIT", "COMMITTED_WITH_POSTPONE",
                                             "TOPOPE_COMMITTED_WITH_POSTPONE"}}

\* Mutation of Finishing: the loop over the indices starts one too late.
FinishingFromSecond(t, pc) ==
    phase = "postpone" /\ Postponing # {} /\ t = Min(Postponing) /\ t > 1 /\ tran[t].pc = pc

Finishing(t, pc) ==
    phase = "postpone" /\ Postponing # {} /\ t = Min(Postponing) /\ tran[t].pc = pc

InSysopPostpone(d) == d.st = "TOPOPE_COMMITTED_WITH_POSTPONE"

\* log_recovery_abort_interrupted_sysop: what was logged since the last run
\* postpone is closed as an aborted system operation.
FinishInterrupted(t) ==
    LET d == tran[t]
        start == IF InSysopPostpone(d) THEN d.sposp ELSE d.tposp
        walk[j \in 0 .. Len(log)] ==
            IF j <= start THEN start
            ELSE IF log[j].type = "RUN_POSTPONE" THEN j ELSE walk[UndoNext(j)]
        next == [d EXCEPT !.pc = "find"]
    IN /\ Finishing(t, "work")
       /\ IF d.st # "WILL_COMMIT" /\ d.undo > start /\ d.tail > walk[d.undo]
          THEN Append1(t, Rec("SYSOP_ABORT", t, NoPage, d.topres, walk[d.undo]),
                       [Logged(next) EXCEPT !.topres = Lsa]) /\ UNCHANGED buf
          ELSE Set(t, next)
       /\ UNCHANGED <<flushed, phase>> /\ RvUnchanged

\* Mutation of FirstPostpone: a run postpone ends the search.
FirstPostponeOnly(t, d, start) ==
    IF start = Null \/ \E i \in Scanned(t, d, start) :
                          log[i].type = "RUN_POSTPONE" /\ log[i].ref = start
    THEN Null ELSE start

\* Mutation of FirstPostpone: run postpones are not looked for.
FirstPostponeAlways(t, d, start) == start

\* log_recovery_find_first_postpone
FirstPostpone(t, d, start) ==
    LET seen == Scanned(t, d, start)
        others == {i \in seen \ {start} : log[i].type = "POSTPONE"}
    IN IF start = Null THEN Null
       ELSE IF \A i \in seen : ~(log[i].type = "RUN_POSTPONE" /\ log[i].ref = start)
       THEN start
       ELSE IF others = {} THEN Null ELSE Min(others)

FinishFind(t) ==
    LET d == tran[t]
        first == FirstPostpone(t, d, IF InSysopPostpone(d) THEN Head(d.topops).posp
                                     ELSE d.posp)
    IN /\ Finishing(t, "find")
       /\ Set(t, [d EXCEPT !.pc = "post",
                           !.undo = IF InSysopPostpone(d) THEN @ ELSE Null,
                           !.pend = IF first = Null THEN {} ELSE ToPostpone(t, d, first)])
       /\ UNCHANGED <<flushed, phase>> /\ RvUnchanged

FinishRun(t) ==
    /\ Finishing(t, "post") /\ tran[t].pend # {}
    /\ RunNext(t)
    /\ UNCHANGED <<flushed, phase>> /\ RvUnchanged

\* The system operation is ended and its transaction goes on being undone, or
\* the transaction is committed.
FinishEnd(t) ==
    LET d == tran[t]
    IN /\ Finishing(t, "post") /\ d.pend = {}
       /\ IF InSysopPostpone(d)
          THEN /\ Append1(t, SysopEnd("SYSOP_COMMIT", t),
                    [SysopEnded(d) EXCEPT !.topres = Lsa, !.topops = <<>>, !.pc = "work",
                       !.st = IF d.tposp # Null THEN "COMMITTED_WITH_POSTPONE"
                              ELSE "UNILATERALLY_ABORTED"])
               /\ UNCHANGED flushed
          ELSE Append1(t, Rec("COMMIT", t, NoPage, Null, Null), Gone) /\ FlushedTo(Lsa)
       /\ UNCHANGED <<buf, phase>> /\ RvUnchanged

\* At the end of log_recovery_redo the log and all pages are flushed.
FlushAll == /\ FlushedTo(Len(log)) /\ disk' = buf
            /\ UNCHANGED <<log, buf, hdr, chk, acked, load, nchk, ncrash>>

PostponesFinished ==
    /\ phase = "postpone" /\ Postponing = {}
    /\ phase' = "undo" /\ FlushAll /\ UNCHANGED tran

-----------------------------------------------------------------------------
(* Recovery: log_recovery_undo, always at the largest undo_nxlsa. *)

Undoing == {t \in Trans : tran[t].st # "NONE"}

\* A record that undo does not expect removes the transaction as aborted.
Undo(t) ==
    LET d == tran[t]
        i == d.undo
        type == IF i = Null THEN "none" ELSE log[i].type
        undone == {s \in Undoing : tran[s].undo = Null}
    IN /\ phase = "undo" /\ t \in Undoing
       /\ IF undone # {} THEN t = Min(undone) ELSE \A s \in Undoing : tran[s].undo <= i
       /\ \/ /\ type \in {"none", "RUN_POSTPONE", "CWP", "SSP"}
             /\ Append1(t, Rec("ABORT", t, NoPage, Null, Null), Gone) /\ UNCHANGED buf
          \/ /\ type = "UNDOREDO"
             /\ Compensate(t, i, log[i].prev)
          \/ /\ type \in {"COMPENSATE", "POSTPONE", "DUMMY_HEAD", "SYSOP_COMMIT", "SYSOP_ABORT"}
             /\ Set(t, [d EXCEPT !.undo = UndoNext(i)])
       /\ UNCHANGED <<flushed, phase>> /\ RvUnchanged

\* All is flushed and a checkpoint follows; clients whose transactions had
\* logged nothing may start them again.
UndoFinished ==
    /\ phase = "undo" /\ Undoing = {}
    /\ phase' = "chkpt" /\ FlushAll
    /\ tran' = [t \in Trans |-> IF \E i \in DOMAIN log : log[i].trid = t THEN Gone ELSE Fresh]

-----------------------------------------------------------------------------
RecoveryStep ==
    \/ Analysis \/ Redo \/ PostponesFinished \/ UndoFinished
    \/ \E t \in Trans : \/ FinishInterrupted(t) \/ FinishFind(t) \/ FinishRun(t)
                        \/ FinishEnd(t) \/ Undo(t)
    \/ phase = "chkpt" /\ (ChkptStart \/ ChkptPages \/ ChkptTable \/ ChkptHeader)

TranStep(t) ==
    \/ \E p \in load.pages : Update(t, p) \/ AppendPostpone(t, p)
    \/ SysopStart(t) \/ SysopCommit(t) \/ SysopPostponed(t) \/ SysopAppendEnd(t)
    \/ SysopFinal(t) \/ SysopAbort(t) \/ SysopRollback(t)
    \/ Commit(t) \/ CommitWithPostpone(t) \/ CommitPostponeState(t) \/ RunPostpone(t)
    \/ AppendCommit(t) \/ Completed(t) \/ Abort(t) \/ Rollback(t)

Next ==
    \/ \E t \in Trans : TranStep(t)
    \/ \E p \in Pages : FlushPage(p)
    \/ phase = "run" /\ (ChkptStart \/ ChkptPages \/ ChkptTable \/ ChkptHeader)
    \/ RecoveryStep
    \/ Crash

Spec == Init /\ [][Next]_vars /\ WF_vars(RecoveryStep)

-----------------------------------------------------------------------------
(* Properties. *)

\* The records of t of a given type.
Of(t, type) == {i \in DOMAIN log : log[i].trid = t /\ log[i].type = type}

Ended(t, type) == Of(t, type) # {}

\* Record i lies in a system operation of its transaction that ended with type.
InEnded(t, i, type) == \E e \in Of(t, type) : log[e].nxt < i /\ i < e

\* The page buffer holds, once redo is over, exactly the effects the log names,
\* in log order, and the disk holds a prefix of them: nothing that a crash can
\* take out of the log is on disk (write-ahead logging), and redo neither
\* repeats nor skips a change (log_rv_redo_record's test of the page LSA, the
\* redo start of a checkpoint).
PagesFollowLog ==
    \A p \in Pages :
        LET redo == InLogOrder({i \in DOMAIN log : HasRedo(log[i]) /\ log[i].page = p})
        IN /\ Len(disk[p]) <= Len(redo) /\ disk[p] = SubSeq(redo, 1, Len(disk[p]))
           /\ phase \notin {"analysis", "redo"} => buf[p] = redo

\* The checkpoints that saw t in one of the states.
Saw(t, states) == {i \in DOMAIN log : /\ log[i].type = "END_CHKPT" /\ t \in DOMAIN log[i].trans
                                      /\ log[i].trans[t].st \in states}

\* A checkpoint saw t between log_sysop_do_postpone, which gives it its state
\* back, and the end record of its system operation: undo will start at a run
\* postpone, which it does not expect.
Torn(t) == \E i \in Saw(t, {"ACTIVE"}) : log[log[i].trans[t].undo].type = "RUN_POSTPONE"

\* How often update i was compensated.
Undone(t, i) == Cardinality({c \in Of(t, "COMPENSATE") : log[c].ref = i})

\* A transaction that ended did so whole, whatever crashes and checkpoints came
\* in between: committed, it lost only what its aborted system operations did;
\* aborted, it kept only what its committed ones did (but for a torn one); and
\* no update is ever undone twice.
AllOrNothing ==
    \A t \in Trans : \A i \in Of(t, "UNDOREDO") :
        /\ Undone(t, i) <= 1
        /\ Ended(t, "COMMIT") => (Undone(t, i) = 1 <=> InEnded(t, i, "SYSOP_ABORT"))
        /\ Ended(t, "ABORT") /\ ~Torn(t) => (Undone(t, i) = 0 <=> InEnded(t, i, "SYSOP_COMMIT"))

\* A transaction whose commit was reported to the client has its LOG_COMMIT in
\* the part of the log that is certainly on disk.
AckedIsDurable == \A t \in acked : \E i \in Of(t, "COMMIT") : i <= flushed

\* Once a transaction's commit point is in the log nothing of it is undone and
\* it never ends as aborted, and a commit the client was told of survives
\* every crash.
CommitIsFinal ==
    /\ \A t \in Trans : \A i \in Of(t, "CWP") \cup Of(t, "COMMIT") :
         \A j \in Of(t, "COMPENSATE") \cup Of(t, "ABORT") : j < i
    /\ AckedIsDurable

\* The runs of postpone i of t.
Runs(t, i) == Cardinality({r \in Of(t, "RUN_POSTPONE") : log[r].ref = i})

SysopEnds(t) == Of(t, "SYSOP_COMMIT") \cup Of(t, "SYSOP_ABORT")

\* A checkpoint saw t between the end record of a system operation and "Remember
\* last partial result": later scans do not pass over that operation.
StaleTopresult(t) ==
    \E c \in DOMAIN log : /\ log[c].type = "END_CHKPT" /\ t \in DOMAIN log[c].trans
                          /\ \E e \in SysopEnds(t) : /\ log[c].trans[t].topres < e
                                                      /\ e <= log[c].trans[t].tail

\* A postponed action runs only on behalf of a system operation or transaction
\* whose decision to commit is in the log, and never for an aborted system
\* operation, also when the postpone cache still has it (but for a scan with a
\* stale tail_topresult_lsa).
PostponesWait ==
    \A t \in Trans : \A r \in Of(t, "RUN_POSTPONE") :
        /\ InEnded(t, log[r].ref, "SYSOP_ABORT") => StaleTopresult(t)
        /\ \E j \in Of(t, "CWP") \cup Of(t, "SSP") \cup Saw(t, {"WILL_COMMIT"}) :
              /\ log[r].ref < j /\ j < r
              /\ log[j].type = "SSP" => log[j].nxt < log[r].ref

\* Postpone i was the last record of t before a system operation: a scan of the
\* log that starts at i passes over it.
BeforeSysop(t, i) == \E e \in SysopEnds(t) : log[e].nxt = i

\* A committed transaction has run every action it postponed, but for those of
\* its aborted system operations.
EveryPostponeRuns ==
    \A t \in Trans : Ended(t, "COMMIT") =>
        \A i \in Of(t, "POSTPONE") : Runs(t, i) > 0 \/ InEnded(t, i, "SYSOP_ABORT")

\* The same but for the scans above that start or end at the wrong record.
PostponesComplete ==
    \A t \in Trans : Ended(t, "COMMIT") /\ ~StaleTopresult(t) =>
        \A i \in Of(t, "POSTPONE") :
            Runs(t, i) > 0 \/ InEnded(t, i, "SYSOP_ABORT") \/ BeforeSysop(t, i)

\* No postponed action runs twice, unless a checkpoint was taken while t was
\* running them: the checkpoint does not say which are done.
PostponesRunOnce ==
    \A t \in Trans :
        ~StaleTopresult(t) /\ (\A c \in Saw(t, {"COMMITTED_WITH_POSTPONE",
                                                 "TOPOPE_COMMITTED_WITH_POSTPONE"}) :
                                 \A r \in Of(t, "RUN_POSTPONE") : c < r) =>
            \A i \in Of(t, "POSTPONE") : Runs(t, i) <= 1

\* After analysis, which reads the log from the last checkpoint only, the
\* transactions in the table are those that have records and no end in the
\* whole log.
AnalysisFindsLosers ==
    phase = "redo" =>
        \A t \in Trans : tran[t].st # "NONE" <=>
            /\ \E i \in DOMAIN log : log[i].trid = t
            /\ ~Ended(t, "COMMIT") /\ ~Ended(t, "ABORT")

\* Recovery ends, also when crashes interrupt it and it starts over, and it
\* leaves no transaction in the log without its end.
RecoveryEnds ==
    phase = "redo" ~>
        /\ phase = "run"
        /\ \A i \in DOMAIN log : LET t == log[i].trid IN
              t \in Trans => Ended(t, "COMMIT") \/ Ended(t, "ABORT")
=============================================================================
