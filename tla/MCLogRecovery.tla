---------------------------- MODULE MCLogRecovery ----------------------------
(***************************************************************************)
(* Two transactions, the page p1 and for one workload also p2, a postpone   *)
(* cache of three entries: two postpones are found in the cache, three in   *)
(* the log.                                                                 *)
(***************************************************************************)
EXTENDS LogRecovery

CONSTANTS p1, p2

Workload(pages, m1, n1, m2, n2, chkpts, crashes) ==
    [pages |-> pages, may |-> <<m1, m2>>, ops |-> <<n1, n2>>,
     chkpts |-> chkpts, crashes |-> crashes]

\* One transaction against a checkpoint and a crash, or two crashes; two
\* transactions; two pages.
MCWorkloads ==
    {Workload({p1}, {"update", "postpone", "sysop"}, 2, {}, 0, 0, 1),
     Workload({p1}, {"update", "postpone"}, 2, {}, 0, 1, 1),
     Workload({p1}, {"update", "sysop"}, 1, {}, 0, 1, 1),
     Workload({p1}, {"postpone", "sysop"}, 1, {}, 0, 1, 1),
     Workload({p1}, {"update", "abort", "sysop"}, 2, {}, 0, 0, 2),
     Workload({p1}, {"postpone"}, 1, {}, 0, 1, 2),
     Workload({p1}, {"postpone", "sysop"}, 2, {}, 0, 0, 2),
     Workload({p1}, {"postpone", "sysop"}, 3, {}, 0, 0, 1),
     Workload({p1}, {"update", "abort"}, 2, {}, 0, 1, 2),
     Workload({p1}, {"update"}, 1, {"update"}, 1, 1, 1),
     Workload({p1}, {"update", "postpone"}, 1, {"update", "abort"}, 1, 0, 2),
     Workload({p1, p2}, {"update"}, 2, {}, 0, 1, 1)}

\* No crash: what a transaction does by itself.
PostponeWorkloads == {Workload({p1}, {"postpone", "sysop"}, 2, {}, 0, 0, 0)}
=============================================================================
