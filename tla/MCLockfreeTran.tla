--------------------------- MODULE MCLockfreeTran ---------------------------
(* Instance of LockfreeTran for TLC.                                       *)
EXTENDS LockfreeTran, TLC

(* The nodes are interchangeable; the threads are not, the scan reads them *)
(* in index order.                                                         *)
NodeSymmetry == Permutations(Nodes)
=============================================================================
