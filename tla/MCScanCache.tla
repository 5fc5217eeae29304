----------------------------- MODULE MCScanCache -----------------------------
(***************************************************************************)
(* Who scans what, for TLC: all processes the same root, or each its own.  *)
(***************************************************************************)
EXTENDS ScanCache

MCSharedRoot == [p \in Procs |-> CHOOSE r \in Roots : TRUE]

MCOwnRoots ==
    CHOOSE of \in [Procs -> Roots] : \A p, q \in Procs : p # q => of[p] # of[q]
==============================================================================
