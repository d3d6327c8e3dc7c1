---------------------------- MODULE MCThreadPool ----------------------------
(***************************************************************************)
(* Tasks of the application and one added by another task while it runs.   *)
(***************************************************************************)
EXTENDS ThreadPool

CONSTANTS k1, k2, k3

ParentOf == [k \in Tasks |-> IF k = k3 THEN k1 ELSE None]
=============================================================================
