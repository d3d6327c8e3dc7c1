------------------------------ MODULE MCTimers ------------------------------
(***************************************************************************)
(* Two callbacks and four nodes: each can be removed and added again, in   *)
(* front of and behind the iterator.                                       *)
(***************************************************************************)
EXTENDS Timers

CONSTANTS k1, k2
=============================================================================
