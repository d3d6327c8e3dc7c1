--------------------------- MODULE MCConnTimeout ---------------------------
(***************************************************************************)
(* c1's peer sends in time, c2's may stop.  The numbers keep the order of  *)
(* those of base_conn.h and event_loop.h - heartbeats half the timeout or  *)
(* less, timer and epoll_wait of the same size - and leave no slack: the   *)
(* timeout is the heartbeat interval and the longest pass.                 *)
(***************************************************************************)
EXTENDS ConnTimeout

CONSTANTS c1, c2
=============================================================================
