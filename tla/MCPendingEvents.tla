-------------------------- MODULE MCPendingEvents --------------------------
(***************************************************************************)
(* Two posting threads and the IO thread.  c1 is made by Connect and must  *)
(* be confirmed, c2 is accepted.  t1 sends two packets to c1, the IO       *)
(* thread itself one; t1 and t2 may ask for the close of either.           *)
(***************************************************************************)
EXTENDS PendingEvents

CONSTANTS c1, c2, t1, t2, p1, p2, p3

Sender   == (p1 :> t1) @@ (p2 :> t1) @@ (p3 :> LoopThread)
Receiver == [p \in Packets |-> c1]
=============================================================================
