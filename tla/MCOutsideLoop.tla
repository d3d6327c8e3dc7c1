--------------------------- MODULE MCOutsideLoop ---------------------------
(***************************************************************************)
(* What runs outside the IO threads: packets are written and read          *)
(* (PktCodec), threads log (LogFile), the blocking client (BlockClient)    *)
(* makes its requests, and sockets are made by the accept loop of the main *)
(* thread and by Connect (Acceptor).  They share no state; a behaviour is  *)
(* of one of them and the others stay as they are.                         *)
(*                                                                         *)
(* Bytes of packets have two bits: integers of 2 to 16 bits at the edges of *)
(* their range, and strings that are empty or longer than the room left.   *)
(* Handles have three bits.                                                *)
(***************************************************************************)
EXTENDS PktCodec, LogFile, BlockClient, Acceptor

CONSTANTS t1, t2

NoByte == -1

AllInts == [w : {1, 2, 4, 8}, signed : BOOLEAN, text : {FALSE}]

SomeStrings == {<<>>, <<3, 0, 1>>}

\* Which of the four a behaviour is of.
VARIABLE part

MCInit ==
  /\ CodecInit /\ LogInit /\ ClientInit /\ AcceptInit
  /\ part \in {"codec", "log", "client", "accept"}

socketVars == <<vars, acceptVars>>

MCNext ==
  \/ part = "codec" /\ CodecNext /\ UNCHANGED <<logVars, clientVars, socketVars, part>>
  \/ part = "log" /\ LogNext /\ UNCHANGED <<codecVars, clientVars, socketVars, part>>
  \/ part = "client" /\ ClientNext /\ UNCHANGED <<codecVars, logVars, socketVars, part>>
  \/ part = "accept" /\ AcceptNext /\ UNCHANGED <<codecVars, logVars, clientVars, part>>

MCSpec == MCInit /\ [][MCNext]_<<codecVars, logVars, clientVars, socketVars, part>>
=============================================================================
