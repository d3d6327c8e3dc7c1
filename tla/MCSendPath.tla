----------------------------- MODULE MCSendPath -----------------------------
(***************************************************************************)
(* Bytes are numbers; Junk is none of them.                                *)
(***************************************************************************)
EXTENDS SendPath

NoByte == 0
=============================================================================
