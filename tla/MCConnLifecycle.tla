-------------------------- MODULE MCConnLifecycle --------------------------
(***************************************************************************)
(* Two connections of one IO thread: c1 is made by Connect, c2 is accepted *)
(* from a listener.  The configurations differ in the thread that makes    *)
(* them and in whether a handler of one closes the other.                  *)
(***************************************************************************)
EXTENDS ConnLifecycle

CONSTANTS c1, c2
=============================================================================
