------------------------------- MODULE MCTraps -------------------------------
(***************************************************************************)
(* The console threads, idle, the first program and one that it creates:   *)
(* any thread may be first switched to from any trap of any other one.     *)
(***************************************************************************)
EXTENDS Traps

CONSTANT u1

MCOthers == {u1}
=============================================================================
