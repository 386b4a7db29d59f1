------------------------------ MODULE MCBuddy ------------------------------
(* Model checking of the buddy allocator: MCBuddy.cfg.                     *)
EXTENDS Buddy
=============================================================================
