----------------------------- MODULE MCBuffers -----------------------------
(* Model checking of the small memory buffers: MCBuffers.cfg.              *)
EXTENDS Buffers
=============================================================================
