---------------------------- MODULE MCPrintLock ----------------------------
(* Model checking of the print lock: MCPrintLock.cfg.                      *)
EXTENDS PrintLock
=============================================================================
