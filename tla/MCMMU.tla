------------------------------- MODULE MCMMU --------------------------------
(***************************************************************************)
(* Tables of two entries.  Of the eight pages four are touched: two of the *)
(* same last table, one of its neighbour and one of another middle table,  *)
(* so that six tables are in use at most.                                  *)
(***************************************************************************)
EXTENDS MMU

CONSTANTS pg1, pg2, pg3, pg4, pg5, pg6, pg7

MCTables == {pg1, pg2, pg3, pg4, pg5, pg6, pg7}
=============================================================================
