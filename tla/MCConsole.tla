------------------------------ MODULE MCConsole ------------------------------
(***************************************************************************)
(* The console with two users and buffers of two characters, so that three *)
(* characters fill a buffer and wrap around its end: three are put, or     *)
(* typed, or some of both.                                                 *)
(***************************************************************************)
EXTENDS Console, TLC

CONSTANTS u1, u2, pt, gt, a, b

MCUsers == {u1, u2}
MCChars == {a, b}
MCCharsOf == (u1 :> {a}) @@ (u2 :> {b})

MCGetters == {u1}
MCText == <<a, b, a>>
=============================================================================
