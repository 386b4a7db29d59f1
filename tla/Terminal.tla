------------------------------ MODULE Terminal ------------------------------
(***************************************************************************)
(* What putc and getc promise: a terminal.  The characters that threads    *)
(* put come out in the order in which they were accepted, each once; those *)
(* that are typed are handed to getc in the order in which they arrived,   *)
(* each to one thread.                                                     *)
(***************************************************************************)
EXTENDS Sequences

CONSTANTS
  Users,       \* the threads that put and get
  Chars,
  NoChar       \* not a character

VARIABLES
  call,        \* what each thread is in: <<"put", c>>, <<"get">> or <<"none">>
  got,         \* what the last call of each thread gave, if it was getc
  outQ,        \* accepted and not yet shown
  shown,       \* the last character shown
  inQ          \* typed and not yet handed out

terminalVars == <<call, got, outQ, shown, inQ>>

None == <<"none">>

TerminalInit ==
  /\ call = [t \in Users |-> None]
  /\ got = [t \in Users |-> NoChar]
  /\ outQ = <<>>
  /\ shown = NoChar
  /\ inQ = <<>>

Call(t) ==
  /\ call[t] = None
  /\ \E c \in {<<"get">>} \cup {<<"put", d>> : d \in Chars} : call' = [call EXCEPT ![t] = c]
  /\ got' = [got EXCEPT ![t] = NoChar]
  /\ UNCHANGED <<outQ, shown, inQ>>

(* A thread whose call is accepted goes on; it may be accepted at once.    *)
Accept(t) ==
  \E c \in Chars :
    /\ call[t] \in {None, <<"put", c>>}
    /\ outQ' = Append(outQ, c)
    /\ call' = [call EXCEPT ![t] = None]
    /\ got' = [got EXCEPT ![t] = NoChar]
    /\ UNCHANGED <<shown, inQ>>

HandOut(t) ==
  /\ call[t] \in {None, <<"get">>}
  /\ inQ # <<>>
  /\ got' = [got EXCEPT ![t] = Head(inQ)]
  /\ inQ' = Tail(inQ)
  /\ call' = [call EXCEPT ![t] = None]
  /\ UNCHANGED <<outQ, shown>>

Show ==
  /\ outQ # <<>>
  /\ shown' = Head(outQ)
  /\ outQ' = Tail(outQ)
  /\ UNCHANGED <<call, got, inQ>>

Type ==
  /\ \E c \in Chars : inQ' = Append(inQ, c)
  /\ UNCHANGED <<call, got, outQ, shown>>

TerminalNext ==
  \/ \E t \in Users : Call(t) \/ Accept(t) \/ HandOut(t)
  \/ Show
  \/ Type

TerminalSpec == TerminalInit /\ [][TerminalNext]_terminalVars
=============================================================================
