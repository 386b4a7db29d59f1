------------------------------ MODULE Console ------------------------------
(***************************************************************************)
(* The console (kernelcons.cpp): two ring buffers between the threads that *)
(* call putc and getc and two threads of the kernel that move characters   *)
(* to and from the device, six semaphores, and the interrupt of the device *)
(* (riscv.cpp).                                                            *)
(*                                                                         *)
(* A system call runs with interrupts off until it ends or blocks, so putc *)
(* and getc are one step, or two when they block.  The steps of the two    *)
(* threads of the kernel are cut at each of their system calls.  main()    *)
(* waits in flush with interrupts on, so each of its loads is a step.      *)
(***************************************************************************)
EXTENDS Queues, FiniteSets

CONSTANTS
  Users,              \* the threads that call putc and getc
  usermainThread,     \* the one of them whose end main() waits for
  putcThread, getcThread,
  Chars, NoChar,
  MAX_SIZE,           \* the size of both buffers
  FifoSize,           \* what the receiver of the device holds
  CharsOf,            \* the characters that each user puts
  Getters,            \* those of the users that call getc
  MaxChars,           \* bounds how many are put and typed together
  Text                \* what is typed

ASSUME ConsoleAssumption ==
  /\ putcThread # getcThread
  /\ {putcThread, getcThread} \cap Users = {}
  /\ usermainThread \in Users
  /\ NoChar \notin Chars
  /\ MAX_SIZE \in Nat \ {0}
  /\ FifoSize \in Nat \ {0}
  /\ CharsOf \in [Users -> SUBSET Chars]
  /\ Getters \subseteq Users
  /\ MaxChars \in Nat
  /\ Text \in Seq(Chars)

VARIABLES
  sem,                \* the six semaphores: value and queue
  pc,                 \* where each thread is
  arg,                \* the character that each user that is in put puts
  result,             \* what the last call gave to each user, if it was getc
  output_buff, outpHead, outpTail,
  input_buff, inpHead, inpTail,
  thr,                \* the transmitter: a character, or NoChar if ready
  fifo,               \* the receiver
  irq,                \* an interrupt of the device is pending
  shown,              \* the last character transmitted
  headSeen, tailSeen, \* what main() has loaded in this turn of flush
  undisturbed,        \* nothing was stored since the first of these loads,
                      \* and the buffer was not full then
  ended,              \* main() has disabled interrupts and runs to its end
  puts, typed         \* how many characters were put and typed so far

bufVars == <<output_buff, outpHead, outpTail, input_buff, inpHead, inpTail>>
devVars == <<thr, fifo, irq, shown, typed>>
mainVars == <<headSeen, tailSeen, ended>>
vars == <<sem, pc, arg, result, bufVars, devVars, mainVars, undisturbed, puts>>

Threads == Users \cup {putcThread, getcThread}
Sems == {"txFull", "txBuff", "rxBuff", "rxEmpty", "uartReceive", "uartTransmit"}

-----------------------------------------------------------------------------
(* A mistake: the value never goes below zero.                             *)
WaitedAtZero(f, t) ==
  [val   |-> IF f.val > 0 THEN f.val - 1 ELSE 0,
   queue |-> IF f.val - 1 < 0 THEN Append(f.queue, t) ELSE f.queue]

(* The semaphores: after a wait by t and after a signal.                   *)
Waited(f, t) ==
  [val   |-> f.val - 1,
   queue |-> IF f.val - 1 < 0 THEN Append(f.queue, t) ELSE f.queue]
Signalled(f) ==
  [val   |-> f.val + 1,
   queue |-> IF f.val < 0 THEN Tail(f.queue) ELSE f.queue]

(* A thread goes on unless a semaphore holds it, until main() ends: then   *)
(* interrupts are off and main() does not dispatch any more.               *)
Waits(t, s) == t \in Elements(sem[s].queue)
Runs(t)     == ~ended /\ \A s \in Sems : ~Waits(t, s)
At(t, label) == pc[t] = label /\ Runs(t)

(* A wait leads to the next label, where the thread is held if it blocks.  *)
WaitThen(t, s, label) ==
  /\ sem' = [sem EXCEPT ![s] = Waited(@, t)]
  /\ pc' = [pc EXCEPT ![t] = label]

Advanced(i) == (i + 1) % MAX_SIZE

-----------------------------------------------------------------------------
(* What the semaphores are after a character was stored in output_buff.    *)
(* A mistake: the signal of txFull is left out.                            *)
PutUnannounced(f) == f
PutAnnounced(f) == [f EXCEPT !["txFull"] = Signalled(@)]

(* A mistake: the character is stored at the head.                         *)
StoredAtHead(buffer, head, tail, c) == [buffer EXCEPT ![head] = c]
Stored(buffer, head, tail, c) == [buffer EXCEPT ![tail] = c]

(* KernelConsole::put, from where it has a free place in the buffer; f is  *)
(* what the semaphores are then.                                           *)
PutInto(f, t, c) ==
  /\ output_buff' = Stored(output_buff, outpHead, outpTail, c)
  /\ arg' = [arg EXCEPT ![t] = NoChar]
  /\ outpTail' = Advanced(outpTail)
  /\ sem' = PutAnnounced(f)
  /\ pc' = [pc EXCEPT ![t] = "user"]
  /\ result' = [result EXCEPT ![t] = NoChar]
  /\ undisturbed' = FALSE
  /\ UNCHANGED <<outpHead, input_buff, inpHead, inpTail>>

(* PUTC: KernelConsole::put, up to its end or to where it blocks.          *)
putc(t, c) ==
  /\ At(t, "user")
  /\ puts + typed < MaxChars
  /\ puts' = puts + 1
  /\ IF sem["txBuff"].val > 0
     THEN PutInto([sem EXCEPT !["txBuff"] = Waited(@, t)], t, c)
     ELSE /\ WaitThen(t, "txBuff", "put")
          /\ arg' = [arg EXCEPT ![t] = c]
          /\ result' = [result EXCEPT ![t] = NoChar]
          /\ UNCHANGED <<bufVars, undisturbed>>
  /\ UNCHANGED <<devVars, mainVars>>

putcResumed(t) ==
  /\ At(t, "put")
  /\ PutInto(sem, t, arg[t])
  /\ UNCHANGED <<devVars, mainVars, puts>>

(* KernelConsole::get, from where there is a character.                    *)
GetFrom(f, t) ==
  /\ result' = [result EXCEPT ![t] = input_buff[inpHead]]
  /\ inpHead' = Advanced(inpHead)
  /\ sem' = [f EXCEPT !["rxEmpty"] = Signalled(@)]
  /\ pc' = [pc EXCEPT ![t] = "user"]
  /\ UNCHANGED <<output_buff, outpHead, outpTail, input_buff, inpTail>>

getc(t) ==
  /\ At(t, "user")
  /\ IF sem["rxBuff"].val > 0
     THEN GetFrom([sem EXCEPT !["rxBuff"] = Waited(@, t)], t)
     ELSE /\ WaitThen(t, "rxBuff", "get")
          /\ result' = [result EXCEPT ![t] = NoChar]
          /\ UNCHANGED bufVars
  /\ UNCHANGED <<arg, devVars, mainVars, undisturbed, puts>>

getcResumed(t) ==
  /\ At(t, "get")
  /\ GetFrom(sem, t)
  /\ UNCHANGED <<arg, devVars, mainVars, undisturbed, puts>>

-----------------------------------------------------------------------------
(* KernelConsole::consoleput: waits for an interrupt, and then writes      *)
(* characters as long as the transmitter is ready.                         *)
WRITE_READY == thr = NoChar

consoleputWait ==
  /\ At(putcThread, "loop")
  /\ WaitThen(putcThread, "uartTransmit", "ready")
  /\ UNCHANGED <<arg, result, bufVars, devVars, mainVars, undisturbed, puts>>

consoleputReady ==
  /\ At(putcThread, "ready")
  /\ IF WRITE_READY
     THEN WaitThen(putcThread, "txFull", "write")
     ELSE pc' = [pc EXCEPT ![putcThread] = "loop"] /\ UNCHANGED sem
  /\ UNCHANGED <<arg, result, bufVars, devVars, mainVars, undisturbed, puts>>

consoleputWrite ==
  /\ At(putcThread, "write")
  /\ thr' = output_buff[outpHead]
  /\ outpHead' = Advanced(outpHead)
  /\ sem' = [sem EXCEPT !["txBuff"] = Signalled(@)]
  /\ pc' = [pc EXCEPT ![putcThread] = "ready"]
  /\ UNCHANGED <<arg, result, output_buff, outpTail, input_buff, inpHead, inpTail,
                 fifo, irq, shown, puts, typed, mainVars, undisturbed>>

(* KernelConsole::consoleget: for each interrupt, one character if there   *)
(* is one.                                                                 *)
READ_READY == fifo # <<>>

consolegetWait ==
  /\ At(getcThread, "loop")
  /\ WaitThen(getcThread, "uartReceive", "ready")
  /\ UNCHANGED <<arg, result, bufVars, devVars, mainVars, undisturbed, puts>>

consolegetReady ==
  /\ At(getcThread, "ready")
  /\ IF READ_READY
     THEN WaitThen(getcThread, "rxEmpty", "read")
     ELSE pc' = [pc EXCEPT ![getcThread] = "loop"] /\ UNCHANGED sem
  /\ UNCHANGED <<arg, result, bufVars, devVars, mainVars, undisturbed, puts>>

consolegetRead ==
  /\ At(getcThread, "read")
  /\ input_buff' = Stored(input_buff, inpHead, inpTail, Head(fifo))
  /\ inpTail' = Advanced(inpTail)
  /\ sem' = [sem EXCEPT !["rxBuff"] = Signalled(@)]
  /\ pc' = [pc EXCEPT ![getcThread] = "loop"]
  /\ fifo' = Tail(fifo)
  /\ irq' = (irq \/ Tail(fifo) # <<>>)
  /\ UNCHANGED <<arg, result, output_buff, outpHead, outpTail, inpHead, thr, shown, puts, typed,
                 mainVars, undisturbed>>

-----------------------------------------------------------------------------
(* The external interrupt: both threads are told, whichever it is for.     *)
(* A mistake: only the one that transmits is told.                         *)
ToldTransmitter == [sem EXCEPT !["uartTransmit"] = Signalled(@)]
ToldBoth == [sem EXCEPT !["uartReceive"] = Signalled(@), !["uartTransmit"] = Signalled(@)]
consoleInterrupt ==
  /\ irq /\ ~ended
  /\ irq' = FALSE
  /\ sem' = ToldBoth
  /\ UNCHANGED <<pc, arg, result, bufVars, thr, fifo, shown, puts, typed, mainVars, undisturbed>>

(* The device interrupts when its transmitter gets ready, when a character *)
(* arrives and when more is there after a read; several of these may make  *)
(* one interrupt.                                                          *)
transmit ==
  /\ thr # NoChar /\ ~ended
  /\ shown' = thr
  /\ thr' = NoChar
  /\ irq' = TRUE
  /\ UNCHANGED <<sem, pc, arg, result, bufVars, fifo, puts, typed, mainVars, undisturbed>>

receive ==
  /\ typed < Len(Text) /\ puts + typed < MaxChars /\ ~ended
  /\ Len(fifo) < FifoSize
  /\ typed' = typed + 1
  /\ fifo' = Append(fifo, Text[typed + 1])
  /\ irq' = TRUE
  /\ UNCHANGED <<sem, pc, arg, result, bufVars, thr, shown, puts, mainVars, undisturbed>>

InState(t, label) == IF pc[t] = label THEN 1 ELSE 0
In(label) == Cardinality({t \in Users : pc[t] = label})

(* How many characters each buffer holds, told from what its consumers     *)
(* wait on.                                                                *)
OutCount == sem["txFull"].val + InState(putcThread, "write")
InCount  == sem["rxBuff"].val + In("get")

-----------------------------------------------------------------------------
(* The end of usermainThread.  main() dispatches until then.               *)
exit ==
  /\ At(usermainThread, "user")
  /\ pc' = [pc EXCEPT ![usermainThread] = "finished"]
  /\ UNCHANGED <<sem, arg, result, bufVars, devVars, mainVars, undisturbed, puts>>

(* KernelConsole::flush, with the interrupts on: in each turn main() loads *)
(* both positions, in the order that the compiler chose, and compares      *)
(* them.  Any other thread may run between two of its steps.               *)
InFlush == pc[usermainThread] = "finished" /\ ~ended
Unread  == -1
Loaded  == headSeen # Unread /\ tailSeen # Unread

(* A mistake: main() does not wait.                                        *)
NothingToFlush == Loaded
(* What flush waits for: the positions that it has loaded are equal.       *)
Flushed == Loaded /\ headSeen = tailSeen

flushLoad ==
  /\ InFlush
  /\ \/ headSeen = Unread /\ headSeen' = outpHead /\ UNCHANGED tailSeen
     \/ tailSeen = Unread /\ tailSeen' = outpTail /\ UNCHANGED headSeen
  /\ undisturbed' = IF headSeen = Unread /\ tailSeen = Unread
                      THEN OutCount # MAX_SIZE ELSE undisturbed
  /\ UNCHANGED <<sem, pc, arg, result, bufVars, devVars, ended, puts>>

flushAgain ==
  /\ InFlush /\ Loaded /\ ~Flushed
  /\ headSeen' = Unread /\ tailSeen' = Unread
  /\ undisturbed' = FALSE
  /\ UNCHANGED <<sem, pc, arg, result, bufVars, devVars, ended, puts>>

(* Behind flush, main() disables interrupts and ends.                      *)
mc_sstatus ==
  /\ InFlush /\ Flushed
  /\ ended' = TRUE
  /\ headSeen' = Unread /\ tailSeen' = Unread
  /\ UNCHANGED <<sem, pc, arg, result, bufVars, devVars, undisturbed, puts>>

-----------------------------------------------------------------------------
(* The constructor.  The device starts with its transmitter ready and that *)
(* interrupt pending.                                                      *)
Init ==
  /\ sem = [s \in Sems |-> [val   |-> IF s \in {"txBuff", "rxEmpty"} THEN MAX_SIZE ELSE 0,
                            queue |-> <<>>]]
  /\ pc = [t \in Threads |-> IF t \in Users THEN "user" ELSE "loop"]
  /\ arg = [t \in Users |-> NoChar]
  /\ result = [t \in Users |-> NoChar]
  /\ output_buff = [i \in 0 .. MAX_SIZE - 1 |-> NoChar]
  /\ input_buff = [i \in 0 .. MAX_SIZE - 1 |-> NoChar]
  /\ outpHead = 0 /\ outpTail = 0
  /\ inpHead = 0 /\ inpTail = 0
  /\ thr = NoChar
  /\ fifo = <<>>
  /\ irq = TRUE
  /\ shown = NoChar
  /\ puts = 0
  /\ typed = 0
  /\ headSeen = Unread /\ tailSeen = Unread
  /\ undisturbed = FALSE
  /\ ended = FALSE

Next ==
  \/ \E t \in Users :
       \/ \E c \in CharsOf[t] : putc(t, c)
       \/ putcResumed(t)
       \/ t \in Getters /\ getc(t)
       \/ getcResumed(t)
  \/ consoleputWait \/ consoleputReady \/ consoleputWrite
  \/ consolegetWait \/ consolegetReady \/ consolegetRead
  \/ consoleInterrupt
  \/ transmit
  \/ receive
  \/ exit \/ flushLoad \/ flushAgain \/ mc_sstatus

Spec == Init /\ [][Next]_vars

(* A thread that can go on does: the scheduler is a queue, the timer       *)
(* preempts, and an interrupt is taken when a thread of a user runs.  The  *)
(* device transmits what it has.  Nothing makes a user call or type.       *)
Fairness ==
  /\ \A t \in Users : WF_vars(putcResumed(t)) /\ WF_vars(getcResumed(t))
  /\ WF_vars(consoleputWait) /\ WF_vars(consoleputReady) /\ WF_vars(consoleputWrite)
  /\ WF_vars(consolegetWait) /\ WF_vars(consolegetReady) /\ WF_vars(consolegetRead)
  /\ WF_vars(consoleInterrupt)
  /\ WF_vars(transmit)

FairSpec == Spec /\ Fairness

-----------------------------------------------------------------------------
(* The type of the state.                                                  *)
TypeOK ==
  /\ sem \in [Sems -> [val : Int, queue : Seq(Threads)]]
  /\ pc \in [Threads -> {"user", "put", "get", "loop", "ready", "write", "read", "finished"}]
  /\ arg \in [Users -> Chars \cup {NoChar}]
  /\ result \in [Users -> Chars \cup {NoChar}]
  /\ output_buff \in [0 .. MAX_SIZE - 1 -> Chars \cup {NoChar}]
  /\ input_buff \in [0 .. MAX_SIZE - 1 -> Chars \cup {NoChar}]
  /\ {outpHead, outpTail, inpHead, inpTail} \subseteq 0 .. MAX_SIZE - 1
  /\ thr \in Chars \cup {NoChar} /\ shown \in Chars \cup {NoChar}
  /\ fifo \in Seq(Chars) /\ Len(fifo) <= FifoSize
  /\ irq \in BOOLEAN
  /\ {headSeen, tailSeen} \subseteq {Unread} \cup 0 .. MAX_SIZE - 1
  /\ undisturbed \in BOOLEAN /\ ended \in BOOLEAN
  /\ puts \in 0 .. MaxChars /\ typed \in 0 .. Len(Text)

(* The semaphores of free and of filled places agree with each other and   *)
(* with the positions, whoever is between its wait and its signal          *)
(* (kernelcons.cpp:41-76, 98-103): a full buffer is never written and an   *)
(* empty one never read, although neither is told by head and tail.        *)
BuffersAgree ==
  /\ TypeOK
  /\ OutCount \in 0 .. MAX_SIZE
  /\ OutCount = MAX_SIZE - sem["txBuff"].val - In("put")
  /\ (outpTail - outpHead) % MAX_SIZE = OutCount % MAX_SIZE
  /\ InCount \in 0 .. MAX_SIZE
  /\ InCount = MAX_SIZE - sem["rxEmpty"].val - InState(getcThread, "read")
  /\ (inpTail - inpHead) % MAX_SIZE = InCount % MAX_SIZE

(* What the kernel holds of the output and of the input, oldest first.     *)
Content(buffer, head, n) == [i \in 1 .. n |-> buffer[(head + i - 1) % MAX_SIZE]]
Outgoing == (IF thr = NoChar THEN <<>> ELSE <<thr>>) \o Content(output_buff, outpHead, OutCount)
Incoming == Content(input_buff, inpHead, InCount) \o fifo

(* putc and getc are a terminal (Terminal): whatever the threads, the two  *)
(* threads of the kernel and the device do in between, no character is     *)
(* lost, doubled or overtaken.                                             *)
InCall(t) == CASE pc[t] = "put" -> <<"put", arg[t]>>
               [] pc[t] = "get" -> <<"get">>
               [] OTHER         -> <<"none">>
Term == INSTANCE Terminal WITH call <- [t \in Users |-> InCall(t)], got <- result,
                               outQ <- Outgoing, inQ <- Incoming
ImplementsTerminal == Term!TerminalSpec

(* When main() ends, everything that was put has left the buffer, unless a *)
(* program stored a character after main() had begun to compare the        *)
(* positions for the last time, or the buffer was full then, which flush   *)
(* takes for empty (kernelcons.cpp:89-92, main.cpp:70-74): the console     *)
(* thread, which moves the head between the two loads, never deceives it.  *)
EndsFlushed == ended /\ undisturbed => OutCount = 0

(* Everything that was put is shown, and whoever waits in putc for a free  *)
(* place gets one, with nobody calling anything more, unless main() ends:  *)
(* no interrupt of the transmitter is lost between the test of WRITE_READY *)
(* and the wait for uartTransmit (kernelcons.cpp:69-77).                   *)
OutputDrains ==
  (Outgoing # <<>> \/ In("put") > 0) ~> (ended \/ (Outgoing = <<>> /\ In("put") = 0))

(* While there is a character, a thread that is in getc does not wait for  *)
(* another one to be typed, although one interrupt may stand for several   *)
(* characters and consoleget takes one for each (kernelcons.cpp:99).       *)
InputDelivered ==
  (Incoming # <<>> /\ In("get") > 0) ~> (ended \/ Incoming = <<>> \/ In("get") = 0)
=============================================================================
