-------------------------------- MODULE Traps --------------------------------
(***************************************************************************)
(* The traps of the one processor (strap.S, riscv.cpp, contextSwitch.S and *)
(* wrapper in tcb.cpp): where a thread is when a trap takes it, what the   *)
(* processor and the handler keep of that, and where sret leads.           *)
(*                                                                         *)
(* A trap overwrites sepc and three bits of sstatus, and traps nest: the   *)
(* handlers of PUTC and THREAD_DESTROY make system calls themselves, that  *)
(* of MEM_FREE, from one of them too, touches pages that are not mapped,   *)
(* and a handler that switches to another thread lets that one trap before *)
(* it goes on.  An address is the piece of code and a place in it; a       *)
(* program is a loop of two places, before and behind what may trap, and   *)
(* the places of a handler are those before and behind what may trap or    *)
(* switch.  What the handlers do besides is in the other modules.          *)
(***************************************************************************)
EXTENDS Integers, FiniteSets, Sequences, SequencesExt

CONSTANTS
  main, putcThread, getcThread, idleThread, usermainThread,
  Others              \* the threads that programs may create

ASSUME TrapsAssumption ==
  /\ main \notin {putcThread, getcThread, idleThread, usermainThread}
  /\ putcThread \notin {getcThread, idleThread, usermainThread}
  /\ getcThread \notin {idleThread, usermainThread}
  /\ idleThread # usermainThread
  /\ Others \cap {main, putcThread, getcThread, idleThread, usermainThread} = {}
  /\ IsFiniteSet(Others)

Kernel  == {main, putcThread, getcThread}
Programs == {usermainThread} \cup Others
Threads == Kernel \cup {idleThread} \cup Programs

VARIABLES
  running, ready,
  blocked, finished,  \* the threads that wait, and those that are at their end
  stale,              \* those that a closing readied, with blocked still set
  free,               \* the control blocks that are in no use
  where,              \* the address at which each thread goes on
  frames,             \* its stack: the traps that it has not returned from
  mode, sie,          \* the processor: "U" or "S", and sstatus.SIE
  sepc, spp, spie,    \* what it keeps of the mode, SIE and address of a trap
  mainAt              \* main() waits for usermain, waits in flush, or ends

cpu  == <<mode, sie, sepc, spp, spie>>
vars == <<running, ready, blocked, finished, stale, free, where, frames, cpu, mainAt>>

Privilege(t) == IF t \in Kernel THEN "S" ELSE "U"

(* The system calls, those that trap and switch alike as one: "wait" is    *)
(* TIME_SLEEP, "putc" GETC, "close" SEM_DESTROY, and "memory" SEM_OPEN as  *)
(* well.                                                                   *)
Calls  == {"dispatch", "wait", "signal", "close", "create", "destroy", "memory", "putc", "exit"}
Prints == {"putc", "violation", "unknown"}

Program == [code |-> "program", n |-> 0]
Wrapper == [code |-> "wrapper", n |-> 0]
After(a) == [a EXCEPT !.n = @ + 1]

-----------------------------------------------------------------------------
(* Which handlers keep sepc and sstatus in locals.                         *)
Saves(cause) == cause \notin {"pageFault", "violation", "unknown"}

(* A mistake: an interrupt, too, skips an instruction.                     *)
SavedBehind(cause) ==
  IF ~Saves(cause) THEN {}
  ELSE {[sepc |-> After(where[running]), spp |-> mode, spie |-> sie]}
(* The locals, read first thing in the handler; a system call is not to be *)
(* made again.                                                             *)
Saved(cause) ==
  IF ~Saves(cause) THEN {}
  ELSE {[sepc |-> IF cause \in Calls THEN After(where[running]) ELSE where[running],
         spp |-> mode, spie |-> sie]}

(* A trap: the processor disables interrupts, and the registers go to the  *)
(* stack of the thread.  "from" is kept for the properties only.           *)
Trap(cause) ==
  /\ sepc' = where[running] /\ spp' = mode /\ spie' = sie
  /\ mode' = "S" /\ sie' = FALSE
  /\ frames' = [frames EXCEPT ![running] = Append(@,
       [cause |-> cause, saved |-> Saved(cause),
        from |-> [at |-> where[running], mode |-> mode, sie |-> sie]])]
  /\ where' = [where EXCEPT ![running] = [code |-> cause, n |-> 0]]
  /\ UNCHANGED <<running, ready, blocked, finished, stale, free, mainAt>>

Registers == [sepc |-> sepc, spp |-> spp, spie |-> spie]

(* A mistake: sstatus is written with SPIE as the last sret left it.       *)
RestoredEnabled(f) ==
  IF f.saved = {} THEN Registers ELSE [(CHOOSE s \in f.saved : TRUE) EXCEPT !.spie = TRUE]
(* What is in the registers when the handler of a trap is done.            *)
Restored(f) ==
  IF f.saved = {} THEN Registers ELSE CHOOSE s \in f.saved : TRUE

(* sret, to a thread that goes on at from, with the others as they are in  *)
(* others.                                                                 *)
Sret(from, others) ==
  /\ mode' = from.spp /\ sie' = from.spie
  /\ sepc' = from.sepc /\ spp' = "U" /\ spie' = TRUE
  /\ where' = [others EXCEPT ![running] = from.sepc]

(* The end of a trap, whose handler has left the others where and with     *)
(* which stacks.                                                           *)
ReturnWith(others, stacks) ==
  /\ Sret(Restored(Last(frames[running])), others)
  /\ frames' = [stacks EXCEPT ![running] = Front(frames[running])]
  /\ UNCHANGED <<running, mainAt>>
Return == ReturnWith(where, frames)

(* contextSwitch: the stack and the place in it are the thread's, the      *)
(* other registers of the processor stay as they are.                      *)
Switch(q) ==
  /\ running' = Head(q)
  /\ ready' = Tail(q)
  /\ where' = [where EXCEPT ![running] = After(@)]
  /\ UNCHANGED <<free, frames, cpu, mainAt>>

(* The running thread is in the handler of that cause, at that place.      *)
Handles(cause, n) ==
  /\ frames[running] # <<>> /\ Last(frames[running]).cause = cause
  /\ where[running] = [code |-> cause, n |-> n]

-----------------------------------------------------------------------------
(* Where traps come from.  A program of a user makes any call, touches     *)
(* pages that are not mapped yet or not its own, and may do what no        *)
(* handler knows; idle only dispatches, and so does main() until usermain  *)
(* has finished, and closes the semaphores of the console and frees        *)
(* stacks at its end; the console threads wait and signal.                 *)
CallsOf(t) ==
  CASE t = main /\ mainAt = "dispatch"  -> {"dispatch"}
    [] t = main /\ mainAt = "flush"     -> {}
    [] t = main /\ mainAt = "end"       -> {"close", "memory"}
    [] t = idleThread                   -> {"dispatch"}
    [] t \in {putcThread, getcThread}   -> {"wait", "signal"}
    [] OTHER                            -> Calls

ecall ==
  /\ where[running] = Program
  /\ running = main /\ mainAt = "dispatch" => usermainThread \notin finished
  /\ \E cause \in CallsOf(running) : Trap(cause)

fault ==
  /\ where[running] = Program
  /\ running \in Programs
  /\ \E cause \in {"pageFault", "violation", "unknown"} : Trap(cause)

(* A handler that prints waits for room in the console and then signals;   *)
(* THREAD_DESTROY runs tcbDtor, which frees the stack and, of the first    *)
(* program, the argument, where there are such.                            *)
nestedCall ==
  \/ \E cause \in Prints :
       \/ Handles(cause, 0) /\ Trap("wait")
       \/ Handles(cause, 1) /\ Trap("signal")
  \/ (Handles("destroy", 0) \/ Handles("destroy", 1)) /\ Trap("memory")

(* The kernel touches memory of the program that is not mapped: the header *)
(* of a block, or where a handle goes.  At the end of main() paging is     *)
(* off.                                                                    *)
kernelFault ==
  /\ Handles("memory", 0) \/ Handles("create", 0)
  /\ mainAt # "end"
  /\ Trap("pageFault")

interrupt ==
  /\ mode = "U" \/ sie
  /\ \E cause \in {"timer", "external"} : Trap(cause)

(* Behind the call a program goes on to the next one.                      *)
proceed ==
  /\ where[running] = After(Program)
  /\ where' = [where EXCEPT ![running] = Program]
  /\ UNCHANGED <<running, ready, blocked, finished, stale, free, frames, cpu, mainAt>>

-----------------------------------------------------------------------------
(* What the handlers do.  Those that need no other thread return.          *)
plain ==
  /\ \/ \E cause \in {"memory", "pageFault", "wait"} : Handles(cause, 0)
     \/ \E cause \in {"dispatch", "wait", "timer"} : Handles(cause, 1)
     \/ \E cause \in {"putc", "unknown"} : Handles(cause, 2)
  /\ Return
  /\ UNCHANGED <<ready, blocked, finished, stale, free>>

(* The threads that a handler may find waiting.  No program has the        *)
(* semaphores of the console to close them, and only programs sleep.       *)
Waiting(cause) ==
  CASE cause = "timer"                    -> blocked \cap Programs
    [] cause = "external"                 -> blocked \cap {putcThread, getcThread}
    [] cause = "close" /\ running # main  -> blocked \cap Programs
    [] OTHER                              -> blocked

(* Threads that waited become ready: one or none by signal, any number by  *)
(* the interrupt of the timer and by the closing of a semaphore, those of  *)
(* two semaphores by the console's.  The order is that of their waiting.   *)
AtMost == [signal |-> 1, external |-> 2,
           timer |-> Cardinality(Threads), close |-> Cardinality(Threads)]
Wakings(cause) ==
  UNION {SetToSeqs(woken) :
           woken \in {w \in SUBSET Waiting(cause) : Cardinality(w) <= AtMost[cause]}}

(* Only a signal clears the flag by which a thread waits for a semaphore.  *)
wake ==
  \E cause \in DOMAIN AtMost : \E q \in Wakings(cause) :
    /\ Handles(cause, 0)
    /\ Return
    /\ ready' = ready \o q
    /\ blocked' = blocked \ ToSet(q)
    /\ stale' = CASE cause = "close" -> stale \cup ToSet(q)
                  [] cause = "timer" -> stale
                  [] OTHER           -> stale \ ToSet(q)
    /\ UNCHANGED <<finished, free>>

(* A new thread is to begin in wrapper, on a stack of its own; without a   *)
(* control block there is none.                                            *)
create ==
  /\ Handles("create", 0)
  /\ \/ \E t \in free :
          /\ ReturnWith([where EXCEPT ![t] = Wrapper], [frames EXCEPT ![t] = <<>>])
          /\ ready' = Append(ready, t)
          /\ free' = free \ {t}
     \/ free = {} /\ Return /\ UNCHANGED <<ready, free>>
  /\ UNCHANGED <<blocked, finished, stale>>

(* Of a thread that is finished, any other is the mistake of the caller,   *)
(* or one that was never started.  The constructor sets its flags back.    *)
destroy ==
  /\ \E n \in 0 .. 2 : Handles("destroy", n)
  /\ Return
  /\ \E dead \in SUBSET (Others \cap finished) :
       /\ Cardinality(dead) <= 1
       /\ finished' = finished \ dead
       /\ stale' = stale \ dead
       /\ free' = free \cup dead
  /\ UNCHANGED <<ready, blocked>>

(* yield and suspend: the running thread goes behind the ready ones, or    *)
(* waits, for a semaphore or for its time, or is at its end; or it is on   *)
(* no list any more, if blocked was never cleared.  The timer has woken    *)
(* those whose time has come before.                                       *)
Behind(q) == IF running \in stale THEN q ELSE Append(q, running)
yield ==
  /\ \/ Handles("dispatch", 0) /\ Switch(Behind(ready)) /\ UNCHANGED blocked
     \/ \E q \in Wakings("timer") :
          /\ Handles("timer", 0)
          /\ Switch(Behind(ready \o q))
          /\ blocked' = blocked \ ToSet(q)
  /\ UNCHANGED <<finished, stale>>

block ==
  /\ Handles("wait", 0)
  /\ Switch(ready)
  /\ blocked' = blocked \cup {running}
  /\ UNCHANGED <<finished, stale>>

suspend ==
  /\ Handles("exit", 0) \/ Handles("violation", 2)
  /\ Switch(ready)
  /\ finished' = finished \cup {running}
  /\ UNCHANGED <<blocked, stale>>

(* A thread that runs for the first time is in wrapper, in the middle of   *)
(* the trap that switched to it, and leaves by an sret of its own.         *)
wrapper ==
  /\ where[running] = Wrapper
  /\ Sret([sepc |-> Program, spp |-> Privilege(running), spie |-> spie], where)
  /\ UNCHANGED <<running, ready, blocked, finished, stale, free, frames, mainAt>>

(* When usermain has finished, main() enables interrupts and waits for the *)
(* console to write what is left, and then disables them and ends.         *)
mainStep(from, to, interrupts) ==
  /\ running = main /\ where[main] = Program
  /\ mainAt = from /\ mainAt' = to
  /\ sie' = interrupts
  /\ UNCHANGED <<running, ready, blocked, finished, stale, free, where, frames,
                 mode, sepc, spp, spie>>
flush == usermainThread \in finished /\ mainStep("dispatch", "flush", TRUE)
end   == mainStep("flush", "end", FALSE)

-----------------------------------------------------------------------------
(* main() when it begins to wait for usermain.                             *)
Init ==
  /\ running = main
  /\ ready = <<putcThread, getcThread, idleThread, usermainThread>>
  /\ blocked = {} /\ finished = {} /\ stale = {} /\ free = Others
  /\ where = [t \in Threads |-> IF t = main THEN Program ELSE Wrapper]
  /\ frames = [t \in Threads |-> <<>>]
  /\ mode = "S" /\ sie = FALSE
  /\ sepc = Program /\ spp = "U" /\ spie = TRUE
  /\ mainAt = "dispatch"

Next ==
  \/ ecall \/ fault \/ nestedCall \/ kernelFault \/ interrupt \/ proceed
  \/ plain \/ wake \/ create \/ destroy \/ yield \/ block \/ suspend
  \/ wrapper \/ flush \/ end

Spec == Init /\ [][Next]_vars

-----------------------------------------------------------------------------
Codes == Calls \cup {"program", "wrapper", "timer", "external", "pageFault", "violation", "unknown"}
Addresses == [code : Codes, n : 0 .. 3]

(* The type of the state: no thread is ever deeper in traps than three,    *)
(* which is a fault in the freeing of the stack of a thread that it        *)
(* destroys; so what traps take of its stack is bounded.                   *)
TypeOK ==
  /\ running \in Threads /\ ready \in Seq(Threads)
  /\ blocked \subseteq Threads /\ finished \subseteq Threads /\ stale \subseteq Threads
  /\ free \subseteq Others
  /\ where \in [Threads -> Addresses]
  /\ \A t \in Threads : Len(frames[t]) <= 3
  /\ mode \in {"U", "S"} /\ spp \in {"U", "S"} /\ {sie, spie} \subseteq BOOLEAN
  /\ mainAt \in {"dispatch", "flush", "end"}
  /\ sepc \in Addresses

(* The kernel is never interrupted: neither a handler, however it was left *)
(* for another thread and resumed, nor the code of a console thread; only  *)
(* programs are, and main() while it waits in flush (riscv.cpp:119-259,    *)
(* main.cpp:66-74).  That every system call is one step in the other       *)
(* modules rests on this.  And a program never runs with the rights of the *)
(* kernel.                                                                 *)
KernelUninterrupted ==
  /\ TypeOK
  /\ mode = "S" /\ sie => running = main /\ mainAt = "flush" /\ frames[main] = <<>>
  /\ where[running].code = "program" => mode = Privilege(running)

(* A thread that returns from a trap goes on where it was, behind the      *)
(* system call that it made, with the mode and the interrupts it had,      *)
(* whatever traps were taken in between by its handler, by the destructor  *)
(* that it runs and by other threads (riscv.cpp:119-277, tcb.cpp:118-125). *)
(* Only the handler of an unknown cause prints and returns without having  *)
(* kept sepc (riscv.cpp:313-319): that thread goes on somewhere in the     *)
(* kernel's printing.                                                      *)
Resumed(t) ==
  LET f == Last(frames[t])
  IN  /\ where'[t] = IF f.cause \in Calls THEN After(f.from.at) ELSE f.from.at
      /\ mode' = f.from.mode /\ sie' = f.from.sie
ReturnsWhereTrapped ==
  [][Len(frames'[running]) < Len(frames[running]) /\ Last(frames[running]).cause # "unknown"
       => Resumed(running)]_vars
=============================================================================
