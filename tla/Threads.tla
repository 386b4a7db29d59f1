------------------------------ MODULE Threads ------------------------------
(***************************************************************************)
(* Threads and semaphores of the kernel (tcb.cpp, scheduler.cpp,           *)
(* kernelsem.cpp) with the system calls and the timer interrupt that use   *)
(* them (riscv.cpp).  The kernel is not preemptible: a trap is handled     *)
(* with interrupts off, so every action is a whole handler, up to the      *)
(* context switch that may end it.  The running thread is any program: in  *)
(* each step it makes some system call or is interrupted by the timer.     *)
(*                                                                         *)
(* The list of ready threads and the queues of the semaphores are          *)
(* sequences from head to tail.                                            *)
(***************************************************************************)
EXTENDS Sleeping

CONSTANTS
  main,                \* the thread of main(): dispatches until userMain is done
  idle,                \* the thread that dispatches for ever
  booted,              \* the threads main() starts, in order: putcThread,
                       \* getcThread, idleThread, usermainThread
  Sems,                \* the places of a semaphore
  None,                \* the null pointer
  DEFAULT_TIME_SLICE,
  MaxVal               \* bounds the values of semaphores, from above

ASSUME ThreadsAssumption ==
  /\ main \in Threads
  /\ booted \in Seq(Threads \ {main})
  /\ \A i, j \in 1 .. Len(booted) : booted[i] = booted[j] => i = j
  /\ \E i \in 1 .. Len(booted) : booted[i] = idle
  /\ Sems \cap {None, "absent", "new", "runnable", "asleep", "finished"} = {}
  /\ DEFAULT_TIME_SLICE \in Nat \ {0}
  /\ MaxVal \in Nat

VARIABLES
  running,             \* TCB::running
  ready,               \* the list of Scheduler
  tcb,                 \* the fields of the thread control blocks
  created,             \* the blocks that are given out
  sem,                 \* the value and the queue of each semaphore
  open,                \* the semaphores that are given out
  timeSliceCounter

vars == <<running, ready, tcb, created, sem, open, timeSliceCounter, sleepQ>>

(* What the constructors of TCB and KernelSem leave; the caches construct  *)
(* an object when its slab is made and again when it is freed, so this is  *)
(* what an object holds that is not given out.                             *)
NewTCB == [started |-> FALSE, finished |-> FALSE, blocked |-> FALSE,
           asleep |-> FALSE, close |-> 0, holder |-> None]
NewSem == [val |-> 0, queue |-> <<>>]

-----------------------------------------------------------------------------
(* A mistake: a sleeping thread is taken for one that may run.             *)
MayRunAsleep(f) == ~f.finished /\ ~f.blocked

(* The flags of a thread let it be put back.                               *)
MayRun(f) == ~f.finished /\ ~f.blocked /\ ~f.asleep

(* A mistake: the running thread goes to the front of the list.            *)
SwitchToFront(r, b) ==
  LET list == IF MayRun(b[running]) THEN <<running>> \o r ELSE r
  IN  /\ tcb' = b
      /\ running' = IF list = <<>> THEN idle ELSE Head(list)
      /\ ready' = IF list = <<>> THEN <<>> ELSE Tail(list)

(* TCB::dispatch, when the list of ready threads is r and the blocks are b: *)
(* the running thread goes to the end of the list if it may run, and the   *)
(* first of the list runs, idle if there is none.                          *)
Switch(r, b) ==
  LET list == IF MayRun(b[running]) THEN Append(r, running) ELSE r
  IN  /\ tcb' = b
      /\ running' = IF list = <<>> THEN idle ELSE Head(list)
      /\ ready' = IF list = <<>> THEN <<>> ELSE Tail(list)

(* The program of the running thread; main and idle have one of their own. *)
InProgram == running \notin {main, idle}

(* THREAD_DISPATCH.                                                        *)
dispatch ==
  /\ timeSliceCounter' = 0
  /\ Switch(ready, tcb)
  /\ UNCHANGED <<created, sem, open, sleepQ>>

(* THREAD_CREATE and TCB_CREATE; only the first starts the thread.         *)
createThread(t, start) ==
  /\ InProgram
  /\ t \notin created
  /\ created' = created \cup {t}
  /\ ready' = IF start THEN Append(ready, t) ELSE ready
  /\ tcb' = IF start THEN [tcb EXCEPT ![t].started = TRUE] ELSE tcb
  /\ UNCHANGED <<running, sem, open, sleepQ, timeSliceCounter>>

(* THREAD_START; no program has a handle of main.                          *)
startThread(t) ==
  /\ InProgram
  /\ t \in created \ {main}
  /\ ~tcb[t].started
  /\ ready' = Append(ready, t)
  /\ tcb' = [tcb EXCEPT ![t].started = TRUE]
  /\ UNCHANGED <<running, created, sem, open, sleepQ, timeSliceCounter>>

(* THREAD_EXIT: TCB::suspend, which a memory access violation calls too.   *)
exit ==
  /\ InProgram
  /\ Switch(ready, [tcb EXCEPT ![running].finished = TRUE])
  /\ UNCHANGED <<created, sem, open, sleepQ, timeSliceCounter>>

(* A mistake: an object is constructed when its slab is made, not again.   *)
FreedAsIs(t) == tcb

(* kmem_cache_free of a thread control block constructs it anew.           *)
Freed(t) == [tcb EXCEPT ![t] = NewTCB]

(* THREAD_DESTROY of a thread that is finished or was not started.         *)
destroyThread(t) ==
  /\ InProgram
  /\ t \in created \ {main, idle}
  /\ tcb[t].finished \/ ~tcb[t].started
  /\ created' = created \ {t}
  /\ tcb' = Freed(t)
  /\ UNCHANGED <<running, ready, sem, open, sleepQ, timeSliceCounter>>

-----------------------------------------------------------------------------
(* SEM_OPEN.                                                               *)
semOpen(s, init) ==
  /\ InProgram
  /\ s \notin open
  /\ open' = open \cup {s}
  /\ sem' = [sem EXCEPT ![s] = [val |-> init, queue |-> <<>>]]
  /\ UNCHANGED <<running, ready, tcb, created, sleepQ, timeSliceCounter>>

(* A mistake: the value is tested before it is decremented.                *)
BlocksLate(s) == sem[s].val < 0

(* wait() blocks: the decremented value is below zero.                     *)
Blocks(s) == sem[s].val - 1 < 0

(* SEM_WAIT: KernelSem::wait and block.                                    *)
semWait(s) ==
  /\ InProgram
  /\ s \in open
  /\ IF Blocks(s)
     THEN /\ sem' = [sem EXCEPT ![s].val = @ - 1, ![s].queue = Append(@, running)]
          /\ timeSliceCounter' = 0
          /\ Switch(ready, [tcb EXCEPT ![running].blocked = TRUE, ![running].holder = s])
     ELSE /\ sem' = [sem EXCEPT ![s].val = @ - 1]
          /\ UNCHANGED <<running, ready, tcb, timeSliceCounter>>
  /\ UNCHANGED <<created, open, sleepQ>>

(* Mistakes: one of the two assignments of remove() is missing.            *)
RemovedStillHeld(f)    == [f EXCEPT !.blocked = FALSE]
RemovedStillBlocked(f) == [f EXCEPT !.holder = None]

(* What remove() writes into the thread it takes from the queue.           *)
Removed(f) == [f EXCEPT !.holder = None, !.blocked = FALSE]

(* SEM_SIGNAL: KernelSem::signal, deblock and remove.  A value below zero  *)
(* promises a waiting thread.  The interrupt of the console signals two    *)
(* semaphores in the same way, in whatever thread it comes but main, which *)
(* runs with interrupts off.                                               *)
semSignal(s) ==
  /\ running # main
  /\ s \in open
  /\ sem[s].val < MaxVal
  /\ IF sem[s].val < 0
     THEN LET t == Head(sem[s].queue)
          IN  /\ sem' = [sem EXCEPT ![s].val = @ + 1, ![s].queue = Tail(@)]
              /\ ready' = Append(ready, t)
              /\ tcb' = [tcb EXCEPT ![t] = Removed(@)]
     ELSE /\ sem' = [sem EXCEPT ![s].val = @ + 1]
          /\ UNCHANGED <<ready, tcb>>
  /\ UNCHANGED <<running, created, open, sleepQ, timeSliceCounter>>

(* A mistake: the thread still refers to the semaphore.                    *)
ReleasedStillHeld(f) == [f EXCEPT !.close = 1]

(* What semDtor writes into a waiting thread.                              *)
Released(f) == [f EXCEPT !.close = 1, !.holder = None]

(* SEM_CLOSE and SEM_DESTROY: the cache calls semDtor, which readies the   *)
(* waiting threads, and constructs the semaphore anew.                     *)
semClose(s) ==
  /\ InProgram
  /\ s \in open
  /\ open' = open \ {s}
  /\ sem' = [sem EXCEPT ![s] = NewSem]
  /\ ready' = ready \o sem[s].queue
  /\ tcb' = [t \in Threads |->
               IF t \in Elements(sem[s].queue)
               THEN Released(tcb[t]) ELSE tcb[t]]
  /\ UNCHANGED <<running, created, sleepQ, timeSliceCounter>>

-----------------------------------------------------------------------------
(* TIME_SLEEP; time_sleep refuses a time that is not positive.             *)
timeSleep(time) ==
  /\ InProgram
  /\ sleepQ' = Add(sleepQ, running, time)
  /\ Switch(ready, [tcb EXCEPT ![running].asleep = TRUE])
  /\ UNCHANGED <<created, sem, open, timeSliceCounter>>

SliceOver == timeSliceCounter + 1 >= DEFAULT_TIME_SLICE

(* A mistake: the flag of a thread that wakes up is not cleared.           *)
AwakenedAsIs(f) == f

(* What remove() writes into a thread that wakes up.                       *)
Awakened(f) == [f EXCEPT !.asleep = FALSE]

(* The timer interrupt: sleepers may wake up, and the running thread may   *)
(* be at the end of its time slice.  main runs with interrupts off.        *)
timer ==
  LET list  == ready \o Woken(sleepQ)
      flags == [t \in Threads |->
                  IF t \in Elements(Woken(sleepQ))
                  THEN Awakened(tcb[t]) ELSE tcb[t]]
  IN  /\ running # main
      /\ sleepQ' = StillAsleep(sleepQ)
      /\ IF SliceOver
         THEN timeSliceCounter' = 0 /\ Switch(list, flags)
         ELSE /\ timeSliceCounter' = timeSliceCounter + 1
              /\ ready' = list
              /\ tcb' = flags
              /\ UNCHANGED running
      /\ UNCHANGED <<created, sem, open>>

-----------------------------------------------------------------------------
(* main() when it starts to wait for the end of usermainThread.            *)
Init ==
  /\ running = main
  /\ ready = booted
  /\ created = Elements(booted) \cup {main}
  /\ tcb = [t \in Threads |->
              IF t \in Elements(booted) THEN [NewTCB EXCEPT !.started = TRUE] ELSE NewTCB]
  /\ sem = [s \in Sems |-> NewSem]
  /\ open = {}
  /\ timeSliceCounter = 0
  /\ SleepInit

Call ==
  \/ dispatch
  \/ \E t \in Threads : \/ \E start \in BOOLEAN : createThread(t, start)
                        \/ startThread(t)
                        \/ destroyThread(t)
  \/ exit
  \/ \E s \in Sems : \/ \E init \in 0 .. MaxVal : semOpen(s, init)
                     \/ semWait(s)
                     \/ semSignal(s)
                     \/ semClose(s)
  \/ \E time \in 1 .. MaxSleep : timeSleep(time)

Next == Call \/ timer

Spec == Init /\ [][Next]_vars

(* main and idle do nothing but dispatch; and a timer interrupt stays      *)
(* pending (SIP_SSIP) until interrupts are on and it is taken.             *)
Fairness ==
  /\ WF_vars(~InProgram /\ dispatch)
  /\ SF_vars(timer)
FairSpec == Spec /\ Fairness

-----------------------------------------------------------------------------
TypeOK ==
  /\ running \in Threads
  /\ ready \in Seq(Threads)
  /\ tcb \in [Threads -> [started : BOOLEAN, finished : BOOLEAN, blocked : BOOLEAN,
                          asleep : BOOLEAN, close : {0, 1}, holder : Sems \cup {None}]]
  /\ created \subseteq Threads
  /\ sem \in [Sems -> [val : Int, queue : Seq(Threads)]]
  /\ open \subseteq Sems
  /\ timeSliceCounter \in 0 .. DEFAULT_TIME_SLICE - 1
  /\ Sleeper(sleepQ) \subseteq Threads

(* The value of a semaphore counts what its queue holds: below zero, the   *)
(* threads that wait.  So signal() never takes a thread from an empty      *)
(* queue, and never leaves a waiting thread behind (kernelsem.cpp:45-60).  *)
QueueLengths ==
  \A s \in Sems :
    Len(sem[s].queue) = IF sem[s].val < 0 THEN -sem[s].val ELSE 0
SemCount == TypeOK /\ QueueLengths

Sleepers == Sleeper(sleepQ)
Waiters(s) == Elements(sem[s].queue)

(* A thread is in one place: it runs, or is ready, or waits for one        *)
(* semaphore, or sleeps; and it is linked there once.  The links of the    *)
(* list of ready threads are fields of the thread, so a second put() of    *)
(* the same one would cut off what is behind it.                           *)
OnePlace ==
  /\ Distinct(ready)
  /\ running \notin Elements(ready)
  /\ \A i, j \in 1 .. Len(sleepQ) : sleepQ[i].tcb = sleepQ[j].tcb => i = j
  /\ Sleepers \cap ({running} \cup Elements(ready)) = {}
  /\ \A s \in Sems :
       /\ Distinct(sem[s].queue)
       /\ Waiters(s) \cap ({running} \cup Elements(ready) \cup Sleepers) = {}
       /\ \A r \in Sems \ {s} : Waiters(s) \cap Waiters(r) = {}

Placed(t) ==
  \/ t = running
  \/ t \in Elements(ready) \cup Sleepers
  \/ \E s \in Sems : t \in Waiters(s)

(* What the flags of a thread say is where it is.  Only blocked can be out *)
(* of date: semDtor leaves it set in the threads that it readies.          *)
FlagsTellPlace ==
  \A t \in Threads :
    /\ \A s \in Sems : tcb[t].holder = s <=> t \in Waiters(s)
    /\ tcb[t].asleep <=> t \in Sleepers
    /\ tcb[t].holder # None => tcb[t].blocked
    /\ Placed(t) => t \in created /\ ~tcb[t].finished /\ (tcb[t].started \/ t = main)

(* No started thread is forgotten before it finishes, unless a semaphore   *)
(* was closed while it waited.                                             *)
LostOnlyByClose ==
  \A t \in created :
    tcb[t].started /\ ~tcb[t].finished =>
      Placed(t) \/ (tcb[t].blocked /\ tcb[t].close = 1)

(* createThread writes only some fields of a thread control block and      *)
(* relies on the cache for the others: a block that is not given out is    *)
(* as the constructor left it.  The same for semaphores.                   *)
FreeIsConstructed ==
  /\ \A t \in Threads \ created : tcb[t] = NewTCB
  /\ \A s \in Sems \ open : sem[s] = NewSem

(* The list is never found empty by get(): idle, which is in it from the   *)
(* start and is also what get() returns then, would run while it is ready, *)
(* or twice.                                                               *)
IdleAvailable == idle \in {running} \cup Elements(ready)

(* The kernel keeps the promise of ThreadLife.                             *)
StateOf(t) ==
  IF t \notin created THEN "absent"
  ELSE IF tcb[t].finished THEN "finished"
  ELSE IF tcb[t].holder # None THEN tcb[t].holder
  ELSE IF tcb[t].asleep THEN "asleep"
  ELSE IF ~tcb[t].started /\ t # main THEN "new"
  ELSE "runnable"
TokensOf(s) == IF sem[s].val > 0 THEN sem[s].val ELSE 0
Life == INSTANCE ThreadLife WITH
  Initial <- Elements(booted) \cup {main},
  state   <- [t \in Threads |-> StateOf(t)],
  tokens  <- [s \in Sems |-> TokensOf(s)],
  opened  <- open
ImplementsThreadLife == Life!LifeSpec

(* Whatever the other threads do, a ready thread runs,                     *)
ReadyRuns == \A t \in Threads : t \in Elements(ready) ~> running = t

(* and a sleeping thread becomes ready.                                    *)
SleepersWake ==
  \A t \in Threads \ {main, idle} : tcb[t].asleep ~> t \in Elements(ready) \cup {running}

(* h/kernelsem.h:50 says of a thread that leaves a semaphore that it is    *)
(* placed back to the scheduler: no started thread is forgotten.           *)
NoThreadLost ==
  \A t \in created : tcb[t].started /\ ~tcb[t].finished => Placed(t)
=============================================================================
