------------------------------ MODULE PrintLock ------------------------------
(***************************************************************************)
(* The spin lock of the printing functions (lock.S, printing.hpp,          *)
(* printing.cpp): printString, getString and printInt take lockPrint with  *)
(* copy_and_swap, which is built on lr.w and sc.w, and hold it across      *)
(* system calls.  There is one processor.  A trap comes between any two    *)
(* instructions, and the thread that runs after it may be another one; so  *)
(* an action is one instruction of the loop, or a trap.                    *)
(***************************************************************************)
EXTENDS Integers, FiniteSets

CONSTANTS
  Users,      \* the threads that print
  Readers,    \* those that call getString, which waits for a key
  other       \* stands for the threads that do not print

ASSUME LockAssumption ==
  /\ Readers \subseteq Users
  /\ other \notin Users

VARIABLES
  lockPrint,
  reserved,   \* the processor holds the reservation of an lr.w
  executing,    \* the thread whose instructions it executes
  at,         \* where each thread is: outside, at lr.w, at sc.w, or printing,
              \* or gone: suspended for an access violation while it prints
  expected    \* the value that its call of copy_and_swap replaces

lockVars == <<lockPrint, reserved, executing, at, expected>>

Free  == 0
Taken == 1
desired(t) == 1 - expected[t]

-----------------------------------------------------------------------------
(* LOCK() or UNLOCK() begins.                                              *)
Begin(t, value) ==
  /\ at' = [at EXCEPT ![t] = "lr"]
  /\ expected' = [expected EXCEPT ![t] = value]
  /\ UNCHANGED <<lockPrint, reserved, executing>>

(* A printing function is called, and takes the lock,                      *)
enter(t) ==
  /\ executing = t
  /\ at[t] = "outside"
  /\ Begin(t, Free)

(* or has done its work and releases it.                                   *)
leave(t) ==
  /\ executing = t
  /\ at[t] = "printing"
  /\ Begin(t, Taken)

(* A mistake: the value is not compared.                                   *)
MatchesAlways(t) == TRUE

(* bne: the loaded value is the one to replace.                            *)
Matches(t) == lockPrint = expected[t]

(* lr.w and bne.  When the value is another one copy_and_swap fails and    *)
(* LOCK or UNLOCK calls it again.                                          *)
lr_w(t) ==
  /\ executing = t
  /\ at[t] = "lr"
  /\ reserved' = TRUE
  /\ at' = [at EXCEPT ![t] = IF Matches(t) THEN "sc" ELSE "lr"]
  /\ UNCHANGED <<lockPrint, executing, expected>>

(* sc.w stores if the reservation is still held,                           *)
Stored == reserved

AfterSwap(t) == IF expected[t] = Free THEN "printing" ELSE "outside"

(* Mistakes: a failed sc.w is taken for a success, or is repeated without  *)
(* the lr.w.                                                               *)
AfterStoreUnchecked(t) == AfterSwap(t)
AfterStoreAgain(t)     == IF Stored THEN AfterSwap(t) ELSE "sc"

(* and bnez goes back to lr.w if it did not.                               *)
AfterStore(t) == IF Stored THEN AfterSwap(t) ELSE "lr"

sc_w(t) ==
  /\ executing = t
  /\ at[t] = "sc"
  /\ lockPrint' = IF Stored THEN desired(t) ELSE lockPrint
  /\ reserved' = FALSE
  /\ at' = [at EXCEPT ![t] = AfterStore(t)]
  /\ UNCHANGED <<executing, expected>>

(* The thread that runs after a trap; a thread that is gone is not ready.  *)
GoesOn(u) ==
  /\ u \in Users => at[u] # "gone"
  /\ executing' = u

(* A trap, after which u runs: a timer interrupt, or a system call of the  *)
(* printing function.  The processor drops its reservation.                *)
trap(u) ==
  /\ GoesOn(u)
  /\ reserved' = FALSE
  /\ UNCHANGED <<lockPrint, at, expected>>

(* The string of printString or the buffer of getString is not memory of   *)
(* the program: the thread is suspended, and u runs.                       *)
violation(t, u) ==
  /\ executing = t
  /\ at[t] = "printing"
  /\ u # t
  /\ GoesOn(u)
  /\ at' = [at EXCEPT ![t] = "gone"]
  /\ reserved' = FALSE
  /\ UNCHANGED <<lockPrint, expected>>

-----------------------------------------------------------------------------
AllThreads == Users \cup {other}

LockInit ==
  /\ lockPrint = Free
  /\ reserved = FALSE
  /\ executing = other
  /\ at = [t \in Users |-> "outside"]
  /\ expected = [t \in Users |-> Free]

LockNext ==
  \/ \E t \in Users :
       \/ enter(t) \/ leave(t) \/ lr_w(t) \/ sc_w(t)
       \/ \E u \in AllThreads : violation(t, u)
  \/ \E u \in AllThreads : trap(u)

LockSpec == LockInit /\ [][LockNext]_lockVars

(* Every thread that is not gone runs again and again, as the scheduler    *)
(* lets every ready thread run and the console takes what putc puts; the   *)
(* traps do not always hit the few instructions between lr.w and sc.w, as  *)
(* a time slice has millions; and a thread that does not wait for a key    *)
(* comes to the end of its printing.                                       *)
Fairness ==
  /\ \A t \in Users :
       /\ WF_lockVars(trap(t))
       /\ SF_lockVars(lr_w(t))
       /\ SF_lockVars(sc_w(t))
       /\ SF_lockVars(reserved /\ sc_w(t))
  /\ \A t \in Users \ Readers : SF_lockVars(leave(t))
FairSpec == LockSpec /\ Fairness

-----------------------------------------------------------------------------
Waits(t)    == at[t] \in {"lr", "sc"} /\ expected[t] = Free
Releases(t) == at[t] \in {"lr", "sc"} /\ expected[t] = Taken
Holds(t)    == at[t] \in {"printing", "gone"} \/ Releases(t)

LockTypeOK ==
  /\ lockPrint \in {Free, Taken}
  /\ reserved \in BOOLEAN
  /\ executing \in AllThreads
  /\ at \in [Users -> {"outside", "lr", "sc", "printing", "gone"}]
  /\ expected \in [Users -> {Free, Taken}]

(* lockPrint is 1 exactly while some thread holds the lock, from the sc.w  *)
(* of its LOCK to that of its UNLOCK, and then one thread does.  What it   *)
(* rests on: while the reservation is held, a thread at its sc.w has just  *)
(* loaded the value that is still in lockPrint.                            *)
ReservationTold ==
  \A t \in Users : executing = t /\ reserved /\ at[t] = "sc" => lockPrint = expected[t]
LockTold ==
  /\ LockTypeOK
  /\ ReservationTold
  /\ lockPrint = Taken <=> \E t \in Users : Holds(t)
  /\ \A t, u \in Users : Holds(t) /\ Holds(u) => t = u

(* The printing functions exclude each other: Mutex.                       *)
Lock == INSTANCE Mutex WITH
  waiting <- {t \in Users : Waits(t)}, holders <- {t \in Users : Holds(t)}
ImplementsMutex == Lock!MutexSpec

(* A thread that has the lock and does not wait for a key releases it, if  *)
(* it is not suspended for a violation; and a free lock that somebody      *)
(* wants is taken.  That it is taken by a certain thread the lock does not *)
(* promise.                                                                *)
LockPasses ==
  /\ \A t \in Users :
       Holds(t) /\ (t \notin Readers \/ Releases(t)) ~> lockPrint = Free \/ at[t] = "gone"
  /\ (lockPrint = Free /\ \E t \in Users : Waits(t)) ~> lockPrint = Taken
=============================================================================
