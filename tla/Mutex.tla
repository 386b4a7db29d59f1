-------------------------------- MODULE Mutex --------------------------------
(***************************************************************************)
(* What a lock promises to the threads that use it: one of them at a time  *)
(* holds it.                                                               *)
(***************************************************************************)
CONSTANT Users

VARIABLES
  waiting,    \* the threads that want the lock
  holders     \* those that hold it, at most one

mutexVars == <<waiting, holders>>

MutexInit == waiting = {} /\ holders = {}

Request(t) ==
  /\ t \notin waiting \cup holders
  /\ waiting' = waiting \cup {t}
  /\ UNCHANGED holders

Acquire(t) ==
  /\ t \in waiting
  /\ holders = {}
  /\ waiting' = waiting \ {t}
  /\ holders' = {t}

Release(t) ==
  /\ holders = {t}
  /\ holders' = {}
  /\ UNCHANGED waiting

MutexNext == \E t \in Users : Request(t) \/ Acquire(t) \/ Release(t)

MutexSpec == MutexInit /\ [][MutexNext]_mutexVars

=============================================================================
