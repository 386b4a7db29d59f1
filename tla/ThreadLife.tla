----------------------------- MODULE ThreadLife -----------------------------
(***************************************************************************)
(* What the system calls promise to programs: the life of a thread, and    *)
(* semaphores with which threads wait for one another.  A thread that      *)
(* waits for a semaphore is let on by exactly one signal, or by its        *)
(* closing; a signal that finds nobody waiting is kept for a later wait.   *)
(***************************************************************************)
EXTENDS Naturals

CONSTANTS
  Threads, Sems,
  MaxVal,           \* bounds the initial value of a semaphore
  Initial           \* the threads that are there from the start

VARIABLES
  state,            \* state[t], or the semaphore that t waits for
  tokens,           \* tokens[s]: the waits that s lets pass
  opened            \* the semaphores that exist

lifeVars == <<state, tokens, opened>>

States == {"absent", "new", "runnable", "asleep", "finished"} \cup Sems

LifeInit ==
  /\ state = [t \in Threads |-> IF t \in Initial THEN "runnable" ELSE "absent"]
  /\ tokens = [s \in Sems |-> 0]
  /\ opened = {}

(* The steps that take one thread from a state to another.                 *)
Goes(t, from, to) ==
  /\ state[t] = from
  /\ state' = [state EXCEPT ![t] = to]
  /\ UNCHANGED <<tokens, opened>>

Create(t)  == Goes(t, "absent", "new")
Start(t)   == Goes(t, "new", "runnable")
Spawn(t)   == Goes(t, "absent", "runnable")
Exit(t)    == Goes(t, "runnable", "finished")
Destroy(t) == Goes(t, "new", "absent") \/ Goes(t, "finished", "absent")
Sleep(t)   == Goes(t, "runnable", "asleep")

WakeUp(T) ==
  /\ \A t \in T : state[t] = "asleep"
  /\ state' = [t \in Threads |-> IF t \in T THEN "runnable" ELSE state[t]]
  /\ UNCHANGED <<tokens, opened>>

Open(s, n) ==
  /\ s \notin opened
  /\ opened' = opened \cup {s}
  /\ tokens' = [tokens EXCEPT ![s] = n]
  /\ UNCHANGED state

Wait(t, s) ==
  /\ s \in opened
  /\ state[t] = "runnable"
  /\ IF tokens[s] > 0
     THEN tokens' = [tokens EXCEPT ![s] = @ - 1] /\ UNCHANGED state
     ELSE state' = [state EXCEPT ![t] = s] /\ UNCHANGED tokens
  /\ UNCHANGED opened

WaitingFor(s) == {t \in Threads : state[t] = s}

Signal(s) ==
  /\ s \in opened
  /\ IF WaitingFor(s) = {}
     THEN tokens' = [tokens EXCEPT ![s] = @ + 1] /\ UNCHANGED state
     ELSE /\ \E t \in WaitingFor(s) : state' = [state EXCEPT ![t] = "runnable"]
          /\ UNCHANGED tokens
  /\ UNCHANGED opened

Close(s) ==
  /\ s \in opened
  /\ opened' = opened \ {s}
  /\ tokens' = [tokens EXCEPT ![s] = 0]
  /\ state' = [t \in Threads |-> IF state[t] = s THEN "runnable" ELSE state[t]]

LifeNext ==
  \/ \E t \in Threads :
       \/ Create(t) \/ Start(t) \/ Spawn(t) \/ Exit(t) \/ Destroy(t) \/ Sleep(t)
       \/ \E s \in Sems : Wait(t, s)
  \/ \E T \in SUBSET Threads : WakeUp(T)
  \/ \E s \in Sems : (\E n \in 0 .. MaxVal : Open(s, n)) \/ Signal(s) \/ Close(s)

LifeSpec == LifeInit /\ [][LifeNext]_lifeVars

=============================================================================
