------------------------------ MODULE Sleeping ------------------------------
(***************************************************************************)
(* The queue of sleeping threads (sleeping.cpp): ordered by wake-up time,  *)
(* each node holds the ticks after those of the nodes before it, so that a *)
(* tick of the timer touches the first node only.                          *)
(***************************************************************************)
EXTENDS Queues, FiniteSets

CONSTANTS
  Threads,
  MaxSleep     \* bounds the argument of time_sleep

VARIABLE sleepQ    \* the nodes from head: [tcb, time]

Nodes == [tcb : Threads, time : Nat]

Sleeper(q)  == {q[i].tcb : i \in 1 .. Len(q)}

(* due[i]: the ticks until the i-th node of a queue wakes up.              *)
DueTimes(q) ==
  LET due[i \in 0 .. Len(q)] == IF i = 0 THEN 0 ELSE due[i - 1] + q[i].time
  IN  due

(* A mistake: the new node goes before those that wake up when it does.    *)
PlaceBeforeEqual(q, time) == Cardinality({i \in 1 .. Len(q) : DueTimes(q)[i] < time})

(* How many nodes wake up no later than one that sleeps for time.          *)
Place(q, time) == Cardinality({i \in 1 .. Len(q) : DueTimes(q)[i] <= time})

(* A mistake: the next node still counts from the one before.              *)
CountingFromOld(node, time) == node

(* The node behind a new one counts from that.                             *)
CountingFrom(node, time) == [node EXCEPT !.time = @ - time]

(* Sleeping::add: the node goes behind all that wake up no later than it   *)
(* does, and the next one counts from it.                                  *)
Add(q, t, time) ==
  LET p    == Place(q, time)
      node == [tcb |-> t, time |-> time - DueTimes(q)[p]]
  IN  [i \in 1 .. Len(q) + 1 |->
         IF i <= p THEN q[i]
         ELSE IF i = p + 1 THEN node
         ELSE IF i = p + 2 THEN CountingFrom(q[i - 1], node.time)
         ELSE q[i - 1]]

(* Sleeping::remove: the first node counts down, and all that have nothing *)
(* left to wait for leave the queue.                                       *)
CountDown(q) == IF q = <<>> THEN q ELSE [q EXCEPT ![1].time = @ - 1]

Expired(q) ==
  Cardinality({n \in 1 .. Len(q) : \A i \in 1 .. n : q[i].time = 0})

Woken(q) ==
  LET d == CountDown(q) IN [i \in 1 .. Expired(d) |-> d[i].tcb]
StillAsleep(q) ==
  LET d == CountDown(q) IN SubSeq(d, Expired(d) + 1, Len(d))

-----------------------------------------------------------------------------
SleepInit == sleepQ = <<>>

(* Every thread sleeps for exactly the ticks it asked for: Alarm, with the *)
(* sum of the times up to its node as what remains.                        *)
Remaining ==
  [t \in Threads |->
     IF t \notin Sleeper(sleepQ) THEN 0
     ELSE DueTimes(sleepQ)[CHOOSE i \in 1 .. Len(sleepQ) : sleepQ[i].tcb = t]]
Alarms == INSTANCE Alarm WITH remaining <- Remaining
ImplementsAlarm == Alarms!AlarmSpec

(* Threads that are to wake up at the same tick do so in the order in      *)
(* which they went to sleep, and none ever overtakes another.              *)
Before(t, u) ==
  \E i, j \in 1 .. Len(sleepQ) : i < j /\ sleepQ[i].tcb = t /\ sleepQ[j].tcb = u
FirstToSleep(t, u) ==
  t \in Sleeper(sleepQ) /\ u \notin Sleeper(sleepQ) /\ Remaining[t] <= Remaining'[u]
OrderKept ==
  [][\A t, u \in Sleeper(sleepQ') : Before(t, u) \/ FirstToSleep(t, u) => Before(t, u)']_sleepQ

=============================================================================
