---------------------------- MODULE ThreadsProofs ----------------------------
(***************************************************************************)
(* Proofs of the invariants of threads and semaphores, and that they are   *)
(* what ThreadLife promises, for any threads, semaphores and bounds.  The  *)
(* first part says what the operations on the queue of sleeping threads do *)
(* to the threads that are in it; the last one what they do to the times,  *)
(* and that the queue is what Alarm promises.                              *)
(***************************************************************************)
EXTENDS Threads, QueueProofs, FiniteSetTheorems

(* A queue of nodes, whatever their times are.                             *)
IsSleepQ(q) ==
  /\ Len(q) \in Nat
  /\ q = [i \in 1 .. Len(q) |-> q[i]]
  /\ \A i \in 1 .. Len(q) : /\ q[i] = [tcb |-> q[i].tcb, time |-> q[i].time]
                            /\ q[i].tcb \in Threads

(* No thread has two nodes.                                                *)
SleepOnce(q) == \A i, j \in 1 .. Len(q) : q[i].tcb = q[j].tcb => i = j

(* How many of the first indices satisfy a condition: no more than all.    *)
LEMMA CountOfIndices ==
  ASSUME NEW n \in Nat, NEW I \in SUBSET (1 .. n)
  PROVE  Cardinality(I) \in 0 .. n
<1>1. IsFiniteSet(1 .. n) /\ Cardinality(1 .. n) = n
  BY FS_Interval
<1>2. IsFiniteSet(I) /\ Cardinality(I) <= n
  BY <1>1, FS_Subset
<1>3. Cardinality(I) \in Nat
  BY <1>2, FS_CardinalityType
<1> QED BY <1>2, <1>3

(* The place of a new node is between the nodes or at an end.              *)
LEMMA PlaceInQueue ==
  ASSUME NEW q, Len(q) \in Nat, NEW time
  PROVE  Place(q, time) \in 0 .. Len(q)
<1>1. {i \in 1 .. Len(q) : DueTimes(q)[i] <= time} \in SUBSET (1 .. Len(q))
  OBVIOUS
<1> QED BY <1>1, CountOfIndices DEF Place

(* The nodes at the front with nothing to wait for are some of all.        *)
LEMMA ExpiredInQueue ==
  ASSUME NEW q, Len(q) \in Nat
  PROVE  Expired(q) \in 0 .. Len(q)
<1>1. {n \in 1 .. Len(q) : \A i \in 1 .. n : q[i].time = 0} \in SUBSET (1 .. Len(q))
  OBVIOUS
<1> QED BY <1>1, CountOfIndices DEF Expired

(* The length of a sequence given by its elements.                         *)
LEMMA LenOfFunction ==
  ASSUME NEW n \in Nat, NEW f, f = [i \in 1 .. n |-> f[i]]
  PROVE  Len(f) = n
<1> DEFINE S == {f[i] : i \in 1 .. n}
<1>1. f \in [1 .. n -> S]
  OBVIOUS
<1>2. f \in Seq(S)
  BY <1>1, SeqDef
<1>3. DOMAIN f = 1 .. n /\ DOMAIN f = 1 .. Len(f) /\ Len(f) \in Nat
  BY <1>1, <1>2, LenProperties
<1> QED BY <1>3

(* A thread added to the queue joins those that are in it.                 *)
LEMMA AddSleeper ==
  ASSUME NEW q, IsSleepQ(q), NEW t \in Threads, NEW time
  PROVE  /\ IsSleepQ(Add(q, t, time))
         /\ Sleeper(Add(q, t, time)) = Sleeper(q) \cup {t}
         /\ SleepOnce(q) /\ t \notin Sleeper(q) => SleepOnce(Add(q, t, time))
<1> DEFINE p    == Place(q, time)
           node == [tcb |-> t, time |-> time - DueTimes(q)[p]]
           next == CountingFrom(q[p + 1], node.time)
           a    == Add(q, t, time)
<1>1. Len(q) \in Nat /\ p \in 0 .. Len(q)
  BY PlaceInQueue DEF IsSleepQ
<1>2. a = [i \in 1 .. Len(q) + 1 |->
             IF i <= p THEN q[i]
             ELSE IF i = p + 1 THEN node
             ELSE IF i = p + 2 THEN CountingFrom(q[i - 1], node.time)
             ELSE q[i - 1]]
  BY DEF Add
<1> HIDE DEF a, p
<1>3. Len(a) = Len(q) + 1 /\ a = [i \in 1 .. Len(a) |-> a[i]]
  <2>1. Len(q) + 1 \in Nat /\ a = [i \in 1 .. Len(q) + 1 |-> a[i]]
    BY <1>1, <1>2
  <2>2. Len(a) = Len(q) + 1
    BY <2>1, LenOfFunction
  <2> QED BY <2>1, <2>2
<1>4. ASSUME NEW i \in 1 .. Len(q)
      PROVE  /\ CountingFrom(q[i], node.time).tcb = q[i].tcb
             /\ CountingFrom(q[i], node.time)
                  = [tcb  |-> CountingFrom(q[i], node.time).tcb,
                     time |-> CountingFrom(q[i], node.time).time]
  <2> DEFINE old == q[i]
  <2>1. old = [tcb |-> old.tcb, time |-> old.time]
    BY DEF IsSleepQ
  <2> HIDE DEF old
  <2>2. [old EXCEPT !.time = @ - node.time] = [tcb |-> old.tcb, time |-> old.time - node.time]
    BY <2>1
  <2> QED BY <2>2 DEF CountingFrom, old
<1> HIDE DEF node
<1>5. ASSUME NEW i \in 1 .. Len(a)
      PROVE  /\ i <= p => i \in 1 .. Len(q) /\ a[i] = q[i]
             /\ i = p + 1 => a[i] = node
             /\ i > p + 1 => /\ i - 1 \in 1 .. Len(q)
                             /\ a[i].tcb = q[i - 1].tcb
                             /\ a[i] = [tcb |-> a[i].tcb, time |-> a[i].time]
  <2>1. CASE i <= p + 1 BY <1>1, <1>2, <1>3, <2>1
  <2>2. CASE i = p + 2
    <3> DEFINE j == i - 1
    <3>1. j \in 1 .. Len(q) /\ a[i] = CountingFrom(q[j], node.time)
      BY <1>1, <1>2, <1>3, <2>2
    <3> HIDE DEF j
    <3>2. a[i].tcb = q[j].tcb /\ a[i] = [tcb |-> a[i].tcb, time |-> a[i].time]
      BY <3>1, <1>4
    <3> QED BY <3>1, <3>2, <2>2, <1>1 DEF j
  <2>3. CASE i > p + 2
    <3> DEFINE j == i - 1
    <3>1. j \in 1 .. Len(q) /\ a[i] = q[j]
      BY <1>1, <1>2, <1>3, <2>3
    <3> HIDE DEF j
    <3>2. q[j] = [tcb |-> q[j].tcb, time |-> q[j].time]
      BY <3>1 DEF IsSleepQ
    <3>3. a[i].tcb = q[j].tcb /\ a[i] = [tcb |-> a[i].tcb, time |-> a[i].time]
      BY <3>1, <3>2
    <3> QED BY <3>1, <3>3, <2>3, <1>1 DEF j
  <2> QED BY <2>1, <2>2, <2>3, <1>1, <1>3
<1>6. node = [tcb |-> node.tcb, time |-> node.time] /\ node.tcb = t
  BY DEF node
<1>7. IsSleepQ(a)
  <2>1. ASSUME NEW i \in 1 .. Len(a)
        PROVE  a[i] = [tcb |-> a[i].tcb, time |-> a[i].time] /\ a[i].tcb \in Threads
    <3>1. CASE i <= p BY <3>1, <1>5 DEF IsSleepQ
    <3>2. CASE i = p + 1 BY <3>2, <1>5, <1>6
    <3>3. CASE i > p + 1
      <4>1. i - 1 \in 1 .. Len(q) /\ a[i].tcb = q[i - 1].tcb
        BY <3>3, <1>5
      <4> QED BY <4>1, <3>3, <1>5 DEF IsSleepQ
    <3> QED BY <3>1, <3>2, <3>3, <1>1, <1>3
  <2> QED BY <2>1, <1>1, <1>3 DEF IsSleepQ
<1>8. Sleeper(a) = Sleeper(q) \cup {t}
  <2>1. ASSUME NEW i \in 1 .. Len(a) PROVE a[i].tcb \in Sleeper(q) \cup {t}
    <3>1. CASE i <= p BY <3>1, <1>5 DEF Sleeper
    <3>2. CASE i = p + 1 BY <3>2, <1>5, <1>6
    <3>3. CASE i > p + 1
      <4>1. i - 1 \in 1 .. Len(q) /\ a[i].tcb = q[i - 1].tcb
        BY <3>3, <1>5
      <4> QED BY <4>1 DEF Sleeper
    <3> QED BY <3>1, <3>2, <3>3, <1>1, <1>3
  <2>2. ASSUME NEW i \in 1 .. Len(q) PROVE q[i].tcb \in Sleeper(a)
    <3>1. CASE i <= p
      <4>1. i \in 1 .. Len(a) /\ a[i] = q[i] BY <3>1, <1>1, <1>3, <1>5
      <4> QED BY <4>1 DEF Sleeper
    <3>2. CASE i > p
      <4> DEFINE j == i + 1
      <4>1. j \in 1 .. Len(a) /\ j > p + 1 /\ j - 1 = i BY <3>2, <1>1, <1>3
      <4> HIDE DEF j
      <4>2. a[j].tcb = q[i].tcb BY <4>1, <1>5
      <4> QED BY <4>1, <4>2 DEF Sleeper
    <3> QED BY <3>1, <3>2, <1>1
  <2>3. t \in Sleeper(a)
    <3>1. p + 1 \in 1 .. Len(a) BY <1>1, <1>3
    <3>2. a[p + 1] = node BY <3>1, <1>5
    <3> QED BY <3>1, <3>2, <1>6 DEF Sleeper
  <2> QED BY <2>1, <2>2, <2>3 DEF Sleeper
<1>9. ASSUME SleepOnce(q), t \notin Sleeper(q)
      PROVE  SleepOnce(a)
  <2> DEFINE Old(i) == IF i <= p THEN i ELSE i - 1
  <2>1. ASSUME NEW i \in 1 .. Len(a), i # p + 1
        PROVE  Old(i) \in 1 .. Len(q) /\ a[i].tcb = q[Old(i)].tcb
    <3>1. CASE i <= p BY <3>1, <1>5
    <3>2. CASE i > p + 1
      <4>1. Old(i) = i - 1 BY <3>2, <1>1, <1>3
      <4> QED BY <3>2, <4>1, <1>5
    <3> QED BY <2>1, <3>1, <3>2, <1>1, <1>3
  <2> SUFFICES ASSUME NEW i \in 1 .. Len(a), NEW j \in 1 .. Len(a), a[i].tcb = a[j].tcb
               PROVE  i = j
    BY DEF SleepOnce
  <2>2. CASE i # p + 1 /\ j # p + 1
    <3>1. Old(i) = Old(j)
      <4> HIDE DEF Old
      <4> QED BY <2>1, <2>2, <1>9 DEF SleepOnce
    <3> QED BY <3>1, <2>2, <1>1, <1>3
  <2>3. CASE i = p + 1 /\ j # p + 1
    <3>1. a[i].tcb = t BY <2>3, <1>5, <1>6
    <3>2. a[j].tcb \in Sleeper(q)
      <4> HIDE DEF Old
      <4> QED BY <2>1, <2>3 DEF Sleeper
    <3> QED BY <3>1, <3>2, <1>9
  <2>4. CASE i # p + 1 /\ j = p + 1
    <3>1. a[j].tcb = t BY <2>4, <1>5, <1>6
    <3>2. a[i].tcb \in Sleeper(q)
      <4> HIDE DEF Old
      <4> QED BY <2>1, <2>4 DEF Sleeper
    <3> QED BY <3>1, <3>2, <1>9
  <2> QED BY <2>2, <2>3, <2>4
<1> QED BY <1>7, <1>8, <1>9 DEF a

(* A tick changes no node's thread.                                        *)
LEMMA CountDownSleeper ==
  ASSUME NEW q, IsSleepQ(q)
  PROVE  /\ IsSleepQ(CountDown(q))
         /\ Len(CountDown(q)) = Len(q)
         /\ \A i \in 1 .. Len(q) : CountDown(q)[i].tcb = q[i].tcb
<1>1. CASE q = <<>>
  BY <1>1 DEF CountDown
<1>2. CASE q # <<>>
  <2> DEFINE d == CountDown(q)
             n == Len(q)
  <2>1. n \in Nat /\ q = [i \in 1 .. n |-> q[i]]
    BY DEF IsSleepQ
  <2>2. d = [q EXCEPT ![1].time = @ - 1]
    BY <1>2 DEF CountDown
  <2> HIDE DEF d, n
  <2>3. d = [i \in 1 .. n |-> d[i]]
    BY <2>1, <2>2
  <2>4. Len(d) = n
    BY <2>1, <2>3, LenOfFunction
  <2>5. ASSUME NEW i \in 1 .. n
        PROVE  d[i] = [tcb |-> d[i].tcb, time |-> d[i].time] /\ d[i].tcb = q[i].tcb
    <3> DEFINE old == q[i]
    <3>1. old = [tcb |-> old.tcb, time |-> old.time]
      BY DEF IsSleepQ, n
    <3>2. CASE i = 1
      <4>1. d[i] = [old EXCEPT !.time = @ - 1]
        BY <2>1, <2>2, <3>2
      <4> HIDE DEF old
      <4>2. d[i] = [tcb |-> old.tcb, time |-> old.time - 1]
        BY <4>1, <3>1
      <4> QED BY <4>2 DEF old
    <3>3. CASE i # 1
      <4>1. d[i] = old
        BY <2>1, <2>2, <3>3
      <4> QED BY <4>1, <3>1
    <3> QED BY <3>2, <3>3
  <2> QED BY <2>1, <2>3, <2>4, <2>5 DEF IsSleepQ, d, n
<1> QED BY <1>1, <1>2

(* The end of a queue, behind its first m nodes.                           *)
LEMMA Remainder ==
  ASSUME NEW d, NEW n \in Nat, NEW m \in 0 .. n
  PROVE  SubSeq(d, m + 1, n) = [i \in 1 .. n - m |-> d[m + i]]
<1>1. SubSeq(d, m + 1, n) = [i \in 1 .. (1 + n - (m + 1)) |-> d[i + (m + 1) - 1]]
  BY SMTT(30)
<1>2. 1 + n - (m + 1) = n - m
  OBVIOUS
<1>3. \A i \in 1 .. n - m : i + (m + 1) - 1 = m + i
  OBVIOUS
<1> QED BY <1>1, <1>2, <1>3

(* At a tick some sleepers wake up and the others sleep on.                *)
LEMMA TickSleeper ==
  ASSUME NEW q, IsSleepQ(q)
  PROVE  /\ Woken(q) \in Seq(Threads)
         /\ IsSleepQ(StillAsleep(q))
         /\ Elements(Woken(q)) \cup Sleeper(StillAsleep(q)) = Sleeper(q)
         /\ SleepOnce(q) => /\ Distinct(Woken(q))
                            /\ SleepOnce(StillAsleep(q))
                            /\ Elements(Woken(q)) \cap Sleeper(StillAsleep(q)) = {}
<1> DEFINE d == CountDown(q)
           n == Len(d)
           m == Expired(d)
           w == Woken(q)
           s == StillAsleep(q)
<1>1. /\ IsSleepQ(d)
      /\ n = Len(q)
      /\ \A i \in 1 .. n : d[i].tcb = q[i].tcb
      /\ n \in Nat
      /\ m \in 0 .. n
  BY CountDownSleeper, ExpiredInQueue DEF IsSleepQ
<1>2. w = [i \in 1 .. m |-> d[i].tcb]
  BY DEF Woken
<1>3. s = [i \in 1 .. n - m |-> d[m + i]]
  <2>1. s = SubSeq(d, m + 1, n)
    BY DEF StillAsleep
  <2> QED BY <2>1, <1>1, Remainder
<1> HIDE DEF d, n, m, w, s
<1>4. Len(w) = m /\ w \in Seq(Threads)
  <2>1. \A i \in 1 .. m : d[i].tcb \in Threads
    BY <1>1 DEF IsSleepQ, n
  <2>2. m \in Nat /\ w \in [1 .. m -> Threads]
    BY <1>1, <1>2, <2>1
  <2>3. w \in Seq(Threads)
    BY <2>2, SeqDef
  <2>4. w = [i \in 1 .. m |-> w[i]]
    BY <1>2
  <2> QED BY <2>2, <2>3, <2>4, LenOfFunction
<1>5. Len(s) = n - m /\ s = [i \in 1 .. Len(s) |-> s[i]]
  <2>1. n - m \in Nat /\ s = [i \in 1 .. n - m |-> s[i]]
    BY <1>1, <1>3
  <2>2. Len(s) = n - m
    BY <2>1, LenOfFunction
  <2> QED BY <2>1, <2>2
<1>6. ASSUME NEW i \in 1 .. m PROVE i \in 1 .. n /\ w[i] = d[i].tcb
  BY <1>1, <1>2
<1>7. ASSUME NEW i \in 1 .. n - m PROVE m + i \in 1 .. n /\ s[i] = d[m + i]
  BY <1>1, <1>3
<1>8. IsSleepQ(s)
  <2>1. ASSUME NEW i \in 1 .. n - m
        PROVE  s[i] = [tcb |-> s[i].tcb, time |-> s[i].time] /\ s[i].tcb \in Threads
    BY <1>1, <1>7 DEF IsSleepQ, n
  <2> QED BY <1>1, <1>5, <2>1 DEF IsSleepQ
<1>9. Elements(w) \cup Sleeper(s) = Sleeper(q)
  <2>1. Sleeper(q) = {d[i].tcb : i \in 1 .. n}
    BY <1>1 DEF Sleeper
  <2>2. ASSUME NEW i \in 1 .. n PROVE d[i].tcb \in Elements(w) \cup Sleeper(s)
    <3>1. CASE i <= m
      <4>1. i \in 1 .. m BY <1>1, <3>1
      <4> QED BY <4>1, <1>4, <1>6 DEF Elements
    <3>2. CASE i > m
      <4> DEFINE j == i - m
      <4>1. j \in 1 .. n - m /\ m + j = i BY <1>1, <3>2
      <4> HIDE DEF j
      <4>2. s[j].tcb = d[i].tcb BY <4>1, <1>7
      <4> QED BY <4>1, <4>2, <1>5 DEF Sleeper
    <3> QED BY <3>1, <3>2, <1>1
  <2>3. Elements(w) \subseteq {d[i].tcb : i \in 1 .. n}
    BY <1>4, <1>6 DEF Elements
  <2>4. Sleeper(s) \subseteq {d[i].tcb : i \in 1 .. n}
    <3> SUFFICES ASSUME NEW i \in 1 .. n - m
                 PROVE  s[i].tcb \in {d[j].tcb : j \in 1 .. n}
      BY <1>5 DEF Sleeper
    <3> QED BY <1>7
  <2> QED BY <2>1, <2>2, <2>3, <2>4
<1>10. ASSUME SleepOnce(q)
       PROVE  /\ Distinct(w)
              /\ SleepOnce(s)
              /\ Elements(w) \cap Sleeper(s) = {}
  <2>1. \A i, j \in 1 .. n : d[i].tcb = d[j].tcb => i = j
    BY <1>1, <1>10 DEF SleepOnce
  <2>2. Distinct(w)
    BY <1>4, <1>6, <2>1 DEF Distinct
  <2>3. SleepOnce(s)
    <3> SUFFICES ASSUME NEW i \in 1 .. n - m, NEW j \in 1 .. n - m, s[i].tcb = s[j].tcb
                 PROVE  i = j
      BY <1>5 DEF SleepOnce
    <3>1. m + i = m + j BY <1>7, <2>1
    <3> QED BY <3>1, <1>1
  <2>4. Elements(w) \cap Sleeper(s) = {}
    <3> SUFFICES ASSUME NEW i \in 1 .. m, NEW j \in 1 .. n - m, w[i] = s[j].tcb
                 PROVE  FALSE
      BY <1>4, <1>5 DEF Elements, Sleeper
    <3>1. i = m + j BY <1>6, <1>7, <2>1
    <3> QED BY <3>1, <1>1
  <2> QED BY <2>2, <2>3, <2>4
<1> QED BY <1>4, <1>8, <1>9, <1>10 DEF w, s

-----------------------------------------------------------------------------
(* The blocks of threads.                                                  *)
TCBs == [started : BOOLEAN, finished : BOOLEAN, blocked : BOOLEAN,
         asleep : BOOLEAN, close : {0, 1}, holder : Sems \cup {None}]

(* Once a thread does not wait any more, only the close of its semaphore   *)
(* leaves it marked as blocked; and that never happens to idle, which can  *)
(* therefore always be put back into the list.                             *)
BlockedByClose ==
  /\ \A t \in Threads : tcb[t].blocked /\ tcb[t].holder = None => tcb[t].close = 1
  /\ tcb[idle].close = 0

(* Only a thread that was started comes to its end.                        *)
FinishedRan == \A t \in Threads : tcb[t].finished => tcb[t].started

(* The inductive invariant.  The flags tell the place of each thread, so   *)
(* what a step does to the flags and to the queues must agree; the count   *)
(* of a semaphore says that the thread a signal takes from its queue is    *)
(* there; idle in its place keeps the list from being found empty.         *)
IInv ==
  /\ TypeOK
  /\ IsSleepQ(sleepQ)
  /\ QueueLengths
  /\ OnePlace
  /\ FlagsTellPlace
  /\ LostOnlyByClose
  /\ FreeIsConstructed
  /\ IdleAvailable
  /\ BlockedByClose
  /\ FinishedRan
  /\ main \in created

(* The threads that the list holds or that run.                            *)
Active == {running} \cup Elements(ready)

(* A context switch: who runs comes from the list, and the thread that ran *)
(* goes to it or, if its flags say so, leaves the active threads.          *)
LEMMA SwitchActive ==
  ASSUME NEW r \in Seq(Threads), NEW b, Switch(r, b),
         running \in Threads, running \notin Elements(r), Distinct(r),
         idle \in Elements(r) \cup {running},
         running = idle => MayRun(b[idle])
  PROVE  /\ tcb' = b
         /\ running' \in Threads
         /\ ready' \in Seq(Threads)
         /\ Distinct(ready')
         /\ running' \notin Elements(ready')
         /\ Active' = Elements(r) \cup {t \in {running} : MayRun(b[t])}
         /\ idle \in Active'
<1> DEFINE list == IF MayRun(b[running]) THEN Append(r, running) ELSE r
<1>1. /\ list \in Seq(Threads)
      /\ Distinct(list)
      /\ Elements(list) = Elements(r) \cup {t \in {running} : MayRun(b[t])}
      /\ idle \in Elements(list)
  <2>1. CASE MayRun(b[running])
    <3>1. list = Append(r, running) BY <2>1
    <3> HIDE DEF list
    <3> QED BY <2>1, <3>1, AppendElements
  <2>2. CASE ~MayRun(b[running])
    <3>1. list = r BY <2>2
    <3> HIDE DEF list
    <3> QED BY <2>2, <3>1
  <2> QED BY <2>1, <2>2
<1>2. list # <<>>
  <2> HIDE DEF list
  <2> QED BY <1>1, EmptySeq, LenProperties DEF Elements
<1>3. tcb' = b /\ running' = Head(list) /\ ready' = Tail(list)
  BY <1>2 DEF Switch
<1> HIDE DEF list
<1>4. /\ Head(list) \in Threads
      /\ Tail(list) \in Seq(Threads)
      /\ Elements(list) = Elements(Tail(list)) \cup {Head(list)}
      /\ Distinct(Tail(list)) /\ Head(list) \notin Elements(Tail(list))
  BY <1>1, <1>2, TailElements
<1> QED BY <1>1, <1>3, <1>4 DEF Active

(* Idle is one of the threads that main starts.                            *)
LEMMA IdleIsThread == idle \in Threads \ {main}
BY ThreadsAssumption

(* Idle may always be put back into the list when it runs.                 *)
LEMMA IdleMayRun ==
  ASSUME IInv, running = idle
  PROVE  MayRun(tcb[idle])
BY DEF IInv, TypeOK, OnePlace, FlagsTellPlace, BlockedByClose, MayRun, Placed

(* THREAD_DISPATCH keeps the invariant.                                    *)
LEMMA DispatchKeeps == IInv /\ dispatch => IInv'
<1> SUFFICES ASSUME IInv, dispatch PROVE IInv'
  OBVIOUS
<1>1. /\ tcb' = tcb
      /\ running' \in Threads
      /\ ready' \in Seq(Threads)
      /\ Distinct(ready')
      /\ running' \notin Elements(ready')
      /\ Active' = Elements(ready) \cup {t \in {running} : MayRun(tcb[t])}
      /\ idle \in Active'
  BY SwitchActive, IdleMayRun DEF IInv, TypeOK, OnePlace, IdleAvailable, dispatch
<1>2. /\ UNCHANGED <<created, sem, open, sleepQ>>
      /\ timeSliceCounter' = 0
  BY DEF dispatch
<1>3. TypeOK'
  BY <1>1, <1>2, ThreadsAssumption DEF IInv, TypeOK, Sleeper
<1>4. IsSleepQ(sleepQ)' /\ QueueLengths' /\ FreeIsConstructed' /\ (main \in created)'
  BY <1>1, <1>2 DEF IInv, IsSleepQ, QueueLengths, FreeIsConstructed
<1>9. BlockedByClose' /\ FinishedRan'
  BY <1>1, <1>2 DEF IInv, BlockedByClose, FinishedRan
<1>5. OnePlace'
  BY <1>1, <1>2 DEF IInv, OnePlace, Active, Sleepers, Waiters
<1>6. FlagsTellPlace'
  BY <1>1, <1>2 DEF IInv, FlagsTellPlace, Placed, Active, Sleepers, Waiters
<1>7. LostOnlyByClose'
  BY <1>1, <1>2 DEF IInv, LostOnlyByClose, FlagsTellPlace, BlockedByClose, Placed, Active, Sleepers, Waiters, TypeOK, MayRun
<1>8. IdleAvailable'
  BY <1>1 DEF Active, IdleAvailable
<1> QED BY <1>3, <1>4, <1>5, <1>6, <1>7, <1>8, <1>9 DEF IInv

(* THREAD_CREATE and TCB_CREATE keep the invariant: a block that is not    *)
(* given out is in no place.                                               *)
LEMMA CreateKeeps ==
  ASSUME NEW t \in Threads, NEW start \in BOOLEAN
  PROVE  IInv /\ createThread(t, start) => IInv'
<1> SUFFICES ASSUME IInv, createThread(t, start) PROVE IInv'
  OBVIOUS
<1>1. ~Placed(t) /\ tcb[t] = NewTCB /\ t # main
  BY DEF IInv, FlagsTellPlace, FreeIsConstructed, createThread
<1>2. /\ ready' \in Seq(Threads)
      /\ Distinct(ready')
      /\ Elements(ready') = Elements(ready) \cup {u \in {t} : start}
  <2>1. CASE start
    BY <2>1, <1>1, AppendElements DEF createThread, IInv, TypeOK, OnePlace, Placed
  <2>2. CASE ~start
    BY <2>2 DEF createThread, IInv, TypeOK, OnePlace
  <2> QED BY <2>1, <2>2
<1>3. /\ UNCHANGED <<running, sem, open, sleepQ, timeSliceCounter>>
      /\ created' = created \cup {t}
  BY DEF createThread
<1>4. /\ tcb' \in [Threads -> TCBs]
      /\ \A u \in Threads \ {t} : tcb'[u] = tcb[u]
      /\ tcb'[t].started <=> start
      /\ ~tcb'[t].finished /\ ~tcb'[t].blocked /\ ~tcb'[t].asleep
      /\ tcb'[t].close = 0
      /\ tcb'[t].holder = None
  <2>1. tcb \in [Threads -> TCBs] /\ tcb[t] = NewTCB
    BY <1>1 DEF IInv, TypeOK, TCBs
  <2>2. CASE start
    <3> DEFINE new == [NewTCB EXCEPT !.started = TRUE]
    <3>1. tcb' = [tcb EXCEPT ![t] = new]
      BY <2>1, <2>2 DEF createThread
    <3>2. /\ new \in TCBs
          /\ new.started
          /\ ~new.finished /\ ~new.blocked /\ ~new.asleep
          /\ new.close = 0
          /\ new.holder = None
      BY DEF NewTCB, TCBs
    <3> HIDE DEF new
    <3> QED BY <2>1, <2>2, <3>1, <3>2
  <2>3. CASE ~start
    BY <2>1, <2>3 DEF createThread, NewTCB, TCBs
  <2> QED BY <2>2, <2>3
<1>6. TypeOK'
  BY <1>2, <1>3, <1>4 DEF IInv, TypeOK, Sleeper, TCBs
<1>7. IsSleepQ(sleepQ)' /\ QueueLengths' /\ (main \in created)'
  BY <1>3 DEF IInv, IsSleepQ, QueueLengths
<1>8. FreeIsConstructed'
  BY <1>3, <1>4 DEF IInv, FreeIsConstructed
<1>9. OnePlace'
  BY <1>1, <1>2, <1>3 DEF IInv, OnePlace, Placed, Sleepers, Waiters
<1>10. FlagsTellPlace'
  BY <1>1, <1>2, <1>3, <1>4, ThreadsAssumption
     DEF IInv, TypeOK, FlagsTellPlace, Placed, Sleepers, Waiters
<1>11. LostOnlyByClose'
  BY <1>2, <1>3, <1>4 DEF IInv, TypeOK, LostOnlyByClose, Placed, Sleepers, Waiters
<1>12. IdleAvailable'
  BY <1>2, <1>3 DEF IInv, IdleAvailable
<1>13. BlockedByClose' /\ FinishedRan'
  BY <1>4, IdleIsThread DEF IInv, BlockedByClose, FinishedRan
<1> QED BY <1>6, <1>7, <1>8, <1>9, <1>10, <1>11, <1>12, <1>13 DEF IInv

(* THREAD_START keeps the invariant: a thread that was not started is in   *)
(* no place.                                                               *)
LEMMA StartKeeps ==
  ASSUME NEW t \in Threads
  PROVE  IInv /\ startThread(t) => IInv'
<1> SUFFICES ASSUME IInv, startThread(t) PROVE IInv'
  OBVIOUS
<1>1. ~Placed(t) /\ t \in created \ {main}
  BY DEF IInv, FlagsTellPlace, startThread
<1>2. /\ ready' \in Seq(Threads)
      /\ Distinct(ready')
      /\ Elements(ready') = Elements(ready) \cup {t}
  BY <1>1, AppendElements DEF startThread, IInv, TypeOK, OnePlace, Placed
<1>3. UNCHANGED <<running, created, sem, open, sleepQ, timeSliceCounter>>
  BY DEF startThread
<1>4. /\ tcb' \in [Threads -> TCBs]
      /\ \A u \in Threads \ {t} : tcb'[u] = tcb[u]
      /\ tcb'[t].started
      /\ tcb'[t].finished <=> tcb[t].finished
      /\ tcb'[t].blocked <=> tcb[t].blocked
      /\ tcb'[t].asleep <=> tcb[t].asleep
      /\ tcb'[t].close = tcb[t].close
      /\ tcb'[t].holder = tcb[t].holder
  <2> DEFINE old == tcb[t]
             new == [old EXCEPT !.started = TRUE]
  <2>1. tcb \in [Threads -> TCBs] /\ old \in TCBs
    BY DEF IInv, TypeOK, TCBs
  <2>2. tcb' = [tcb EXCEPT ![t] = new]
    BY DEF startThread
  <2> HIDE DEF old
  <2>3. /\ new \in TCBs
        /\ new.started
        /\ new.finished <=> old.finished
        /\ new.blocked <=> old.blocked
        /\ new.asleep <=> old.asleep
        /\ new.close = old.close
        /\ new.holder = old.holder
    BY <2>1 DEF TCBs
  <2> HIDE DEF new
  <2> QED BY <2>1, <2>2, <2>3 DEF old
<1>5. ~tcb[t].finished
  BY DEF IInv, FinishedRan, startThread
<1>6. TypeOK'
  BY <1>2, <1>3, <1>4 DEF IInv, TypeOK, Sleeper, TCBs
<1>7. IsSleepQ(sleepQ)' /\ QueueLengths' /\ (main \in created)'
  BY <1>3 DEF IInv, IsSleepQ, QueueLengths
<1>8. FreeIsConstructed'
  BY <1>1, <1>3, <1>4 DEF IInv, FreeIsConstructed
<1>9. OnePlace'
  BY <1>1, <1>2, <1>3 DEF IInv, OnePlace, Placed, Sleepers, Waiters
<1>10. FlagsTellPlace'
  BY <1>1, <1>2, <1>3, <1>4, <1>5
     DEF IInv, TypeOK, FlagsTellPlace, Placed, Sleepers, Waiters
<1>11. LostOnlyByClose'
  BY <1>2, <1>3, <1>4 DEF IInv, TypeOK, LostOnlyByClose, Placed, Sleepers, Waiters
<1>12. IdleAvailable'
  BY <1>2, <1>3 DEF IInv, IdleAvailable
<1>13. BlockedByClose' /\ FinishedRan'
  BY <1>4, IdleIsThread DEF IInv, BlockedByClose, FinishedRan
<1> QED BY <1>6, <1>7, <1>8, <1>9, <1>10, <1>11, <1>12, <1>13 DEF IInv

(* THREAD_EXIT keeps the invariant: the thread leaves its place.           *)
LEMMA ExitKeeps == IInv /\ exit => IInv'
<1> SUFFICES ASSUME IInv, exit PROVE IInv'
  OBVIOUS
<1> DEFINE t   == running
           old == tcb[t]
           new == [old EXCEPT !.finished = TRUE]
           b   == [tcb EXCEPT ![t] = new]
<1>1. /\ tcb \in [Threads -> TCBs]
      /\ t \in Threads \ {main, idle}
      /\ old \in TCBs
      /\ Placed(t)
  BY DEF IInv, TypeOK, TCBs, exit, InProgram, Placed
<1>2. Switch(ready, b)
  BY DEF exit
<1>3. /\ new \in TCBs
      /\ new.finished
      /\ new.started <=> old.started
      /\ new.blocked <=> old.blocked
      /\ new.asleep <=> old.asleep
      /\ new.close = old.close
      /\ new.holder = old.holder
  <2> HIDE DEF old
  <2> QED BY <1>1 DEF TCBs
<1> HIDE DEF new
<1>4. /\ tcb' = b
      /\ running' \in Threads
      /\ ready' \in Seq(Threads)
      /\ Distinct(ready')
      /\ running' \notin Elements(ready')
      /\ Active' = Elements(ready) \cup {u \in {running} : MayRun(b[u])}
      /\ idle \in Active'
  <2> HIDE DEF b
  <2> QED BY <1>1, <1>2, SwitchActive DEF IInv, TypeOK, OnePlace, IdleAvailable
<1>5. /\ b \in [Threads -> TCBs]
      /\ b[t] = new
      /\ \A u \in Threads \ {t} : b[u] = tcb[u]
  BY <1>1, <1>3
<1>6. UNCHANGED <<created, sem, open, sleepQ, timeSliceCounter>>
  BY DEF exit
<1>7. Active' = Elements(ready)
  BY <1>3, <1>4, <1>5 DEF MayRun
<1> HIDE DEF b, t
<1>8. TypeOK'
  BY <1>4, <1>5, <1>6 DEF IInv, TypeOK, Sleeper, TCBs
<1>9. IsSleepQ(sleepQ)' /\ QueueLengths' /\ (main \in created)'
  BY <1>6 DEF IInv, IsSleepQ, QueueLengths
<1>10. FreeIsConstructed'
  BY <1>1, <1>4, <1>5, <1>6 DEF IInv, FreeIsConstructed, FlagsTellPlace
<1>11. OnePlace'
  BY <1>4, <1>6, <1>7 DEF IInv, OnePlace, Active, Sleepers, Waiters
<1>12. FlagsTellPlace'
  <2>1. \A u \in Threads : Placed(u)' => u # t /\ Placed(u)
    BY <1>1, <1>6, <1>7 DEF IInv, OnePlace, Placed, Active, Sleepers, Waiters, t
  <2> QED BY <1>1, <1>3, <1>4, <1>5, <1>6, <2>1
     DEF IInv, TypeOK, FlagsTellPlace, Sleepers, Waiters
<1>13. LostOnlyByClose'
  BY ZenonT(60), <1>3, <1>4, <1>5, <1>6, <1>7
     DEF IInv, TypeOK, LostOnlyByClose, Placed, Active, Sleepers, Waiters, t
<1>14. IdleAvailable'
  BY <1>4 DEF Active, IdleAvailable
<1>15. BlockedByClose' /\ FinishedRan'
  <2>1. old.started
    BY <1>1 DEF IInv, FlagsTellPlace
  <2> QED BY <2>1, <1>3, <1>4, <1>5, IdleIsThread DEF IInv, BlockedByClose, FinishedRan
<1> QED BY <1>8, <1>9, <1>10, <1>11, <1>12, <1>13, <1>14, <1>15 DEF IInv

(* THREAD_DESTROY keeps the invariant: the thread is in no place, and its  *)
(* block is constructed anew.                                              *)
LEMMA DestroyKeeps ==
  ASSUME NEW t \in Threads
  PROVE  IInv /\ destroyThread(t) => IInv'
<1> SUFFICES ASSUME IInv, destroyThread(t) PROVE IInv'
  OBVIOUS
<1>1. ~Placed(t) /\ t # main /\ t # idle
  BY DEF IInv, FlagsTellPlace, destroyThread
<1>2. UNCHANGED <<running, ready, sem, open, sleepQ, timeSliceCounter>>
  BY DEF destroyThread
<1>3. created' = created \ {t} /\ main \in created'
  BY <1>1 DEF IInv, destroyThread
<1>4. /\ tcb' \in [Threads -> TCBs]
      /\ \A u \in Threads \ {t} : tcb'[u] = tcb[u]
      /\ tcb'[t] = NewTCB
  <2>1. NewTCB \in TCBs
    BY DEF NewTCB, TCBs
  <2>2. tcb \in [Threads -> TCBs]
    BY DEF IInv, TypeOK, TCBs
  <2> QED BY <2>1, <2>2 DEF destroyThread, Freed
<1>5. /\ ~NewTCB.finished /\ ~NewTCB.blocked /\ ~NewTCB.asleep
      /\ NewTCB.close = 0 /\ NewTCB.holder = None
  BY DEF NewTCB
<1>6. TypeOK'
  BY <1>2, <1>3, <1>4 DEF IInv, TypeOK, Sleeper, TCBs
<1>7. IsSleepQ(sleepQ)' /\ QueueLengths' /\ OnePlace' /\ IdleAvailable'
  BY <1>2 DEF IInv, IsSleepQ, QueueLengths, OnePlace, Sleepers, Waiters, IdleAvailable
<1>8. FreeIsConstructed'
  BY <1>2, <1>3, <1>4 DEF IInv, FreeIsConstructed
<1>9. FlagsTellPlace'
  BY <1>1, <1>2, <1>3, <1>4, <1>5, ThreadsAssumption
     DEF IInv, TypeOK, FlagsTellPlace, Placed, Sleepers, Waiters
<1>10. LostOnlyByClose'
  BY <1>2, <1>3, <1>4 DEF IInv, TypeOK, LostOnlyByClose, Placed, Sleepers, Waiters
<1>11. BlockedByClose' /\ FinishedRan'
  BY <1>1, <1>4, <1>5, IdleIsThread DEF IInv, BlockedByClose, FinishedRan
<1> QED BY <1>3, <1>6, <1>7, <1>8, <1>9, <1>10, <1>11 DEF IInv

(* SEM_OPEN keeps the invariant.                                           *)
LEMMA OpenKeeps ==
  ASSUME NEW s \in Sems, NEW init \in 0 .. MaxVal
  PROVE  IInv /\ semOpen(s, init) => IInv'
<1> SUFFICES ASSUME IInv, semOpen(s, init) PROVE IInv'
  OBVIOUS
<1>1. UNCHANGED <<running, ready, tcb, created, sleepQ, timeSliceCounter>>
  BY DEF semOpen
<1>2. /\ sem[s].queue = <<>>
      /\ \A r \in Sems : Waiters(r)' = Waiters(r)
      /\ sem' \in [Sems -> [val : Int, queue : Seq(Threads)]]
      /\ \A r \in Sems \ {s} : sem'[r] = sem[r]
      /\ sem'[s].val = init /\ sem'[s].queue = <<>>
      /\ init >= 0 /\ init \in Int
  BY ThreadsAssumption DEF semOpen, IInv, TypeOK, FreeIsConstructed, NewSem, Waiters
<1>3. TypeOK'
  BY <1>1, <1>2 DEF IInv, TypeOK, Sleeper, semOpen
<1>4. QueueLengths'
  <2> SUFFICES ASSUME NEW r \in Sems
               PROVE  Len(sem'[r].queue) = IF sem'[r].val < 0 THEN -sem'[r].val ELSE 0
    BY DEF QueueLengths
  <2>1. CASE r = s
    <3>1. sem'[r].val = init /\ Len(sem'[r].queue) = 0
      BY <2>1, <1>2, EmptySeq
    <3> QED BY <3>1, <1>2
  <2>2. CASE r # s
    BY <2>2, <1>2 DEF IInv, QueueLengths
  <2> QED BY <2>1, <2>2
<1>5. IsSleepQ(sleepQ)' /\ IdleAvailable' /\ BlockedByClose' /\ FinishedRan' /\ (main \in created)'
  BY <1>1 DEF IInv, IsSleepQ, IdleAvailable, BlockedByClose, FinishedRan
<1>6. OnePlace' /\ FlagsTellPlace' /\ LostOnlyByClose'
  <2>1. \A r \in Sems : Distinct(sem[r].queue)' 
    BY SMTT(30), <1>2 DEF IInv, OnePlace, Distinct
  <2> QED BY <1>1, <1>2, <2>1
        DEF IInv, OnePlace, FlagsTellPlace, LostOnlyByClose, Placed, Sleepers
<1>7. FreeIsConstructed'
  BY <1>1, <1>2 DEF IInv, FreeIsConstructed, semOpen
<1> QED BY <1>3, <1>4, <1>5, <1>6, <1>7 DEF IInv

(* The fields of a semaphore that get new values.                          *)
LEMMA SemFields ==
  ASSUME NEW S, NEW old \in [val : Int, queue : S], NEW v \in Int, NEW q \in S
  PROVE  [old EXCEPT !.val = v, !.queue = q] \in [val : Int, queue : S]
OBVIOUS

(* A semaphore whose queue is empty may take any value that is not below   *)
(* zero.                                                                   *)
LEMMA ValueKeeps ==
  ASSUME NEW s \in Sems, NEW v \in Int, IInv,
         sem[s].val >= 0, v >= 0, s \in open,
         sem' = [sem EXCEPT ![s] = [sem[s] EXCEPT !.val = v]],
         UNCHANGED <<running, ready, tcb, created, open, timeSliceCounter, sleepQ>>
  PROVE  IInv'
<1> DEFINE oldS == sem[s]
           newS == [oldS EXCEPT !.val = v]
<1>1. /\ oldS \in [val : Int, queue : Seq(Threads)]
      /\ Len(oldS.queue) = 0
  BY DEF IInv, TypeOK, QueueLengths
<1>2. /\ sem' \in [Sems -> [val : Int, queue : Seq(Threads)]]
      /\ \A r \in Sems : sem'[r].queue = sem[r].queue
      /\ \A r \in Sems \ {s} : sem'[r] = sem[r]
      /\ sem'[s].val = v
  <2>1. /\ newS \in [val : Int, queue : Seq(Threads)]
        /\ newS.val = v
        /\ newS.queue = oldS.queue
    BY <1>1
  <2>2. sem' = [sem EXCEPT ![s] = newS] /\ sem \in [Sems -> [val : Int, queue : Seq(Threads)]]
    BY DEF IInv, TypeOK
  <2> HIDE DEF newS
  <2> QED BY <2>1, <2>2
<1>3. TypeOK'
  BY <1>2 DEF IInv, TypeOK, Sleeper
<1>4. QueueLengths'
  <2> SUFFICES ASSUME NEW r \in Sems
               PROVE  Len(sem'[r].queue) = IF sem'[r].val < 0 THEN -sem'[r].val ELSE 0
    BY DEF QueueLengths
  <2>1. CASE r = s
    BY <2>1, <1>1, <1>2
  <2>2. CASE r # s
    BY <2>2, <1>2 DEF IInv, QueueLengths
  <2> QED BY <2>1, <2>2
<1>5. /\ \A r \in Sems : Waiters(r)' = Waiters(r) /\ Distinct(sem[r].queue)' = Distinct(sem[r].queue)
      /\ \A u \in Threads : Placed(u)' <=> Placed(u)
      /\ Sleepers' = Sleepers
  BY <1>2 DEF Waiters, Placed, Sleepers
<1>6. OnePlace'
  BY <1>2, <1>5 DEF IInv, OnePlace
<1>7. FlagsTellPlace' /\ LostOnlyByClose'
  BY <1>5 DEF IInv, TypeOK, FlagsTellPlace, LostOnlyByClose
<1>8. FreeIsConstructed'
  BY <1>2 DEF IInv, FreeIsConstructed
<1>9. /\ IdleAvailable' /\ BlockedByClose' /\ FinishedRan'
      /\ IsSleepQ(sleepQ)' /\ (main \in created)'
  BY DEF IInv, IdleAvailable, BlockedByClose, FinishedRan, IsSleepQ
<1> QED BY <1>3, <1>4, <1>6, <1>7, <1>8, <1>9 DEF IInv

(* SEM_WAIT keeps the invariant: either the value counts one down, or the  *)
(* running thread goes to the queue.                                       *)
LEMMA WaitKeeps ==
  ASSUME NEW s \in Sems
  PROVE  IInv /\ semWait(s) => IInv'
<1> SUFFICES ASSUME IInv, semWait(s) PROVE IInv'
  OBVIOUS
<1>1. /\ sem \in [Sems -> [val : Int, queue : Seq(Threads)]]
      /\ sem[s].val \in Int /\ sem[s].queue \in Seq(Threads)
      /\ tcb \in [Threads -> TCBs]
      /\ running \in Threads \ {main, idle}
      /\ s \in open
      /\ UNCHANGED <<created, open, sleepQ>>
  BY DEF IInv, TypeOK, TCBs, semWait, InProgram
<1>2. IsSleepQ(sleepQ)' /\ (main \in created)'
  BY <1>1 DEF IInv, IsSleepQ
<1>3. CASE Blocks(s)
  <2> DEFINE t   == running
             old == tcb[t]
             new == [old EXCEPT !.blocked = TRUE, !.holder = s]
             b   == [tcb EXCEPT ![t] = new]
  <2>1. /\ old \in TCBs
        /\ Placed(t) /\ old.started /\ ~old.finished
        /\ t \notin Sleepers /\ ~old.asleep
        /\ \A r \in Sems : t \notin Waiters(r)
    BY <1>1 DEF IInv, OnePlace, FlagsTellPlace, Placed
  <2>2. Switch(ready, b) /\ timeSliceCounter' = 0
    BY <1>1, <1>3 DEF semWait
  <2>3. /\ new \in TCBs
        /\ new.blocked
        /\ new.holder = s
        /\ new.started <=> old.started
        /\ new.finished <=> old.finished
        /\ new.asleep <=> old.asleep
        /\ new.close = old.close
    <3> HIDE DEF old
    <3> QED BY <2>1 DEF TCBs
  <2> HIDE DEF new
  <2>4. /\ tcb' = b
        /\ running' \in Threads
        /\ ready' \in Seq(Threads)
        /\ Distinct(ready')
        /\ running' \notin Elements(ready')
        /\ Active' = Elements(ready) \cup {u \in {running} : MayRun(b[u])}
        /\ idle \in Active'
    <3> HIDE DEF b
    <3> QED BY <1>1, <2>2, SwitchActive DEF IInv, TypeOK, OnePlace, IdleAvailable
  <2>5. /\ b \in [Threads -> TCBs]
        /\ b[t] = new
        /\ \A u \in Threads \ {t} : b[u] = tcb[u]
    BY <1>1, <2>3
  <2>6. Active' = Elements(ready)
    BY <2>3, <2>4, <2>5 DEF MayRun
  <2>7. /\ sem' \in [Sems -> [val : Int, queue : Seq(Threads)]]
        /\ \A r \in Sems \ {s} : sem'[r] = sem[r] /\ Waiters(r)' = Waiters(r)
        /\ sem'[s].val = sem[s].val - 1
        /\ Len(sem'[s].queue) = Len(sem[s].queue) + 1
        /\ Waiters(s)' = Waiters(s) \cup {t}
        /\ Distinct(sem'[s].queue)
    <3> DEFINE oldS == sem[s]
               newS == [oldS EXCEPT !.val = oldS.val - 1, !.queue = Append(oldS.queue, t)]
    <3>1. sem' = [sem EXCEPT ![s] = newS]
      BY <1>1, <1>3 DEF semWait
    <3>2. newS.val = oldS.val - 1 /\ newS.queue = Append(oldS.queue, t)
      BY <1>1
    <3>3. /\ Append(sem[s].queue, t) \in Seq(Threads)
          /\ Len(Append(sem[s].queue, t)) = Len(sem[s].queue) + 1
          /\ Elements(Append(sem[s].queue, t)) = Waiters(s) \cup {t}
          /\ Distinct(Append(sem[s].queue, t))
      BY <1>1, <2>1, AppendElements DEF IInv, OnePlace, Waiters
    <3>4. newS \in [val : Int, queue : Seq(Threads)]
      <4>1. /\ oldS \in [val : Int, queue : Seq(Threads)]
            /\ oldS.val - 1 \in Int
            /\ Append(oldS.queue, t) \in Seq(Threads)
        BY <1>1, <3>3
      <4> HIDE DEF oldS, t
      <4> QED BY <4>1, SemFields
    <3> HIDE DEF newS
    <3> QED BY <1>1, <3>1, <3>2, <3>3, <3>4 DEF Waiters
  <2> HIDE DEF b, t
  <2>8. TypeOK'
    BY <1>1, <2>2, <2>4, <2>5, <2>7, ThreadsAssumption DEF IInv, TypeOK, Sleeper, TCBs
  <2>9. QueueLengths'
    <3> SUFFICES ASSUME NEW r \in Sems
                 PROVE  Len(sem'[r].queue) = IF sem'[r].val < 0 THEN -sem'[r].val ELSE 0
      BY DEF QueueLengths
    <3>1. CASE r = s
      <4>1. Len(sem[s].queue) = IF sem[s].val < 0 THEN -sem[s].val ELSE 0
        BY DEF IInv, QueueLengths
      <4> QED BY <3>1, <4>1, <1>1, <1>3, <2>7 DEF Blocks
    <3>2. CASE r # s
      BY <3>2, <2>7 DEF IInv, QueueLengths
    <3> QED BY <3>1, <3>2
  <2>10. OnePlace'
    <3>1. t \notin Elements(ready) /\ t = running
      BY DEF IInv, OnePlace, t
    <3>2. ASSUME NEW r \in Sems
          PROVE  /\ Distinct(sem'[r].queue)
                 /\ Waiters(r)' \cap (Active' \cup Sleepers) = {}
                 /\ \A p \in Sems \ {r} : Waiters(r)' \cap Waiters(p)' = {}
      <4>1. CASE r = s
        BY <4>1, <3>1, <2>1, <2>6, <2>7 DEF IInv, OnePlace
      <4>2. CASE r # s
        BY SMTT(30), <4>2, <3>1, <2>1, <2>6, <2>7 DEF IInv, OnePlace
      <4> QED BY <4>1, <4>2
    <3>3. Sleepers' = Sleepers /\ Sleepers \cap Active' = {}
      BY <1>1, <2>6 DEF IInv, OnePlace, Sleepers
    <3> QED BY <1>1, <2>4, <3>2, <3>3 DEF IInv, OnePlace, Active
  <2>11. FlagsTellPlace'
    <3>1. \A u \in Threads : Placed(u)' => Placed(u)
      BY <1>1, <2>1, <2>6, <2>7 DEF Placed, Active, Sleepers
    <3>2. \A u \in Threads \ {t}, r \in Sems : u \in Waiters(r)' <=> u \in Waiters(r)
      BY <2>7
    <3>3. \A r \in Sems : t \in Waiters(r)' <=> r = s
      BY <2>1, <2>7
    <3>4. created' = created /\ Sleepers' = Sleepers
      BY <1>1 DEF Sleepers
    <3>5. ASSUME NEW u \in Threads, u # t
          PROVE  /\ \A r \in Sems : tcb'[u].holder = r <=> u \in Waiters(r)'
                 /\ tcb'[u].asleep <=> u \in Sleepers'
                 /\ tcb'[u].holder # None => tcb'[u].blocked
                 /\ Placed(u)' => u \in created' /\ ~tcb'[u].finished /\ (tcb'[u].started \/ u = main)
      <4>1. tcb'[u] = tcb[u]
        BY <2>4, <2>5, <3>5
      <4> QED BY <3>1, <3>2, <3>4, <3>5, <4>1 DEF IInv, FlagsTellPlace
    <3>6. ASSUME NEW u \in Threads, u = t
          PROVE  /\ \A r \in Sems : tcb'[u].holder = r <=> u \in Waiters(r)'
                 /\ tcb'[u].asleep <=> u \in Sleepers'
                 /\ tcb'[u].holder # None => tcb'[u].blocked
                 /\ Placed(u)' => u \in created' /\ ~tcb'[u].finished /\ (tcb'[u].started \/ u = main)
      <4>1. u \in created
        BY <1>1, <2>1, <3>6 DEF IInv, FlagsTellPlace
      <4> QED BY <2>1, <2>3, <2>4, <2>5, <3>3, <3>4, <3>6, <4>1
    <3> QED BY <3>5, <3>6 DEF FlagsTellPlace
  <2>12. LostOnlyByClose'
    <3>1. \A u \in Threads : Placed(u) => Placed(u)'
      BY <1>1, <2>6, <2>7 DEF Placed, Active, Sleepers, t
    <3> QED BY <1>1, <2>1, <2>4, <2>5, <3>1 DEF IInv, TypeOK, LostOnlyByClose
  <2>13. FreeIsConstructed'
    BY <1>1, <2>1, <2>4, <2>5, <2>7 DEF IInv, FreeIsConstructed, FlagsTellPlace
  <2>14. IdleAvailable'
    BY <2>4 DEF Active, IdleAvailable
  <2>15. BlockedByClose' /\ FinishedRan'
    <3>1. t \in Threads \ {idle} /\ s # None
      BY <1>1, ThreadsAssumption DEF t
    <3>2. \A u \in Threads \ {t} : tcb'[u] = tcb[u]
      BY <2>4, <2>5
    <3>3. /\ tcb'[t].holder = s /\ tcb'[t].close = tcb[t].close
          /\ tcb'[t].started
      BY <2>1, <2>3, <2>4, <2>5
    <3> QED BY <3>1, <3>2, <3>3, IdleIsThread DEF IInv, BlockedByClose, FinishedRan
  <2> QED BY <1>2, <2>8, <2>9, <2>10, <2>11, <2>12, <2>13, <2>14, <2>15 DEF IInv
<1>4. CASE ~Blocks(s)
  <2>1. /\ sem' = [sem EXCEPT ![s] = [sem[s] EXCEPT !.val = sem[s].val - 1]]
        /\ UNCHANGED <<running, ready, tcb, timeSliceCounter>>
    BY <1>1, <1>4 DEF semWait
  <2>2. sem[s].val - 1 \in Int /\ sem[s].val >= 0 /\ sem[s].val - 1 >= 0
    BY <1>1, <1>4 DEF Blocks
  <2> QED BY <1>1, <2>1, <2>2, ValueKeeps
<1> QED BY <1>3, <1>4

(* SEM_SIGNAL keeps the invariant: a value below zero counts a thread in   *)
(* the queue, so there is one to take out.                                 *)
LEMMA SignalKeeps ==
  ASSUME NEW s \in Sems
  PROVE  IInv /\ semSignal(s) => IInv'
<1> SUFFICES ASSUME IInv, semSignal(s) PROVE IInv'
  OBVIOUS
<1> DEFINE oldS == sem[s]
<1>1. /\ sem \in [Sems -> [val : Int, queue : Seq(Threads)]]
      /\ oldS \in [val : Int, queue : Seq(Threads)]
      /\ oldS.val \in Int /\ oldS.queue \in Seq(Threads)
      /\ tcb \in [Threads -> TCBs]
      /\ s \in open
      /\ UNCHANGED <<running, created, open, sleepQ, timeSliceCounter>>
      /\ Len(oldS.queue) = IF oldS.val < 0 THEN -oldS.val ELSE 0
      /\ oldS.val + 1 \in Int
  BY DEF IInv, TypeOK, TCBs, QueueLengths, semSignal
<1>2. IsSleepQ(sleepQ)' /\ (main \in created)'
  BY <1>1 DEF IInv, IsSleepQ
<1>3. CASE oldS.val < 0
  <2> PICK t : t = Head(oldS.queue)
    OBVIOUS
  <2> DEFINE old  == tcb[t]
             new  == Removed(old)
             newS == [oldS EXCEPT !.val = oldS.val + 1, !.queue = Tail(oldS.queue)]
  <2>1. /\ t \in Threads
        /\ Tail(oldS.queue) \in Seq(Threads)
        /\ Len(Tail(oldS.queue)) = Len(oldS.queue) - 1
        /\ Elements(oldS.queue) = Elements(Tail(oldS.queue)) \cup {t}
        /\ Distinct(Tail(oldS.queue)) /\ t \notin Elements(Tail(oldS.queue))
    <3>1. oldS.queue # <<>>
      BY <1>1, <1>3, EmptySeq
    <3>2. Distinct(oldS.queue)
      BY DEF IInv, OnePlace
    <3> QED BY <1>1, <3>1, <3>2, TailElements
  <2>2. t \in Waiters(s)
    BY <2>1 DEF Waiters
  <2>3. /\ old \in TCBs
        /\ Placed(t) /\ t \in created /\ ~old.finished /\ (old.started \/ t = main)
        /\ t # running /\ t \notin Elements(ready) /\ t \notin Sleepers /\ ~old.asleep
        /\ \A r \in Sems \ {s} : t \notin Waiters(r)
        /\ t # idle
    BY <1>1, <2>1, <2>2 DEF IInv, OnePlace, FlagsTellPlace, IdleAvailable, Placed
  <2>4. /\ ready' = Append(ready, t)
        /\ tcb' = [tcb EXCEPT ![t] = new]
        /\ sem' = [sem EXCEPT ![s] = newS]
    BY <1>1, <1>3 DEF semSignal
  <2>5. /\ new \in TCBs
        /\ ~new.blocked
        /\ new.holder = None
        /\ new.started <=> old.started
        /\ new.finished <=> old.finished
        /\ new.asleep <=> old.asleep
        /\ new.close = old.close
    <3> HIDE DEF old
    <3> QED BY <2>3 DEF TCBs, Removed
  <2> HIDE DEF new
  <2>6. /\ tcb' \in [Threads -> TCBs]
        /\ tcb'[t] = new
        /\ \A u \in Threads \ {t} : tcb'[u] = tcb[u]
    BY <1>1, <2>1, <2>4, <2>5
  <2>7. /\ ready' \in Seq(Threads)
        /\ Distinct(ready')
        /\ Elements(ready') = Elements(ready) \cup {t}
    BY <2>1, <2>3, <2>4, AppendElements DEF IInv, TypeOK, OnePlace
  <2>8. /\ sem' \in [Sems -> [val : Int, queue : Seq(Threads)]]
        /\ \A r \in Sems \ {s} : sem'[r] = sem[r] /\ Waiters(r)' = Waiters(r)
        /\ sem'[s].val = sem[s].val + 1
        /\ Len(sem'[s].queue) = Len(sem[s].queue) - 1
        /\ Waiters(s) = Waiters(s)' \cup {t} /\ t \notin Waiters(s)'
        /\ Distinct(sem'[s].queue)
    <3>1. newS.val = oldS.val + 1 /\ newS.queue = Tail(oldS.queue)
      BY <1>1
    <3>2. newS \in [val : Int, queue : Seq(Threads)]
      <4> HIDE DEF oldS
      <4> QED BY <1>1, <2>1, SemFields
    <3> HIDE DEF newS
    <3> QED BY <1>1, <2>1, <2>4, <3>1, <3>2 DEF Waiters
  <2>9. TypeOK'
    BY SMTT(30), <1>1, <2>6, <2>7, <2>8 DEF IInv, TypeOK, Sleeper, TCBs
  <2>10. QueueLengths'
    <3> SUFFICES ASSUME NEW r \in Sems
                 PROVE  Len(sem'[r].queue) = IF sem'[r].val < 0 THEN -sem'[r].val ELSE 0
      BY DEF QueueLengths
    <3>1. CASE r = s
      BY <3>1, <1>1, <1>3, <2>8
    <3>2. CASE r # s
      BY <3>2, <2>8 DEF IInv, QueueLengths
    <3> QED BY <3>1, <3>2
  <2>11. OnePlace'
    <3>1. ASSUME NEW r \in Sems
          PROVE  /\ Distinct(sem'[r].queue)
                 /\ Waiters(r)' \cap ({running} \cup Elements(ready') \cup Sleepers) = {}
                 /\ \A p \in Sems \ {r} : Waiters(r)' \cap Waiters(p)' = {}
      <4>1. CASE r = s
        BY <4>1, <2>3, <2>7, <2>8 DEF IInv, OnePlace
      <4>2. CASE r # s
        BY SMTT(30), <4>2, <2>3, <2>7, <2>8 DEF IInv, OnePlace
      <4> QED BY <4>1, <4>2
    <3>2. Sleepers' = Sleepers /\ Sleepers \cap ({running} \cup Elements(ready')) = {}
      BY <1>1, <2>3, <2>7 DEF IInv, OnePlace, Sleepers
    <3> QED BY <1>1, <2>3, <2>7, <3>1, <3>2 DEF IInv, OnePlace
  <2>12. \A u \in Threads : Placed(u)' <=> Placed(u)
    <3> SUFFICES ASSUME NEW u \in Threads PROVE Placed(u)' <=> Placed(u)
      OBVIOUS
    <3>1. CASE u = t
      BY <3>1, <2>3, <2>7 DEF Placed
    <3>2. CASE u # t
      <4>1. \A r \in Sems : u \in Waiters(r)' <=> u \in Waiters(r)
        BY <3>2, <2>8
      <4>2. /\ u \in Elements(ready') <=> u \in Elements(ready)
            /\ u \in Sleepers' <=> u \in Sleepers
            /\ u = running' <=> u = running
        BY <3>2, <1>1, <2>7 DEF Sleepers
      <4> QED BY <4>1, <4>2 DEF Placed
    <3> QED BY <3>1, <3>2
  <2>13. FlagsTellPlace'
    <3>1. created' = created /\ Sleepers' = Sleepers
      BY <1>1 DEF Sleepers
    <3> SUFFICES ASSUME NEW u \in Threads
                 PROVE  /\ \A r \in Sems : tcb'[u].holder = r <=> u \in Waiters(r)'
                        /\ tcb'[u].asleep <=> u \in Sleepers'
                        /\ tcb'[u].holder # None => tcb'[u].blocked
                        /\ Placed(u)' => u \in created' /\ ~tcb'[u].finished /\ (tcb'[u].started \/ u = main)
      BY DEF FlagsTellPlace
    <3>2. CASE u = t
      <4>1. \A r \in Sems : u \notin Waiters(r)'
        BY <3>2, <2>3, <2>8
      <4> QED BY <3>1, <3>2, <4>1, <2>3, <2>5, <2>6, ThreadsAssumption
    <3>3. CASE u # t
      <4>1. \A r \in Sems : u \in Waiters(r)' <=> u \in Waiters(r)
        BY <3>3, <2>8
      <4> QED BY <3>1, <3>3, <4>1, <2>6, <2>12 DEF IInv, FlagsTellPlace
    <3> QED BY <3>2, <3>3
  <2>14. LostOnlyByClose'
    BY <1>1, <2>3, <2>6, <2>12 DEF IInv, TypeOK, LostOnlyByClose
  <2>15. FreeIsConstructed'
    BY <1>1, <2>3, <2>6, <2>8 DEF IInv, FreeIsConstructed
  <2>16. IdleAvailable'
    BY <1>1, <2>7 DEF IInv, IdleAvailable
  <2>17. BlockedByClose' /\ FinishedRan'
    BY ZenonT(60), <1>1, <2>3, <2>5, <2>6, IdleIsThread DEF IInv, BlockedByClose, FinishedRan
  <2> QED BY <1>2, <2>9, <2>10, <2>11, <2>13, <2>14, <2>15, <2>16, <2>17 DEF IInv
<1>4. CASE ~(oldS.val < 0)
  <2>1. /\ sem' = [sem EXCEPT ![s] = [sem[s] EXCEPT !.val = sem[s].val + 1]]
        /\ UNCHANGED <<running, ready, tcb>>
    BY <1>1, <1>4 DEF semSignal
  <2>2. sem[s].val >= 0 /\ sem[s].val + 1 >= 0
    BY <1>1, <1>4
  <2> QED BY <1>1, <2>1, <2>2, ValueKeeps
<1> QED BY <1>3, <1>4

(* SEM_CLOSE keeps the invariant: the threads of the queue become ready,   *)
(* still marked as blocked.                                                *)
LEMMA CloseKeeps ==
  ASSUME NEW s \in Sems
  PROVE  IInv /\ semClose(s) => IInv'
<1> SUFFICES ASSUME IInv, semClose(s) PROVE IInv'
  OBVIOUS
<1> DEFINE q == sem[s].queue
<1>1. /\ sem \in [Sems -> [val : Int, queue : Seq(Threads)]]
      /\ q \in Seq(Threads) /\ Distinct(q)
      /\ tcb \in [Threads -> TCBs]
      /\ ready \in Seq(Threads) /\ Distinct(ready)
      /\ UNCHANGED <<running, created, sleepQ, timeSliceCounter>>
      /\ Elements(q) = Waiters(s)
  BY DEF IInv, TypeOK, TCBs, OnePlace, semClose, Waiters
<1>2. IsSleepQ(sleepQ)' /\ (main \in created)' /\ Sleepers' = Sleepers
  BY <1>1 DEF IInv, IsSleepQ, Sleepers
<1>3. ASSUME NEW u \in Waiters(s)
      PROVE  /\ u \in Threads \ {idle}
             /\ u # running /\ u \notin Elements(ready) /\ u \notin Sleepers
             /\ u \in created /\ tcb[u].holder = s /\ tcb[u].blocked
             /\ ~tcb[u].finished /\ ~tcb[u].asleep /\ (tcb[u].started \/ u = main)
             /\ \A r \in Sems \ {s} : u \notin Waiters(r)
  <2>1. u \in Threads
    BY <1>1 DEF Elements
  <2>2. u # running /\ u \notin Elements(ready) /\ u \notin Sleepers
    BY DEF IInv, OnePlace
  <2>3. Placed(u)
    BY DEF Placed
  <2>4. tcb[u].holder = s
    BY <2>1 DEF IInv, FlagsTellPlace
  <2>5. \A r \in Sems \ {s} : u \notin Waiters(r)
    BY DEF IInv, OnePlace
  <2> QED BY <2>1, <2>2, <2>3, <2>4, <2>5, ThreadsAssumption
      DEF IInv, FlagsTellPlace, IdleAvailable
<1>4. /\ ready' \in Seq(Threads)
      /\ Distinct(ready')
      /\ Elements(ready') = Elements(ready) \cup Waiters(s)
  <2>1. ready' = ready \o q
    BY DEF semClose
  <2>2. Elements(ready) \cap Elements(q) = {}
    BY <1>1, <1>3
  <2> HIDE DEF q
  <2> QED BY <1>1, <2>1, <2>2, ConcatElements
<1>5. /\ tcb' \in [Threads -> TCBs]
      /\ \A u \in Threads \ Waiters(s) : tcb'[u] = tcb[u]
      /\ \A u \in Waiters(s) :
           /\ tcb'[u].close = 1 /\ tcb'[u].holder = None
           /\ tcb'[u].started <=> tcb[u].started
           /\ tcb'[u].finished <=> tcb[u].finished
           /\ tcb'[u].blocked <=> tcb[u].blocked
           /\ tcb'[u].asleep <=> tcb[u].asleep
  <2>1. tcb' = [u \in Threads |-> IF u \in Waiters(s) THEN Released(tcb[u]) ELSE tcb[u]]
    BY <1>1 DEF semClose
  <2>2. ASSUME NEW old \in TCBs
        PROVE  /\ Released(old) \in TCBs
               /\ Released(old).close = 1 /\ Released(old).holder = None
               /\ Released(old).started <=> old.started
               /\ Released(old).finished <=> old.finished
               /\ Released(old).blocked <=> old.blocked
               /\ Released(old).asleep <=> old.asleep
    BY DEF Released, TCBs
  <2>3. \A u \in Threads : tcb[u] \in TCBs
    BY <1>1
  <2>4. \A u \in Waiters(s) : u \in Threads
    BY <1>3
  <2> QED BY <2>1, <2>2, <2>3, <2>4
<1>6. /\ sem' \in [Sems -> [val : Int, queue : Seq(Threads)]]
      /\ \A r \in Sems \ {s} : sem'[r] = sem[r] /\ Waiters(r)' = Waiters(r)
      /\ sem'[s] = NewSem
      /\ sem'[s].val = 0 /\ sem'[s].queue = <<>>
      /\ Waiters(s)' = {} /\ Distinct(sem'[s].queue)
      /\ open' = open \ {s}
  <2>1. sem' = [sem EXCEPT ![s] = NewSem] /\ open' = open \ {s}
    BY DEF semClose
  <2>2. /\ NewSem \in [val : Int, queue : Seq(Threads)]
        /\ NewSem.val = 0 /\ NewSem.queue = <<>>
    BY DEF NewSem
  <2>3. Elements(<<>>) = {} /\ Distinct(<<>>)
    BY DEF Elements, Distinct
  <2> QED BY <1>1, <2>1, <2>2, <2>3 DEF Waiters
<1>7. \A u \in Threads : Placed(u)' <=> Placed(u)
  BY <1>1, <1>2, <1>4, <1>6 DEF Placed
<1>8. TypeOK'
  BY <1>1, <1>4, <1>5, <1>6 DEF IInv, TypeOK, Sleeper, TCBs
<1>9. QueueLengths'
  <2> SUFFICES ASSUME NEW r \in Sems
               PROVE  Len(sem'[r].queue) = IF sem'[r].val < 0 THEN -sem'[r].val ELSE 0
    BY DEF QueueLengths
  <2>1. CASE r = s
    BY <2>1, <1>6, EmptySeq
  <2>2. CASE r # s
    BY <2>2, <1>6 DEF IInv, QueueLengths
  <2> QED BY <2>1, <2>2
<1>10. OnePlace'
  <2>1. ASSUME NEW r \in Sems
        PROVE  /\ Distinct(sem'[r].queue)
               /\ Waiters(r)' \cap ({running} \cup Elements(ready') \cup Sleepers) = {}
               /\ \A p \in Sems \ {r} : Waiters(r)' \cap Waiters(p)' = {}
    <3>1. CASE r = s
      BY <3>1, <1>6
    <3>2. CASE r # s
      <4>1. Waiters(r) \cap Waiters(s) = {}
        BY <3>2 DEF IInv, OnePlace
      <4>2. Distinct(sem'[r].queue)
        BY <3>2, <1>6 DEF IInv, OnePlace
      <4>3. Waiters(r)' \cap ({running} \cup Elements(ready') \cup Sleepers) = {}
        BY <3>2, <4>1, <1>4, <1>6 DEF IInv, OnePlace
      <4>4. ASSUME NEW p \in Sems \ {r} PROVE Waiters(r)' \cap Waiters(p)' = {}
        <5>1. CASE p = s BY <5>1, <1>6
        <5>2. CASE p # s BY <3>2, <5>2, <1>6 DEF IInv, OnePlace
        <5> QED BY <5>1, <5>2
      <4> QED BY <4>2, <4>3, <4>4
    <3> QED BY <3>1, <3>2
  <2>2. Sleepers \cap ({running} \cup Elements(ready')) = {} /\ running \notin Elements(ready')
    BY <1>3, <1>4 DEF IInv, OnePlace
  <2> QED BY <1>1, <1>2, <1>4, <2>1, <2>2 DEF IInv, OnePlace
<1>11. FlagsTellPlace'
  <2> SUFFICES ASSUME NEW u \in Threads
               PROVE  /\ \A r \in Sems : tcb'[u].holder = r <=> u \in Waiters(r)'
                      /\ tcb'[u].asleep <=> u \in Sleepers'
                      /\ tcb'[u].holder # None => tcb'[u].blocked
                      /\ Placed(u)' => u \in created' /\ ~tcb'[u].finished /\ (tcb'[u].started \/ u = main)
    BY DEF FlagsTellPlace
  <2>1. CASE u \in Waiters(s)
    <3>1. \A r \in Sems : u \notin Waiters(r)'
      BY <2>1, <1>3, <1>6
    <3>2. /\ tcb'[u].holder = None
          /\ tcb'[u].asleep <=> tcb[u].asleep
          /\ tcb'[u].finished <=> tcb[u].finished
          /\ tcb'[u].started <=> tcb[u].started
      BY <2>1, <1>5
    <3>3. u \in created' /\ u \notin Sleepers' /\ ~tcb[u].asleep /\ ~tcb[u].finished
          /\ (tcb[u].started \/ u = main)
      BY <2>1, <1>1, <1>2, <1>3
    <3> QED BY <3>1, <3>2, <3>3, ThreadsAssumption
  <2>2. CASE u \notin Waiters(s)
    <3>1. \A r \in Sems : u \in Waiters(r)' <=> u \in Waiters(r)
      BY <2>2, <1>6
    <3> QED BY <2>2, <3>1, <1>1, <1>2, <1>5, <1>7 DEF IInv, FlagsTellPlace
  <2> QED BY <2>1, <2>2
<1>12. LostOnlyByClose'
  BY <1>1, <1>3, <1>5, <1>7 DEF IInv, TypeOK, LostOnlyByClose
<1>13. FreeIsConstructed'
  BY <1>1, <1>3, <1>5, <1>6 DEF IInv, FreeIsConstructed
<1>14. IdleAvailable'
  BY <1>1, <1>4 DEF IInv, IdleAvailable
<1>15. BlockedByClose' /\ FinishedRan'
  BY <1>1, <1>3, <1>5, IdleIsThread DEF IInv, BlockedByClose, FinishedRan
<1> QED BY <1>2, <1>8, <1>9, <1>10, <1>11, <1>12, <1>13, <1>14, <1>15 DEF IInv

(* TIME_SLEEP keeps the invariant: the running thread goes to the queue of *)
(* sleepers.                                                               *)
LEMMA TimeSleepKeeps ==
  ASSUME NEW time
  PROVE  IInv /\ timeSleep(time) => IInv'
<1> SUFFICES ASSUME IInv, timeSleep(time) PROVE IInv'
  OBVIOUS
<1> DEFINE t   == running
           old == tcb[t]
           new == [old EXCEPT !.asleep = TRUE]
           b   == [tcb EXCEPT ![t] = new]
<1>1. /\ tcb \in [Threads -> TCBs]
      /\ t \in Threads \ {main, idle}
      /\ old \in TCBs
      /\ Placed(t) /\ old.started /\ ~old.finished /\ t \in created
      /\ t \notin Sleepers /\ t \notin Elements(ready)
      /\ \A r \in Sems : t \notin Waiters(r)
  BY DEF IInv, TypeOK, TCBs, OnePlace, FlagsTellPlace, timeSleep, InProgram, Placed
<1>2. /\ Switch(ready, b)
      /\ sleepQ' = Add(sleepQ, t, time)
      /\ UNCHANGED <<created, sem, open, timeSliceCounter>>
  BY DEF timeSleep
<1>3. /\ new \in TCBs
      /\ new.asleep
      /\ new.started <=> old.started
      /\ new.finished <=> old.finished
      /\ new.blocked <=> old.blocked
      /\ new.close = old.close
      /\ new.holder = old.holder
  <2> HIDE DEF old
  <2> QED BY <1>1 DEF TCBs
<1> HIDE DEF new
<1>4. /\ tcb' = b
      /\ running' \in Threads
      /\ ready' \in Seq(Threads)
      /\ Distinct(ready')
      /\ running' \notin Elements(ready')
      /\ Active' = Elements(ready) \cup {u \in {running} : MayRun(b[u])}
      /\ idle \in Active'
  <2> HIDE DEF b
  <2> QED BY <1>1, <1>2, SwitchActive DEF IInv, TypeOK, OnePlace, IdleAvailable
<1>5. /\ b \in [Threads -> TCBs]
      /\ b[t] = new
      /\ \A u \in Threads \ {t} : b[u] = tcb[u]
  BY <1>1, <1>3
<1>6. Active' = Elements(ready)
  BY <1>3, <1>4, <1>5 DEF MayRun
<1> HIDE DEF b, t
<1>7. /\ IsSleepQ(sleepQ')
      /\ Sleepers' = Sleepers \cup {t}
      /\ SleepOnce(sleepQ')
  BY <1>1, <1>2, AddSleeper DEF IInv, OnePlace, Sleepers, SleepOnce
<1>8. TypeOK'
  BY <1>1, <1>2, <1>4, <1>5, <1>7 DEF IInv, TypeOK, Sleepers, TCBs
<1>9. QueueLengths' /\ (main \in created)'
  BY <1>2 DEF IInv, QueueLengths
<1>10. FreeIsConstructed'
  BY <1>1, <1>2, <1>4, <1>5 DEF IInv, FreeIsConstructed
<1>11. \A r \in Sems : Waiters(r)' = Waiters(r)
  BY <1>2 DEF Waiters
<1>12. OnePlace'
  <2>1. /\ Sleepers' \cap Active' = {}
        /\ \A r \in Sems : Waiters(r)' \cap (Active' \cup Sleepers') = {}
    BY <1>1, <1>6, <1>7, <1>11 DEF IInv, OnePlace
  <2>2. \A r \in Sems :
          Distinct(sem'[r].queue) /\ \A p \in Sems \ {r} : Waiters(r)' \cap Waiters(p)' = {}
    BY <1>2, <1>11 DEF IInv, OnePlace
  <2> QED BY <1>4, <1>7, <2>1, <2>2 DEF OnePlace, Active, SleepOnce
<1>13. \A u \in Threads : Placed(u)' <=> Placed(u)
  BY <1>1, <1>6, <1>7, <1>11 DEF Placed, Active, t
<1>14. FlagsTellPlace'
  <2> SUFFICES ASSUME NEW u \in Threads
               PROVE  /\ \A r \in Sems : tcb'[u].holder = r <=> u \in Waiters(r)'
                      /\ tcb'[u].asleep <=> u \in Sleepers'
                      /\ tcb'[u].holder # None => tcb'[u].blocked
                      /\ Placed(u)' => u \in created' /\ ~tcb'[u].finished /\ (tcb'[u].started \/ u = main)
    BY DEF FlagsTellPlace
  <2>1. CASE u = t
    BY <2>1, <1>1, <1>2, <1>3, <1>4, <1>5, <1>7, <1>11 DEF IInv, FlagsTellPlace
  <2>2. CASE u # t
    BY <2>2, <1>2, <1>4, <1>5, <1>7, <1>11, <1>13 DEF IInv, FlagsTellPlace
  <2> QED BY <2>1, <2>2
<1>15. LostOnlyByClose'
  BY <1>1, <1>2, <1>4, <1>5, <1>13 DEF IInv, TypeOK, LostOnlyByClose
<1>16. IdleAvailable'
  BY <1>4 DEF Active, IdleAvailable
<1>17. BlockedByClose' /\ FinishedRan'
  BY <1>1, <1>3, <1>4, <1>5, IdleIsThread DEF IInv, BlockedByClose, FinishedRan
<1> QED BY <1>7, <1>8, <1>9, <1>10, <1>12, <1>14, <1>15, <1>16, <1>17 DEF IInv

(* The timer interrupt keeps the invariant: sleepers become ready, and the *)
(* running thread may be switched.                                         *)
LEMMA TimerKeeps == IInv /\ timer => IInv'
<1> SUFFICES ASSUME IInv, timer PROVE IInv'
  OBVIOUS
<1> DEFINE w     == Woken(sleepQ)
           list  == ready \o w
           flags == [u \in Threads |-> IF u \in Elements(w) THEN Awakened(tcb[u]) ELSE tcb[u]]
<1>1. /\ tcb \in [Threads -> TCBs]
      /\ running \in Threads
      /\ ready \in Seq(Threads) /\ Distinct(ready)
      /\ running \notin Elements(ready)
      /\ UNCHANGED <<created, sem, open>>
      /\ sleepQ' = StillAsleep(sleepQ)
      /\ IsSleepQ(sleepQ) /\ SleepOnce(sleepQ)
  BY DEF IInv, TypeOK, TCBs, OnePlace, SleepOnce, timer
<1>2. /\ w \in Seq(Threads)
      /\ IsSleepQ(sleepQ')
      /\ Sleepers = Elements(w) \cup Sleepers'
      /\ Distinct(w)
      /\ SleepOnce(sleepQ')
      /\ Elements(w) \cap Sleepers' = {}
  BY <1>1, TickSleeper DEF Sleepers
<1>3. ASSUME NEW u \in Elements(w)
      PROVE  /\ u \in Threads \ {idle}
             /\ u # running /\ u \notin Elements(ready)
             /\ u \in created /\ tcb[u].asleep
             /\ ~tcb[u].finished /\ (tcb[u].started \/ u = main)
             /\ \A r \in Sems : u \notin Waiters(r)
  <2>1. u \in Sleepers /\ u \in Threads
    BY <1>2 DEF Elements
  <2>2. u # running /\ u \notin Elements(ready) /\ \A r \in Sems : u \notin Waiters(r)
    BY <2>1 DEF IInv, OnePlace
  <2>3. Placed(u)
    BY <2>1 DEF Placed
  <2> QED BY <2>1, <2>2, <2>3 DEF IInv, FlagsTellPlace, IdleAvailable
<1>4. /\ list \in Seq(Threads)
      /\ Distinct(list)
      /\ Elements(list) = Elements(ready) \cup Elements(w)
  <2>1. Elements(ready) \cap Elements(w) = {}
    BY <1>3
  <2> HIDE DEF w
  <2> QED BY <1>1, <1>2, <2>1, ConcatElements
<1>5. /\ flags \in [Threads -> TCBs]
      /\ \A u \in Threads \ Elements(w) : flags[u] = tcb[u]
      /\ \A u \in Elements(w) :
           /\ ~flags[u].asleep
           /\ flags[u].started <=> tcb[u].started
           /\ flags[u].finished <=> tcb[u].finished
           /\ flags[u].blocked <=> tcb[u].blocked
           /\ flags[u].close = tcb[u].close
           /\ flags[u].holder = tcb[u].holder
  <2> HIDE DEF w
  <2>1. ASSUME NEW old \in TCBs
        PROVE  /\ Awakened(old) \in TCBs
               /\ ~Awakened(old).asleep
               /\ Awakened(old).started <=> old.started
               /\ Awakened(old).finished <=> old.finished
               /\ Awakened(old).blocked <=> old.blocked
               /\ Awakened(old).close = old.close
               /\ Awakened(old).holder = old.holder
    BY DEF Awakened, TCBs
  <2>2. \A u \in Threads : tcb[u] \in TCBs
    BY <1>1
  <2>3. \A u \in Elements(w) : u \in Threads
    BY <1>3
  <2> QED BY <2>1, <2>2, <2>3
<1>6. /\ tcb' = flags
      /\ timeSliceCounter' \in 0 .. DEFAULT_TIME_SLICE - 1
      /\ running' \in Threads
      /\ ready' \in Seq(Threads)
      /\ Distinct(ready')
      /\ running' \notin Elements(ready')
      /\ \/ Active' = {running} \cup Elements(list)
         \/ Active' = Elements(list) /\ ~MayRun(flags[running])
      /\ idle \in Active'
  <2>1. idle \in Elements(list) \cup {running} /\ running \notin Elements(list)
    BY <1>1, <1>3, <1>4 DEF IInv, IdleAvailable
  <2>2. CASE SliceOver
    <3>1. Switch(list, flags) /\ timeSliceCounter' = 0
      BY <2>2 DEF timer
    <3>2. running = idle => MayRun(flags[idle])
      BY <1>3, <1>5, IdleMayRun, IdleIsThread
    <3> HIDE DEF list, flags
    <3> QED BY <1>1, <1>4, <2>1, <3>1, <3>2, SwitchActive, ThreadsAssumption
  <2>3. CASE ~SliceOver
    <3>1. /\ ready' = list /\ tcb' = flags
          /\ running' = running
          /\ timeSliceCounter' = timeSliceCounter + 1
      BY <2>3 DEF timer
    <3>2. timeSliceCounter + 1 \in 0 .. DEFAULT_TIME_SLICE - 1
      BY <2>3, ThreadsAssumption DEF SliceOver, IInv, TypeOK
    <3> HIDE DEF list, flags
    <3> QED BY <1>1, <1>4, <2>1, <3>1, <3>2 DEF Active
  <2> QED BY <2>2, <2>3
<1>7. running \notin Elements(w)
  BY <1>3
<1> HIDE DEF w, list, flags
<1>8. TypeOK'
  BY <1>1, <1>2, <1>5, <1>6 DEF IInv, TypeOK, Sleepers, TCBs
<1>9. QueueLengths' /\ (main \in created)'
  BY <1>1 DEF IInv, QueueLengths
<1>10. FreeIsConstructed'
  BY <1>1, <1>3, <1>5, <1>6 DEF IInv, FreeIsConstructed
<1>11. \A r \in Sems : Waiters(r)' = Waiters(r)
  BY <1>1 DEF Waiters
<1>12. Active' \subseteq Active \cup Elements(w) /\ Elements(w) \subseteq Active'
  BY <1>4, <1>6 DEF Active
<1>13. OnePlace'
  <2>1. /\ Sleepers' \cap Active' = {}
        /\ \A r \in Sems : Waiters(r)' \cap (Active' \cup Sleepers') = {}
    BY <1>2, <1>3, <1>11, <1>12 DEF IInv, OnePlace, Active
  <2>2. \A r \in Sems :
          Distinct(sem'[r].queue) /\ \A p \in Sems \ {r} : Waiters(r)' \cap Waiters(p)' = {}
    BY <1>1, <1>11 DEF IInv, OnePlace
  <2> QED BY <1>2, <1>6, <2>1, <2>2 DEF OnePlace, Active, SleepOnce
<1>14. \A u \in Threads : Placed(u)' => Placed(u)
  BY <1>2, <1>11, <1>12 DEF Placed, Active
<1>15. FlagsTellPlace'
  <2> SUFFICES ASSUME NEW u \in Threads
               PROVE  /\ \A r \in Sems : tcb'[u].holder = r <=> u \in Waiters(r)'
                      /\ tcb'[u].asleep <=> u \in Sleepers'
                      /\ tcb'[u].holder # None => tcb'[u].blocked
                      /\ Placed(u)' => u \in created' /\ ~tcb'[u].finished /\ (tcb'[u].started \/ u = main)
    BY DEF FlagsTellPlace
  <2>1. CASE u \in Elements(w)
    <3>1. u \notin Sleepers'
      BY <2>1, <1>2
    <3> QED BY <2>1, <3>1, <1>1, <1>3, <1>5, <1>6, <1>11 DEF IInv, FlagsTellPlace
  <2>2. CASE u \notin Elements(w)
    <3>1. tcb'[u] = tcb[u] /\ (u \in Sleepers' <=> u \in Sleepers)
      BY <2>2, <1>2, <1>5, <1>6
    <3> QED BY <3>1, <1>1, <1>11, <1>14 DEF IInv, FlagsTellPlace
  <2> QED BY <2>1, <2>2
<1>16. LostOnlyByClose'
  <2> SUFFICES ASSUME NEW u \in created, tcb'[u].started, ~tcb'[u].finished, ~Placed(u)'
               PROVE  tcb'[u].blocked /\ tcb'[u].close = 1
    BY <1>1 DEF LostOnlyByClose
  <2>1. u \in Threads /\ u \notin Elements(w) /\ tcb'[u] = tcb[u]
    <3>1. u \in Threads
      BY DEF IInv, TypeOK
    <3>2. u \notin Elements(w)
      BY <1>12 DEF Placed, Active
    <3> QED BY <3>1, <3>2, <1>5, <1>6
  <2>2. CASE u = running
    <3>1. ~MayRun(tcb[u])
      BY <2>1, <2>2, <1>5, <1>6 DEF Placed, Active
    <3>2. ~tcb[u].asleep /\ tcb[u].holder = None
      BY <2>1, <2>2, <1>1 DEF IInv, TypeOK, OnePlace, FlagsTellPlace, TCBs
    <3> QED BY <2>1, <3>1, <3>2 DEF MayRun, IInv, BlockedByClose
  <2>3. CASE u # running
    <3>1. ~Placed(u)
      BY <2>1, <2>3, <1>2, <1>4, <1>6, <1>11 DEF Placed, Active
    <3> QED BY <2>1, <3>1 DEF IInv, LostOnlyByClose
  <2> QED BY <2>2, <2>3
<1>17. IdleAvailable'
  BY <1>6 DEF Active, IdleAvailable
<1>18. BlockedByClose' /\ FinishedRan'
  BY <1>3, <1>5, <1>6, IdleIsThread DEF IInv, BlockedByClose, FinishedRan
<1> QED BY <1>2, <1>8, <1>9, <1>10, <1>13, <1>15, <1>16, <1>17, <1>18 DEF IInv

(* What main() leaves satisfies the invariant.                             *)
LEMMA InitHolds == Init => IInv
<1> SUFFICES ASSUME Init PROVE IInv
  OBVIOUS
<1>1. /\ booted \in Seq(Threads)
      /\ Elements(booted) \subseteq Threads \ {main}
      /\ Distinct(booted)
      /\ idle \in Elements(booted)
      /\ main \in Threads
      /\ main # idle
  <2>1. booted \in Seq(Threads \ {main})
    BY ThreadsAssumption
  <2>2. Len(booted) \in Nat /\ \A i \in 1 .. Len(booted) : booted[i] \in Threads \ {main}
    BY <2>1
  <2>3. booted \in Seq(Threads)
    BY <2>1
  <2> QED BY <2>2, <2>3, ThreadsAssumption DEF Elements, Distinct
<1>2. /\ running = main
      /\ ready = booted
      /\ created = Elements(booted) \cup {main}
      /\ sem = [s \in Sems |-> NewSem]
      /\ open = {}
      /\ timeSliceCounter = 0
      /\ sleepQ = <<>>
  BY DEF Init, SleepInit
<1>3. /\ tcb \in [Threads -> TCBs]
      /\ \A t \in Threads :
           /\ tcb[t].started <=> t \in Elements(booted)
           /\ ~tcb[t].finished /\ ~tcb[t].blocked /\ ~tcb[t].asleep
           /\ tcb[t].close = 0 /\ tcb[t].holder = None
           /\ t \notin Elements(booted) => tcb[t] = NewTCB
  <2> DEFINE new == [NewTCB EXCEPT !.started = TRUE]
  <2>1. tcb = [t \in Threads |-> IF t \in Elements(booted) THEN new ELSE NewTCB]
    BY DEF Init
  <2>2. /\ new \in TCBs /\ new.started
        /\ ~new.finished /\ ~new.blocked /\ ~new.asleep
        /\ new.close = 0 /\ new.holder = None
    BY DEF NewTCB, TCBs
  <2>3. /\ NewTCB \in TCBs /\ ~NewTCB.started
        /\ ~NewTCB.finished /\ ~NewTCB.blocked /\ ~NewTCB.asleep
        /\ NewTCB.close = 0 /\ NewTCB.holder = None
    BY DEF NewTCB, TCBs
  <2> HIDE DEF new
  <2> QED BY <2>1, <2>2, <2>3
<1>4. /\ \A s \in Sems : /\ sem[s] = NewSem
                         /\ sem[s].val = 0 /\ sem[s].queue = <<>>
                         /\ Waiters(s) = {} /\ Distinct(sem[s].queue)
      /\ NewSem \in [val : Int, queue : Seq(Threads)]
  BY <1>2 DEF NewSem, Waiters, Elements, Distinct
<1>5. Sleepers = {} /\ IsSleepQ(sleepQ) /\ SleepOnce(sleepQ)
  <2>1. Len(sleepQ) = 0 /\ sleepQ = [i \in 1 .. 0 |-> sleepQ[i]]
    BY <1>2, EmptySeq
  <2> QED BY <2>1 DEF Sleepers, Sleeper, IsSleepQ, SleepOnce
<1>6. TypeOK
  BY <1>1, <1>2, <1>3, <1>4, <1>5, ThreadsAssumption DEF TypeOK, TCBs, Sleepers
<1>7. QueueLengths
  BY <1>4, EmptySeq DEF QueueLengths
<1>8. OnePlace
  BY <1>1, <1>2, <1>4, <1>5 DEF OnePlace, SleepOnce
<1>9. FlagsTellPlace
  BY <1>1, <1>2, <1>3, <1>4, <1>5, ThreadsAssumption DEF FlagsTellPlace, Placed
<1>10. LostOnlyByClose /\ FreeIsConstructed /\ IdleAvailable /\ BlockedByClose /\ FinishedRan
  BY <1>1, <1>2, <1>3, <1>4
     DEF LostOnlyByClose, FreeIsConstructed, IdleAvailable, BlockedByClose, FinishedRan, Placed
<1> QED BY <1>2, <1>5, <1>6, <1>7, <1>8, <1>9, <1>10 DEF IInv

(* Every step keeps the invariant.                                         *)
LEMMA NextKeeps == IInv /\ [Next]_vars => IInv'
<1> SUFFICES ASSUME IInv, [Next]_vars PROVE IInv'
  OBVIOUS
<1>1. CASE dispatch BY <1>1, DispatchKeeps
<1>2. ASSUME NEW t \in Threads, NEW start \in BOOLEAN, createThread(t, start) PROVE IInv'
  BY <1>2, CreateKeeps
<1>3. ASSUME NEW t \in Threads, startThread(t) PROVE IInv'
  BY <1>3, StartKeeps
<1>4. ASSUME NEW t \in Threads, destroyThread(t) PROVE IInv'
  BY <1>4, DestroyKeeps
<1>5. CASE exit BY <1>5, ExitKeeps
<1>6. ASSUME NEW s \in Sems, NEW init \in 0 .. MaxVal, semOpen(s, init) PROVE IInv'
  BY <1>6, OpenKeeps
<1>7. ASSUME NEW s \in Sems, semWait(s) PROVE IInv'
  BY <1>7, WaitKeeps
<1>8. ASSUME NEW s \in Sems, semSignal(s) PROVE IInv'
  BY <1>8, SignalKeeps
<1>9. ASSUME NEW s \in Sems, semClose(s) PROVE IInv'
  BY <1>9, CloseKeeps
<1>10. ASSUME NEW time \in 1 .. MaxSleep, timeSleep(time) PROVE IInv'
  BY <1>10, TimeSleepKeeps
<1>11. CASE timer BY <1>11, TimerKeeps
<1>12. CASE UNCHANGED vars
  <2>1. UNCHANGED <<running, ready, tcb, created, sem, open, timeSliceCounter, sleepQ>>
    BY <1>12 DEF vars
  <2>2. TypeOK' /\ IsSleepQ(sleepQ)' /\ QueueLengths' /\ FreeIsConstructed' /\ (main \in created)'
    BY <2>1 DEF IInv, TypeOK, IsSleepQ, QueueLengths, FreeIsConstructed
  <2>3. OnePlace' /\ IdleAvailable' /\ BlockedByClose' /\ FinishedRan'
    BY <2>1 DEF IInv, OnePlace, IdleAvailable, BlockedByClose, FinishedRan, Sleepers, Waiters
  <2>4. FlagsTellPlace' /\ LostOnlyByClose'
    <3>1. \A u : Placed(u)' <=> Placed(u)
      BY <2>1 DEF Placed, Sleepers, Waiters
    <3> QED BY <2>1, <3>1 DEF IInv, FlagsTellPlace, LostOnlyByClose, Sleepers, Waiters
  <2> QED BY <2>2, <2>3, <2>4 DEF IInv
<1> QED
  BY <1>1, <1>2, <1>3, <1>4, <1>5, <1>6, <1>7, <1>8, <1>9, <1>10, <1>11, <1>12 DEF Next, Call

(* The inductive invariant holds throughout.                               *)
THEOREM Invariant == Spec => []IInv
BY InitHolds, NextKeeps, PTL DEF Spec

(* The fields of the kernel's objects have their types; the counter of the *)
(* time slice stays below its end.                                         *)
THEOREM TypeCorrect == Spec => []TypeOK
<1>1. IInv => TypeOK BY DEF IInv
<1> QED BY Invariant, <1>1, PTL

(* The value of a semaphore counts its queue: signal() finds a thread in   *)
(* the queue whenever the value promises one.                              *)
THEOREM SemCountHolds == Spec => []SemCount
<1>1. IInv => SemCount BY DEF IInv, SemCount
<1> QED BY Invariant, <1>1, PTL

(* A thread is linked into one queue of the kernel at most, and there once. *)
THEOREM OnePlaceHolds == Spec => []OnePlace
<1>1. IInv => OnePlace BY DEF IInv
<1> QED BY Invariant, <1>1, PTL

(* The flags of a thread agree with the queue it is in.                    *)
THEOREM FlagsTellPlaceHolds == Spec => []FlagsTellPlace
<1>1. IInv => FlagsTellPlace BY DEF IInv
<1> QED BY Invariant, <1>1, PTL

(* Only a thread that waited for a semaphore when it was closed is lost.   *)
THEOREM LostOnlyByCloseHolds == Spec => []LostOnlyByClose
<1>1. IInv => LostOnlyByClose BY DEF IInv
<1> QED BY Invariant, <1>1, PTL

(* Objects that are not given out are as their constructors leave them.    *)
THEOREM FreeIsConstructedHolds == Spec => []FreeIsConstructed
<1>1. IInv => FreeIsConstructed BY DEF IInv
<1> QED BY Invariant, <1>1, PTL

(* Idle runs or is ready, so that get() never falls back on it.            *)
THEOREM IdleAvailableHolds == Spec => []IdleAvailable
<1>1. IInv => IdleAvailable BY DEF IInv
<1> QED BY Invariant, <1>1, PTL

-----------------------------------------------------------------------------
(* What programs see of the state of a thread, by its place and its flags. *)
LEMMA PlaceTellsState ==
  ASSUME IInv, NEW t \in Threads
  PROVE  /\ t \notin created => StateOf(t) = "absent"
         /\ t \in Active => StateOf(t) = "runnable"
         /\ t \in Sleepers => StateOf(t) = "asleep"
         /\ \A s \in Sems : t \in Waiters(s) <=> StateOf(t) = s
         /\ t \in created /\ tcb[t].finished => StateOf(t) = "finished"
         /\ t \in created \ {main} /\ ~tcb[t].started => StateOf(t) = "new"
<1>1. /\ tcb[t].holder \in Sems \cup {None}
      /\ \A s \in Sems : tcb[t].holder = s <=> t \in Waiters(s)
      /\ tcb[t].asleep <=> t \in Sleepers
      /\ Placed(t) => t \in created /\ ~tcb[t].finished /\ (tcb[t].started \/ t = main)
      /\ tcb[t].finished => tcb[t].started
  BY DEF IInv, TypeOK, FlagsTellPlace, FinishedRan
<1>2. Sems \cap {None, "absent", "new", "runnable", "asleep", "finished"} = {}
  BY ThreadsAssumption
<1>3. CASE t \in Active
  <2>1. t \notin Sleepers /\ \A s \in Sems : t \notin Waiters(s)
    BY <1>3 DEF IInv, OnePlace, Active
  <2>2. Placed(t)
    BY <1>3 DEF Active, Placed
  <2>3. StateOf(t) = "runnable"
    BY <1>1, <2>1, <2>2 DEF StateOf
  <2> QED BY <1>1, <1>2, <2>1, <2>2, <2>3
<1>4. CASE t \in Sleepers
  <2>1. \A s \in Sems : t \notin Waiters(s)
    BY <1>4 DEF IInv, OnePlace
  <2>2. Placed(t) /\ t \notin Active
    BY <1>4 DEF Placed, IInv, OnePlace, Active
  <2>3. StateOf(t) = "asleep"
    BY <1>1, <1>4, <2>1, <2>2 DEF StateOf
  <2> QED BY <1>1, <1>2, <2>1, <2>2, <2>3
<1>5. CASE \E s \in Sems : t \in Waiters(s)
  <2>1. Placed(t)
    BY <1>5 DEF Placed
  <2>2. t \notin Active /\ t \notin Sleepers
    BY <1>5 DEF IInv, OnePlace, Active
  <2>3. tcb[t].holder \in Sems /\ tcb[t].holder # None
    BY <1>1, <1>2, <1>5
  <2>4. StateOf(t) = tcb[t].holder
    BY <1>1, <2>1, <2>3 DEF StateOf
  <2> QED BY <1>1, <2>1, <2>2, <2>3, <2>4
<1>6. CASE ~Placed(t)
  <2>1. t \notin Active /\ t \notin Sleepers /\ \A s \in Sems : t \notin Waiters(s)
    BY <1>6 DEF Placed, Active
  <2>2. tcb[t].holder = None /\ ~tcb[t].asleep
    BY <1>1, <2>1
  <2> QED BY <1>1, <1>2, <2>1, <2>2 DEF StateOf
<1> QED BY <1>3, <1>4, <1>5, <1>6 DEF Placed, Active

(* A step after which programs see no thread in another state,             *)
LEMMA SameStates ==
  ASSUME \A u \in Threads : StateOf(u)' = StateOf(u)
  PROVE  UNCHANGED [u \in Threads |-> StateOf(u)]
OBVIOUS

(* or just one thread.                                                     *)
LEMMA OneState ==
  ASSUME NEW t \in Threads, NEW to, StateOf(t)' = to,
         \A u \in Threads \ {t} : StateOf(u)' = StateOf(u)
  PROVE  [u \in Threads |-> StateOf(u)]' = [[u \in Threads |-> StateOf(u)] EXCEPT ![t] = to]
OBVIOUS

(* A step that changes the waits that one semaphore lets pass.             *)
LEMMA OneToken ==
  ASSUME NEW s \in Sems, NEW n, TokensOf(s)' = n,
         \A r \in Sems \ {s} : sem'[r] = sem[r]
  PROVE  [r \in Sems |-> TokensOf(r)]' = [[r \in Sems |-> TokensOf(r)] EXCEPT ![s] = n]
<1>1. \A r \in Sems \ {s} : TokensOf(r)' = TokensOf(r)
  BY DEF TokensOf
<1> HIDE DEF TokensOf
<1> QED BY <1>1

(* A step that changes none of them.                                       *)
LEMMA SameTokens ==
  ASSUME \A r \in Sems : TokensOf(r)' = TokensOf(r)
  PROVE  UNCHANGED [r \in Sems |-> TokensOf(r)]
OBVIOUS

(* A step after which programs see one thread in another state, and        *)
(* nothing else.                                                           *)
LEMMA OneGoes ==
  ASSUME NEW t \in Threads, NEW from, NEW to,
         StateOf(t) = from, StateOf(t)' = to,
         \A u \in Threads \ {t} : StateOf(u)' = StateOf(u),
         UNCHANGED <<sem, open>>
  PROVE  Life!Goes(t, from, to)
<1>1. [u \in Threads |-> StateOf(u)]' = [[u \in Threads |-> StateOf(u)] EXCEPT ![t] = to]
  BY OneState
<1>2. UNCHANGED [r \in Sems |-> TokensOf(r)]
  BY DEF TokensOf
<1>3. [u \in Threads |-> StateOf(u)][t] = from
  OBVIOUS
<1> QED BY <1>1, <1>2, <1>3 DEF Life!Goes

(* The threads whose block and place among those given out stay as they    *)
(* are, are seen as before.                                                *)
LEMMA SameState ==
  ASSUME NEW u, tcb'[u] = tcb[u], u \in created' <=> u \in created
  PROVE  StateOf(u)' = StateOf(u)
BY DEF StateOf

(* What the handlers write into a block, field by field.                   *)
LEMMA BlockFields ==
  ASSUME NEW f \in TCBs
  PROVE  /\ \A b \in BOOLEAN :
              LET g == [f EXCEPT !.started = b]
              IN  /\ g.started = b /\ g.finished = f.finished
                  /\ g.asleep = f.asleep /\ g.holder = f.holder
         /\ \A b \in BOOLEAN :
              LET g == [f EXCEPT !.finished = b]
              IN  /\ g.started = f.started /\ g.finished = b
                  /\ g.asleep = f.asleep /\ g.holder = f.holder
         /\ \A b \in BOOLEAN :
              LET g == [f EXCEPT !.asleep = b]
              IN  /\ g.started = f.started /\ g.finished = f.finished
                  /\ g.asleep = b /\ g.holder = f.holder
         /\ \A s \in Sems :
              LET g == [f EXCEPT !.blocked = TRUE, !.holder = s]
              IN  /\ g.started = f.started /\ g.finished = f.finished
                  /\ g.asleep = f.asleep /\ g.holder = s
         /\ /\ Removed(f).started = f.started /\ Removed(f).finished = f.finished
            /\ Removed(f).asleep = f.asleep /\ Removed(f).holder = None
         /\ /\ Released(f).started = f.started /\ Released(f).finished = f.finished
            /\ Released(f).asleep = f.asleep /\ Released(f).holder = None
         /\ /\ Awakened(f).started = f.started /\ Awakened(f).finished = f.finished
            /\ Awakened(f).asleep = FALSE /\ Awakened(f).holder = f.holder
BY DEF TCBs, Removed, Released, Awakened

(* A running thread is seen as such.                                       *)
LEMMA RunnerRuns ==
  ASSUME IInv
  PROVE  /\ running \in created /\ StateOf(running) = "runnable"
         /\ ~tcb[running].finished /\ tcb[running].holder = None /\ ~tcb[running].asleep
         /\ tcb[running].started \/ running = main
<1>1. running \in Threads /\ tcb[running].holder \in Sems \cup {None}
  BY DEF IInv, TypeOK, TCBs
<1>2. Placed(running) /\ running \in Active
  BY DEF Placed, Active
<1>3. running \notin Sleepers /\ \A s \in Sems : running \notin Waiters(s)
  BY DEF IInv, OnePlace
<1>4. /\ running \in created /\ ~tcb[running].finished
      /\ tcb[running].started \/ running = main
      /\ tcb[running].asleep <=> running \in Sleepers
      /\ \A s \in Sems : tcb[running].holder = s <=> running \in Waiters(s)
  BY <1>1, <1>2 DEF IInv, FlagsTellPlace
<1>5. StateOf(running) = "runnable"
  BY <1>1, <1>2, PlaceTellsState
<1> QED BY <1>1, <1>3, <1>4, <1>5

(* Threads come and go, and change state, only by their calls.             *)
LEMMA CreateIsLife ==
  ASSUME IInv, NEW t \in Threads, NEW start \in BOOLEAN, createThread(t, start)
  PROVE  Life!Create(t) \/ Life!Spawn(t)
<1>0. tcb \in [Threads -> TCBs]
  BY DEF IInv, TypeOK, TCBs
<1>1. /\ t \notin created /\ created' = created \cup {t} /\ UNCHANGED <<sem, open>>
      /\ tcb' = IF start THEN [tcb EXCEPT ![t].started = TRUE] ELSE tcb
  BY DEF createThread
<1>2. \A u \in Threads \ {t} : StateOf(u)' = StateOf(u)
  BY <1>0, <1>1, SameState
<1>3. StateOf(t) = "absent"
  BY <1>1, PlaceTellsState
<1>4. tcb[t] = NewTCB /\ t # main
  BY <1>1 DEF IInv, FreeIsConstructed
<1>5. /\ ~tcb[t].started /\ ~tcb[t].finished /\ ~tcb[t].asleep /\ tcb[t].holder = None
  BY <1>4 DEF NewTCB
<1>6. /\ tcb'[t].started <=> start
      /\ ~tcb'[t].finished
      /\ ~tcb'[t].asleep /\ tcb'[t].holder = None
  <2>1. CASE start
    <3>1. tcb'[t] = [tcb[t] EXCEPT !.started = TRUE] /\ tcb[t] \in TCBs
      BY <1>0, <1>1, <2>1
    <3>2. LET g == [tcb[t] EXCEPT !.started = TRUE]
          IN  /\ g.started = TRUE /\ g.finished = tcb[t].finished
              /\ g.asleep = tcb[t].asleep /\ g.holder = tcb[t].holder
      BY <3>1, BlockFields
    <3> QED BY <1>5, <2>1, <3>1, <3>2
  <2>2. CASE ~start
    <3>1. tcb' = tcb
      BY <1>1, <2>2
    <3> QED BY <1>5, <2>2, <3>1
  <2> QED BY <2>1, <2>2
<1>7. CASE start
  <2>1. StateOf(t)' = "runnable"
    BY <1>1, <1>6, <1>7 DEF StateOf
  <2> QED BY <1>1, <1>2, <1>3, <2>1, OneGoes DEF Life!Spawn
<1>8. CASE ~start
  <2>1. StateOf(t)' = "new"
    BY <1>1, <1>4, <1>6, <1>8 DEF StateOf
  <2> QED BY <1>1, <1>2, <1>3, <2>1, OneGoes DEF Life!Create
<1> QED BY <1>7, <1>8

LEMMA StartIsLife ==
  ASSUME IInv, NEW t \in Threads, startThread(t)
  PROVE  Life!Start(t)
<1>0. tcb \in [Threads -> TCBs]
  BY DEF IInv, TypeOK, TCBs
<1>1. /\ t \in created \ {main} /\ ~tcb[t].started /\ UNCHANGED <<created, sem, open>>
      /\ tcb' = [tcb EXCEPT ![t].started = TRUE]
  BY DEF startThread
<1>2. \A u \in Threads \ {t} : StateOf(u)' = StateOf(u)
  BY <1>0, <1>1, SameState
<1>3. StateOf(t) = "new"
  BY <1>1, PlaceTellsState
<1>4. StateOf(t)' = "runnable"
  <2>1. tcb'[t] = [tcb[t] EXCEPT !.started = TRUE] /\ tcb[t] \in TCBs
    BY <1>0, <1>1
  <2>2. ~tcb[t].finished /\ ~Placed(t) /\ ~tcb[t].asleep /\ tcb[t].holder = None
    <3>1. ~Placed(t)
      BY <1>1 DEF IInv, FlagsTellPlace
    <3>2. t \notin Sleepers /\ \A s \in Sems : t \notin Waiters(s)
      BY <3>1 DEF Placed
    <3>3. tcb[t].holder \in Sems \cup {None}
      BY <2>1 DEF TCBs
    <3> QED BY <1>1, <3>1, <3>2, <3>3 DEF IInv, FlagsTellPlace, FinishedRan
  <2>3. LET g == [tcb[t] EXCEPT !.started = TRUE]
        IN  /\ g.started = TRUE /\ g.finished = tcb[t].finished
            /\ g.asleep = tcb[t].asleep /\ g.holder = tcb[t].holder
    BY <2>1, BlockFields
  <2> QED BY <1>1, <2>1, <2>2, <2>3 DEF StateOf
<1> QED BY <1>1, <1>2, <1>3, <1>4, OneGoes DEF Life!Start

LEMMA DestroyIsLife ==
  ASSUME IInv, NEW t \in Threads, destroyThread(t)
  PROVE  Life!Destroy(t)
<1>1. /\ t \in created \ {main}
      /\ tcb[t].finished \/ ~tcb[t].started
      /\ UNCHANGED <<sem, open>>
      /\ tcb' = Freed(t) /\ created' = created \ {t}
  BY DEF destroyThread
<1>2. \A u \in Threads \ {t} : StateOf(u)' = StateOf(u)
  <2>1. \A u \in Threads \ {t} : tcb'[u] = tcb[u]
    BY <1>1 DEF Freed, IInv, TypeOK
  <2> QED BY <1>1, <2>1, SameState
<1>3. StateOf(t) = "new" \/ StateOf(t) = "finished"
  BY <1>1, PlaceTellsState
<1>4. StateOf(t)' = "absent"
  BY <1>1 DEF StateOf
<1> QED BY <1>1, <1>2, <1>3, <1>4, OneGoes DEF Life!Destroy

LEMMA ExitIsLife ==
  ASSUME IInv, NEW t \in Threads, t = running, exit
  PROVE  Life!Exit(t)
<1>0. tcb \in [Threads -> TCBs] /\ running \in Threads
  BY DEF IInv, TypeOK, TCBs
<1>1. UNCHANGED <<created, sem, open>> /\ tcb' = [tcb EXCEPT ![t].finished = TRUE]
  BY DEF exit, Switch
<1>2. \A u \in Threads \ {t} : StateOf(u)' = StateOf(u)
  BY <1>0, <1>1, SameState
<1>3. StateOf(t) = "runnable" /\ t \in created
  BY RunnerRuns
<1>4. StateOf(t)' = "finished"
  <2>1. tcb'[t] = [tcb[t] EXCEPT !.finished = TRUE] /\ tcb[t] \in TCBs
    BY <1>0, <1>1
  <2>2. [tcb[t] EXCEPT !.finished = TRUE].finished = TRUE
    BY <2>1, BlockFields
  <2>3. t \in created' /\ tcb'[t].finished
    BY <1>1, <1>3, <2>1, <2>2
  <2> QED BY <2>3 DEF StateOf
<1> QED BY <1>0, <1>1, <1>2, <1>3, <1>4, OneGoes DEF Life!Exit

LEMMA SleepIsLife ==
  ASSUME IInv, NEW t \in Threads, t = running, NEW time, timeSleep(time)
  PROVE  Life!Sleep(t)
<1>0. tcb \in [Threads -> TCBs] /\ running \in Threads
  BY DEF IInv, TypeOK, TCBs
<1>1. UNCHANGED <<created, sem, open>> /\ tcb' = [tcb EXCEPT ![t].asleep = TRUE]
  BY DEF timeSleep, Switch
<1>2. \A u \in Threads \ {t} : StateOf(u)' = StateOf(u)
  BY <1>0, <1>1, SameState
<1>3. /\ StateOf(t) = "runnable" /\ t \in created
      /\ ~tcb[t].finished /\ tcb[t].holder = None
  BY RunnerRuns
<1>4. StateOf(t)' = "asleep"
  <2>1. tcb'[t] = [tcb[t] EXCEPT !.asleep = TRUE] /\ tcb[t] \in TCBs
    BY <1>0, <1>1
  <2>2. LET g == [tcb[t] EXCEPT !.asleep = TRUE]
        IN  /\ g.started = tcb[t].started /\ g.finished = tcb[t].finished
            /\ g.asleep = TRUE /\ g.holder = tcb[t].holder
    BY <2>1, BlockFields
  <2> QED BY <1>1, <1>3, <2>1, <2>2 DEF StateOf
<1> QED BY <1>0, <1>1, <1>2, <1>3, <1>4, OneGoes DEF Life!Sleep

(* The timer wakes up sleeping threads, and those only.                    *)
LEMMA TimerIsLife ==
  ASSUME IInv, timer
  PROVE  \E T \in SUBSET Threads : Life!WakeUp(T)
<1> DEFINE w == Woken(sleepQ)
<1>0. tcb \in [Threads -> TCBs]
  BY DEF IInv, TypeOK, TCBs
<1>1. /\ UNCHANGED <<created, sem, open>>
      /\ tcb' = [u \in Threads |-> IF u \in Elements(w) THEN Awakened(tcb[u]) ELSE tcb[u]]
  BY DEF timer, Switch
<1>2. Elements(w) \subseteq Sleepers /\ Elements(w) \subseteq Threads
  <2>1. IsSleepQ(sleepQ)
    BY DEF IInv
  <2>2. w \in Seq(Threads) /\ Elements(w) \subseteq Sleepers
    BY <2>1, TickSleeper DEF Sleepers
  <2> QED BY <2>2 DEF IInv, TypeOK, Sleepers
<1> DEFINE T == Elements(w)
<1> HIDE DEF w, T
<1>3. \A u \in Threads \ T : StateOf(u)' = StateOf(u)
  BY <1>1, SameState DEF T
<1>4. \A u \in T : StateOf(u) = "asleep"
  BY <1>2, PlaceTellsState DEF T
<1>5. ASSUME NEW u \in T PROVE StateOf(u)' = "runnable"
  <2>0. u \in Threads /\ u \in Sleepers /\ u \in Elements(w)
    BY <1>2, <1>5 DEF T
  <2>1. tcb'[u] = Awakened(tcb[u]) /\ tcb[u] \in TCBs
    BY <1>0, <1>1, <2>0
  <2>2. Placed(u) /\ \A s \in Sems : u \notin Waiters(s)
    BY <2>0 DEF Placed, IInv, OnePlace
  <2>3. /\ u \in created /\ ~tcb[u].finished /\ tcb[u].holder = None
        /\ tcb[u].started \/ u = main
    <3>1. tcb[u].holder \in Sems \cup {None}
      BY <2>1 DEF TCBs
    <3> QED BY <2>0, <2>2, <3>1 DEF IInv, FlagsTellPlace
  <2>4. /\ Awakened(tcb[u]).started = tcb[u].started /\ Awakened(tcb[u]).finished = tcb[u].finished
        /\ Awakened(tcb[u]).asleep = FALSE /\ Awakened(tcb[u]).holder = tcb[u].holder
    BY <2>1, BlockFields
  <2> QED BY <1>1, <2>1, <2>3, <2>4 DEF StateOf
<1>6. T \subseteq Threads
  BY <1>2 DEF T
<1>7. [u \in Threads |-> StateOf(u)]'
        = [u \in Threads |-> IF u \in T THEN "runnable" ELSE [v \in Threads |-> StateOf(v)][u]]
  BY <1>3, <1>5
<1>8. \A u \in T : [v \in Threads |-> StateOf(v)][u] = "asleep"
  BY <1>4, <1>6
<1>9. UNCHANGED [r \in Sems |-> TokensOf(r)]
  BY <1>1 DEF TokensOf
<1>10. Life!WakeUp(T)
  BY <1>1, <1>7, <1>8, <1>9 DEF Life!WakeUp
<1> QED BY <1>6, <1>10

(* The calls of semaphores.                                                *)
LEMMA OpenIsLife ==
  ASSUME IInv, NEW s \in Sems, NEW init \in 0 .. MaxVal, semOpen(s, init)
  PROVE  Life!Open(s, init)
<1>1. /\ s \notin open /\ open' = open \cup {s} /\ UNCHANGED <<tcb, created>>
      /\ sem' = [sem EXCEPT ![s] = [val |-> init, queue |-> <<>>]]
  BY DEF semOpen
<1>2. UNCHANGED [u \in Threads |-> StateOf(u)]
  BY <1>1, SameState, SameStates
<1>3. init \in Nat
  BY ThreadsAssumption
<1>4. sem'[s].val = init /\ \A r \in Sems \ {s} : sem'[r] = sem[r]
  BY <1>1 DEF IInv, TypeOK
<1>5. TokensOf(s)' = init
  BY <1>3, <1>4 DEF TokensOf
<1>6. [r \in Sems |-> TokensOf(r)]' = [[r \in Sems |-> TokensOf(r)] EXCEPT ![s] = init]
  BY <1>4, <1>5, OneToken
<1> QED BY <1>1, <1>2, <1>6 DEF Life!Open

LEMMA WaitIsLife ==
  ASSUME IInv, NEW t \in Threads, t = running, NEW s \in Sems, semWait(s)
  PROVE  Life!Wait(t, s)
<1>0. tcb \in [Threads -> TCBs] /\ running \in Threads
      /\ sem \in [Sems -> [val : Int, queue : Seq(Threads)]]
  BY DEF IInv, TypeOK, TCBs
<1>1. s \in open /\ UNCHANGED <<created, open>>
  BY DEF semWait
<1>2. /\ StateOf(t) = "runnable" /\ t \in created
      /\ ~tcb[t].finished /\ tcb[t].holder = None
  BY RunnerRuns
<1>3. [u \in Threads |-> StateOf(u)][t] = "runnable"
  BY <1>0, <1>2
<1>4. sem[s].val \in Int /\ \A r \in Sems \ {s} : sem'[r] = sem[r]
  BY <1>0 DEF semWait
<1>5. [r \in Sems |-> TokensOf(r)][s] = TokensOf(s)
  OBVIOUS
<1>6. CASE Blocks(s)
  <2>1. /\ sem' = [sem EXCEPT ![s].val = @ - 1, ![s].queue = Append(@, running)]
        /\ tcb' = [tcb EXCEPT ![t].blocked = TRUE, ![t].holder = s]
    BY <1>6 DEF semWait, Switch
  <2>2. sem'[s].val = sem[s].val - 1
    BY <1>0, <2>1
  <2>3. ~(TokensOf(s) > 0) /\ TokensOf(s)' = TokensOf(s)
    BY <1>4, <1>6, <2>2 DEF Blocks, TokensOf
  <2>4. \A u \in Threads \ {t} : StateOf(u)' = StateOf(u)
    BY <1>0, <1>1, <2>1, SameState
  <2>5. StateOf(t)' = s
    <3>1. /\ tcb[t] \in TCBs
          /\ tcb'[t] = [tcb[t] EXCEPT !.blocked = TRUE, !.holder = s]
      BY <1>0, <2>1
    <3>2. LET g == [tcb[t] EXCEPT !.blocked = TRUE, !.holder = s]
          IN  /\ g.started = tcb[t].started /\ g.finished = tcb[t].finished
              /\ g.asleep = tcb[t].asleep /\ g.holder = s
      BY <3>1, BlockFields
    <3>3. s # None
      BY ThreadsAssumption
    <3> QED BY <1>1, <1>2, <3>1, <3>2, <3>3 DEF StateOf
  <2>6. [u \in Threads |-> StateOf(u)]' = [[u \in Threads |-> StateOf(u)] EXCEPT ![t] = s]
    BY <1>0, <2>4, <2>5, OneState
  <2>7. UNCHANGED [r \in Sems |-> TokensOf(r)]
    <3>1. \A r \in Sems \ {s} : TokensOf(r)' = TokensOf(r)
      BY <1>4 DEF TokensOf
    <3> QED BY <2>3, <3>1, SameTokens
  <2> HIDE DEF TokensOf
  <2> QED BY <1>1, <1>3, <1>5, <2>3, <2>6, <2>7 DEF Life!Wait
<1>7. CASE ~Blocks(s)
  <2>1. sem' = [sem EXCEPT ![s].val = @ - 1] /\ UNCHANGED tcb
    BY <1>7 DEF semWait
  <2>2. sem'[s].val = sem[s].val - 1
    BY <1>0, <2>1
  <2>3. TokensOf(s) > 0 /\ TokensOf(s)' = TokensOf(s) - 1
    BY <1>4, <1>7, <2>2 DEF Blocks, TokensOf
  <2>4. UNCHANGED [u \in Threads |-> StateOf(u)]
    BY <1>1, <2>1, SameState, SameStates
  <2>5. [r \in Sems |-> TokensOf(r)]' = [[r \in Sems |-> TokensOf(r)] EXCEPT ![s] = TokensOf(s) - 1]
    BY <1>4, <2>3, OneToken
  <2> QED BY <1>1, <1>3, <1>5, <2>3, <2>4, <2>5 DEF Life!Wait
<1> QED BY <1>6, <1>7

LEMMA SignalIsLife ==
  ASSUME IInv, NEW s \in Sems, semSignal(s)
  PROVE  Life!Signal(s)
<1>0. tcb \in [Threads -> TCBs]
      /\ sem \in [Sems -> [val : Int, queue : Seq(Threads)]]
  BY DEF IInv, TypeOK, TCBs
<1>1. s \in open /\ UNCHANGED <<created, open>>
  BY DEF semSignal
<1>2. sem[s].val \in Int /\ \A r \in Sems \ {s} : sem'[r] = sem[r]
  BY <1>0 DEF semSignal
<1>3. Life!WaitingFor(s) = Waiters(s)
  <2>1. Waiters(s) \subseteq Threads
    BY <1>0 DEF Waiters, Elements
  <2>2. \A u \in Threads : u \in Waiters(s) <=> StateOf(u) = s
    BY PlaceTellsState
  <2> QED BY <2>1, <2>2 DEF Life!WaitingFor
<1>4. sem[s].queue \in Seq(Threads)
      /\ Len(sem[s].queue) = IF sem[s].val < 0 THEN -sem[s].val ELSE 0
  BY <1>0 DEF IInv, QueueLengths
<1>5. [r \in Sems |-> TokensOf(r)][s] = TokensOf(s)
  OBVIOUS
<1>6. CASE sem[s].val < 0
  <2>1. sem[s].queue # <<>>
    BY <1>2, <1>4, <1>6
  <2>2. PICK t \in Threads : t = Head(sem[s].queue)
    BY <1>4, <2>1, TailElements
  <2>3. t \in Waiters(s)
    BY <1>4, <2>1, <2>2, TailElements DEF Waiters
  <2>4. /\ sem' = [sem EXCEPT ![s].val = @ + 1, ![s].queue = Tail(@)]
         /\ tcb' = [tcb EXCEPT ![t] = Removed(@)]
    BY <1>6, <2>2 DEF semSignal
  <2>5. \A u \in Threads \ {t} : StateOf(u)' = StateOf(u)
    BY <1>0, <1>1, <2>4, SameState
  <2>6. StateOf(t)' = "runnable"
    <3>1. tcb'[t] = Removed(tcb[t]) /\ tcb[t] \in TCBs
      BY <1>0, <2>4
    <3>2. t \notin Sleepers /\ Placed(t)
      BY <2>3 DEF IInv, OnePlace, Placed
    <3>3. /\ ~tcb[t].asleep /\ t \in created /\ ~tcb[t].finished
          /\ tcb[t].started \/ t = main
      BY <2>3, <3>2 DEF IInv, FlagsTellPlace
    <3>4. /\ Removed(tcb[t]).started = tcb[t].started /\ Removed(tcb[t]).finished = tcb[t].finished
          /\ Removed(tcb[t]).asleep = tcb[t].asleep /\ Removed(tcb[t]).holder = None
      BY <3>1, BlockFields
    <3> QED BY <1>1, <3>1, <3>3, <3>4 DEF StateOf
  <2>7. sem'[s].val = sem[s].val + 1
    BY <1>0, <2>4
  <2>8. TokensOf(s)' = TokensOf(s)
    BY <1>2, <1>6, <2>7 DEF TokensOf
  <2>9. UNCHANGED [r \in Sems |-> TokensOf(r)]
    <3>1. \A r \in Sems \ {s} : TokensOf(r)' = TokensOf(r)
      BY <1>2 DEF TokensOf
    <3> QED BY <2>8, <3>1, SameTokens
  <2>10. [u \in Threads |-> StateOf(u)]' = [[u \in Threads |-> StateOf(u)] EXCEPT ![t] = "runnable"]
    BY <2>5, <2>6, OneState
  <2>11. Life!WaitingFor(s) # {} /\ t \in Life!WaitingFor(s)
    BY <1>3, <2>3
  <2> QED BY <1>1, <2>9, <2>10, <2>11 DEF Life!Signal
<1>7. CASE ~(sem[s].val < 0)
  <2>1. sem' = [sem EXCEPT ![s].val = @ + 1] /\ UNCHANGED tcb
    BY <1>7 DEF semSignal
  <2>2. sem'[s].val = sem[s].val + 1
    BY <1>0, <2>1
  <2>3. TokensOf(s)' = TokensOf(s) + 1
    BY <1>2, <1>7, <2>2 DEF TokensOf
  <2>4. UNCHANGED [u \in Threads |-> StateOf(u)]
    BY <1>1, <2>1, SameState, SameStates
  <2>5. Life!WaitingFor(s) = {}
    BY <1>3, <1>4, <1>7 DEF Waiters, Elements
  <2>6. [r \in Sems |-> TokensOf(r)]' = [[r \in Sems |-> TokensOf(r)] EXCEPT ![s] = TokensOf(s) + 1]
    BY <1>2, <2>3, OneToken
  <2> QED BY <1>1, <1>5, <2>4, <2>5, <2>6 DEF Life!Signal
<1> QED BY <1>6, <1>7

LEMMA CloseIsLife ==
  ASSUME IInv, NEW s \in Sems, semClose(s)
  PROVE  Life!Close(s)
<1>0. tcb \in [Threads -> TCBs]
      /\ sem \in [Sems -> [val : Int, queue : Seq(Threads)]]
  BY DEF IInv, TypeOK, TCBs
<1>1. /\ s \in open /\ open' = open \ {s} /\ UNCHANGED created
      /\ sem' = [sem EXCEPT ![s] = NewSem]
      /\ tcb' = [u \in Threads |-> IF u \in Waiters(s) THEN Released(tcb[u]) ELSE tcb[u]]
  BY DEF semClose, Waiters
<1>2. \A u \in Threads : StateOf(u) = s <=> u \in Waiters(s)
  BY PlaceTellsState
<1>3. \A u \in Threads \ Waiters(s) : StateOf(u)' = StateOf(u)
  BY <1>1, SameState
<1>4. ASSUME NEW u \in Threads, u \in Waiters(s) PROVE StateOf(u)' = "runnable"
  <2>1. tcb'[u] = Released(tcb[u]) /\ tcb[u] \in TCBs
    BY <1>0, <1>1, <1>4
  <2>2. u \notin Sleepers /\ Placed(u)
    BY <1>4 DEF IInv, OnePlace, Placed
  <2>3. /\ ~tcb[u].asleep /\ u \in created /\ ~tcb[u].finished
        /\ tcb[u].started \/ u = main
    BY <2>2 DEF IInv, FlagsTellPlace
  <2>4. /\ Released(tcb[u]).started = tcb[u].started /\ Released(tcb[u]).finished = tcb[u].finished
        /\ Released(tcb[u]).asleep = tcb[u].asleep /\ Released(tcb[u]).holder = None
    BY <2>1, BlockFields
  <2> QED BY <1>1, <2>1, <2>3, <2>4 DEF StateOf
<1>5. sem'[s].val = 0 /\ \A r \in Sems \ {s} : sem'[r] = sem[r]
  BY <1>0, <1>1 DEF NewSem
<1>6. TokensOf(s)' = 0
  BY <1>5 DEF TokensOf
<1>7. [r \in Sems |-> TokensOf(r)]' = [[r \in Sems |-> TokensOf(r)] EXCEPT ![s] = 0]
  BY <1>5, <1>6, OneToken
<1>8. [u \in Threads |-> StateOf(u)]'
        = [u \in Threads |-> IF [v \in Threads |-> StateOf(v)][u] = s
                             THEN "runnable" ELSE [v \in Threads |-> StateOf(v)][u]]
  <2>1. \A u \in Threads : StateOf(u)' = IF StateOf(u) = s THEN "runnable" ELSE StateOf(u)
    BY <1>2, <1>3, <1>4
  <2> QED BY <2>1
<1> QED BY <1>1, <1>7, <1>8 DEF Life!Close

(* Each system call and the timer take the threads and semaphores that     *)
(* programs see from state to state as ThreadLife lets them, and a context *)
(* switch does not show.                                                   *)
LEMMA StepsAreLife ==
  IInv /\ [Next]_vars => [Life!LifeNext]_(Life!lifeVars)
<1> SUFFICES ASSUME IInv, [Next]_vars PROVE [Life!LifeNext]_(Life!lifeVars)
  OBVIOUS
<1>0. running \in Threads
  BY DEF IInv, TypeOK
<1>1. ASSUME UNCHANGED <<tcb, created, sem, open>> PROVE UNCHANGED Life!lifeVars
  <2>1. UNCHANGED [u \in Threads |-> StateOf(u)]
    BY <1>1, SameState, SameStates
  <2>2. UNCHANGED [r \in Sems |-> TokensOf(r)]
    BY <1>1 DEF TokensOf
  <2> QED BY <1>1, <2>1, <2>2 DEF Life!lifeVars
<1>2. CASE dispatch
  BY <1>1, <1>2 DEF dispatch, Switch
<1>3. CASE UNCHANGED vars
  BY <1>1, <1>3 DEF vars
<1>4. ASSUME NEW t \in Threads, NEW start \in BOOLEAN, createThread(t, start)
      PROVE  Life!LifeNext
  BY <1>4, CreateIsLife DEF Life!LifeNext
<1>5. ASSUME NEW t \in Threads, startThread(t) PROVE Life!LifeNext
  BY <1>5, StartIsLife DEF Life!LifeNext
<1>6. ASSUME NEW t \in Threads, destroyThread(t) PROVE Life!LifeNext
  BY <1>6, DestroyIsLife DEF Life!LifeNext
<1>7. CASE exit
  BY <1>0, <1>7, ExitIsLife DEF Life!LifeNext
<1>8. ASSUME NEW s \in Sems, NEW init \in 0 .. MaxVal, semOpen(s, init) PROVE Life!LifeNext
  BY <1>8, OpenIsLife DEF Life!LifeNext
<1>9. ASSUME NEW s \in Sems, semWait(s) PROVE Life!LifeNext
  BY <1>0, <1>9, WaitIsLife DEF Life!LifeNext
<1>10. ASSUME NEW s \in Sems, semSignal(s) PROVE Life!LifeNext
  BY <1>10, SignalIsLife DEF Life!LifeNext
<1>11. ASSUME NEW s \in Sems, semClose(s) PROVE Life!LifeNext
  BY <1>11, CloseIsLife DEF Life!LifeNext
<1>12. ASSUME NEW time \in 1 .. MaxSleep, timeSleep(time) PROVE Life!LifeNext
  BY <1>0, <1>12, SleepIsLife DEF Life!LifeNext
<1>13. CASE timer
  BY <1>13, TimerIsLife DEF Life!LifeNext
<1> QED
  BY <1>2, <1>3, <1>4, <1>5, <1>6, <1>7, <1>8, <1>9, <1>10, <1>11, <1>12, <1>13 DEF Next, Call

(* At the start the threads that main() has started are runnable, and no   *)
(* other one is there.                                                     *)
LEMMA InitIsLife == Init => Life!LifeInit
<1> SUFFICES ASSUME Init PROVE Life!LifeInit
  OBVIOUS
<1>1. IInv
  BY InitHolds
<1>2. /\ running = main /\ ready = booted /\ open = {}
      /\ created = Elements(booted) \cup {main}
  BY DEF Init
<1>3. \A t \in Threads : StateOf(t) = IF t \in Elements(booted) \cup {main}
                                      THEN "runnable" ELSE "absent"
  BY <1>1, <1>2, PlaceTellsState DEF Active
<1>4. \A s \in Sems : TokensOf(s) = 0
  BY DEF Init, NewSem, TokensOf
<1> QED BY <1>2, <1>3, <1>4 DEF Life!LifeInit

(* The kernel keeps the promise of ThreadLife, for any number of threads   *)
(* and semaphores: a wait ends by one signal or the closing, no signal is  *)
(* lost, and no thread is seen to live or to die by anything but a call.   *)
THEOREM ImplementsThreadLifeHolds == Spec => ImplementsThreadLife
BY InitIsLife, StepsAreLife, Invariant, PTL DEF Spec, ImplementsThreadLife, Life!LifeSpec

-----------------------------------------------------------------------------
(* The times of the sleep queue: how long each thread in it still sleeps,  *)
(* and the order in which they wake up.  A first node of zero would never  *)
(* be found by a tick.                                                     *)
Timed(q) ==
  /\ \A i \in 1 .. Len(q) : q[i].time \in Nat
  /\ Len(q) > 0 => q[1].time > 0

(* d adds up the times of the first n nodes.                               *)
AddsUp(q, n, d) == d[0] = 0 /\ \A i \in 1 .. n : d[i] = d[i - 1] + q[i].time

LEMMA DueExists ==
  ASSUME NEW q, NEW n \in Nat
  PROVE  \E d : d = [i \in 0 .. n |-> IF i = 0 THEN 0 ELSE d[i - 1] + q[i].time]
<1>1. PICK T : T = {k \in 0 .. n : \E g : DOMAIN g = 0 .. k /\ AddsUp(q, k, g)}
  OBVIOUS
<1>2. 0 \in T
  <2>1. PICK g : g = [i \in 0 .. 0 |-> 0]
    OBVIOUS
  <2>2. DOMAIN g = 0 .. 0 /\ g[0] = 0 /\ \A i \in 1 .. 0 : FALSE
    BY <2>1
  <2>3. AddsUp(q, 0, g)
    BY <2>2 DEF AddsUp
  <2> QED BY <1>1, <2>2, <2>3
<1>3. ASSUME NEW k \in 0 .. n, k \in T, k < n PROVE k + 1 \in T
  <2>1. PICK g : DOMAIN g = 0 .. k /\ AddsUp(q, k, g)
    BY <1>1, <1>3
  <2>2. PICK e : e = g[k] + q[k + 1].time
    OBVIOUS
  <2>3. PICK h : h = [i \in 0 .. k + 1 |-> IF i = k + 1 THEN e ELSE g[i]]
    OBVIOUS
  <2>4. h[k + 1] = e /\ \A i \in 0 .. k : h[i] = g[i]
    BY <2>3
  <2>5. ASSUME NEW i \in 1 .. k + 1 PROVE h[i] = h[i - 1] + q[i].time
    <3>1. CASE i = k + 1
      <4>1. i - 1 = k /\ k \in 0 .. k
        BY <3>1
      <4> QED BY <2>2, <2>4, <3>1, <4>1
    <3>2. CASE i # k + 1
      <4>1. i \in 1 .. k /\ i \in 0 .. k /\ i - 1 \in 0 .. k
        BY <3>2
      <4> QED BY <2>1, <2>4, <4>1 DEF AddsUp
    <3> QED BY <3>1, <3>2
  <2>6. h[0] = 0 /\ DOMAIN h = 0 .. k + 1 /\ k + 1 \in 0 .. n
    BY <1>3, <2>1, <2>3, <2>4 DEF AddsUp
  <2>7. AddsUp(q, k + 1, h)
    BY <2>5, <2>6 DEF AddsUp
  <2> QED BY <1>1, <2>6, <2>7
<1>4. n \in T
  <2>1. \A k \in 0 .. n : k \in T
    BY <1>2, <1>3, Up
  <2> QED BY <2>1
<1>5. PICK g : DOMAIN g = 0 .. n /\ AddsUp(q, n, g)
  BY <1>1, <1>4
<1>6. PICK h : h = [i \in 0 .. n |-> IF i = 0 THEN 0 ELSE g[i - 1] + q[i].time]
  OBVIOUS
<1>7. \A i \in 0 .. n : h[i] = g[i] /\ (i # 0 => i - 1 \in 0 .. n)
  <2>1. ASSUME NEW i \in 0 .. n, i # 0 PROVE i \in 1 .. n /\ i - 1 \in 0 .. n
    BY <2>1
  <2> QED BY <1>5, <1>6, <2>1 DEF AddsUp
<1>8. h = [i \in 0 .. n |-> IF i = 0 THEN 0 ELSE h[i - 1] + q[i].time]
  BY <1>6, <1>7
<1> QED BY <1>8

LEMMA DueIs ==
  ASSUME NEW q, Len(q) \in Nat
  PROVE  AddsUp(q, Len(q), DueTimes(q))
<1>1. PICK n \in Nat : n = Len(q)
  OBVIOUS
<1>2. PICK d : d = DueTimes(q)
  OBVIOUS
<1>3. d = CHOOSE g : g = [i \in 0 .. n |-> IF i = 0 THEN 0 ELSE g[i - 1] + q[i].time]
  BY <1>1, <1>2 DEF DueTimes
<1>4. d = [i \in 0 .. n |-> IF i = 0 THEN 0 ELSE d[i - 1] + q[i].time]
  BY <1>3, DueExists
<1>5. \A i \in 1 .. n : i \in 0 .. n /\ i # 0
  OBVIOUS
<1>6. d[0] = 0 /\ \A i \in 1 .. n : d[i] = d[i - 1] + q[i].time
  BY <1>4, <1>5
<1> QED BY <1>1, <1>2, <1>6 DEF AddsUp

(* The sums are numbers that grow, and only one function adds up.          *)
LEMMA DueGrows ==
  ASSUME NEW q, NEW n \in Nat, n = Len(q), Timed(q), NEW d, AddsUp(q, n, d)
  PROVE  /\ \A i \in 0 .. n : d[i] \in Nat /\ d[i] = DueTimes(q)[i]
         /\ \A i, j \in 0 .. n : i <= j => d[i] <= d[j]
         /\ \A i \in 1 .. n : d[i] > 0
<1>1. AddsUp(q, n, DueTimes(q))
  BY DueIs
<1>2. PICK T : T = {k \in 0 .. n : d[k] \in Nat /\ d[k] = DueTimes(q)[k]}
  OBVIOUS
<1>3. 0 \in T
  BY <1>1, <1>2 DEF AddsUp
<1>4. ASSUME NEW k \in 0 .. n, k \in T, k < n PROVE k + 1 \in T
  <2>1. k + 1 \in 1 .. n /\ k + 1 \in 0 .. n /\ (k + 1) - 1 = k
    BY <1>4
  <2>2. d[k + 1] = d[k] + q[k + 1].time /\ DueTimes(q)[k + 1] = DueTimes(q)[k] + q[k + 1].time
    BY <1>1, <2>1 DEF AddsUp
  <2>3. q[k + 1].time \in Nat
    BY <2>1 DEF Timed
  <2> QED BY <1>2, <1>4, <2>1, <2>2, <2>3
<1>5. \A k \in 0 .. n : k \in T
  BY <1>3, <1>4, Up
<1>6. ASSUME NEW i \in 0 .. n, NEW j \in 0 .. n, i <= j PROVE d[i] <= d[j]
  <2>1. PICK U : U = {k \in i .. n : d[i] <= d[k]}
    OBVIOUS
  <2>2. i \in U
    BY <1>2, <1>5, <2>1
  <2>3. ASSUME NEW k \in i .. n, k \in U, k < n PROVE k + 1 \in U
    <3>1. k + 1 \in 1 .. n /\ k \in 0 .. n /\ k + 1 \in i .. n /\ (k + 1) - 1 = k
      BY <2>3
    <3>2. d[k + 1] = d[k] + q[k + 1].time /\ q[k + 1].time \in Nat
      BY <3>1 DEF AddsUp, Timed
    <3>3. d[k] \in Nat /\ d[i] \in Nat /\ d[i] <= d[k]
      BY <1>2, <1>5, <2>1, <2>3, <3>1
    <3>4. d[i] <= d[k + 1]
      BY <3>2, <3>3
    <3> QED BY <2>1, <3>1, <3>4
  <2>4. \A k \in i .. n : k \in U
    <3>1. i \in Nat
      OBVIOUS
    <3> QED BY <2>2, <2>3, <3>1, Up
  <2> QED BY <1>6, <2>1, <2>4
<1>7. ASSUME NEW i \in 1 .. n PROVE d[i] > 0
  <2>1. 1 \in 1 .. n /\ 1 \in 0 .. n /\ i \in 0 .. n /\ 1 <= i /\ 1 - 1 = 0 /\ n > 0
    OBVIOUS
  <2>2. d[1] = 0 + q[1].time /\ q[1].time > 0 /\ q[1].time \in Nat
    BY <2>1 DEF AddsUp, Timed
  <2>3. d[1] <= d[i] /\ d[i] \in Nat
    BY <1>2, <1>5, <1>6, <2>1
  <2> QED BY <2>2, <2>3
<1> QED BY <1>2, <1>5, <1>6, <1>7

(* The number of a set of indices that is closed downwards is the last.    *)
LEMMA Prefix ==
  ASSUME NEW n \in Nat, NEW I \in SUBSET (1 .. n), \A j \in I : \A i \in 1 .. j : i \in I
  PROVE  Cardinality(I) \in 0 .. n /\ \A i \in 1 .. n : i \in I <=> i <= Cardinality(I)
<1>1. ASSUME NEW p \in 0 .. n, I = 1 .. p
      PROVE  Cardinality(I) \in 0 .. n /\ \A i \in 1 .. n : i \in I <=> i <= Cardinality(I)
  <2>1. Cardinality(1 .. p) = p
    BY FS_Interval
  <2> QED BY <1>1, <2>1
<1>2. CASE I = 1 .. n
  <2>1. n \in 0 .. n
    OBVIOUS
  <2> QED BY <1>1, <1>2, <2>1
<1>3. CASE I # 1 .. n
  <2>1. PICK U \in SUBSET Nat : U = {i \in 1 .. n : i \notin I}
    <3>1. {i \in 1 .. n : i \notin I} \subseteq Nat
      OBVIOUS
    <3> QED BY <3>1
  <2>2. U # {}
    BY <1>3, <2>1
  <2>3. PICK k \in U : \A j \in U : k <= j
    BY <2>2, Least
  <2>4. k \in 1 .. n /\ k \notin I
    BY <2>1, <2>3
  <2>5. ASSUME NEW i \in 1 .. n PROVE i \in I <=> i <= k - 1
    <3>1. ASSUME i \in I, k <= i PROVE FALSE
      BY <2>4, <3>1
    <3>2. ASSUME i \notin I, i <= k - 1 PROVE FALSE
      BY <2>1, <2>3, <2>4, <3>2
    <3> QED BY <2>4, <3>1, <3>2
  <2>6. I = 1 .. k - 1 /\ k - 1 \in 0 .. n
    <3>1. k - 1 \in 0 .. n /\ \A i \in 1 .. k - 1 : i \in 1 .. n /\ i <= k - 1
      BY <2>4
    <3>2. \A i \in 1 .. k - 1 : i \in I
      BY <2>5, <3>1
    <3>3. \A i \in I : i \in 1 .. n /\ i \in 1 .. k - 1
      BY <2>5, <3>1
    <3> QED BY <3>1, <3>2, <3>3
  <2> QED BY <1>1, <2>6
<1> QED BY <1>2, <1>3

(* Before the place of a new node are those that wake up no later.         *)
LEMMA PlaceSplits ==
  ASSUME NEW q, NEW n \in Nat, n = Len(q), Timed(q), NEW time \in Nat
  PROVE  /\ Place(q, time) \in 0 .. n
         /\ \A i \in 1 .. n : DueTimes(q)[i] <= time <=> i <= Place(q, time)
<1>1. PICK d : d = DueTimes(q)
  OBVIOUS
<1>2. PICK I \in SUBSET (1 .. n) : I = {i \in 1 .. n : d[i] <= time}
  <2>1. {i \in 1 .. n : d[i] <= time} \subseteq 1 .. n
    OBVIOUS
  <2> QED BY <2>1
<1>3. /\ \A i \in 0 .. n : d[i] \in Nat
      /\ \A i, j \in 0 .. n : i <= j => d[i] <= d[j]
  BY <1>1, DueIs, DueGrows
<1>4. ASSUME NEW j \in I, NEW i \in 1 .. j PROVE i \in I
  <2>1. j \in 1 .. n /\ i \in 1 .. n /\ i \in 0 .. n /\ j \in 0 .. n /\ i <= j /\ d[j] <= time
    BY <1>2
  <2>2. d[i] <= d[j] /\ d[i] \in Nat /\ d[j] \in Nat
    BY <1>3, <2>1
  <2> QED BY <1>2, <2>1, <2>2
<1>5. Place(q, time) = Cardinality(I)
  BY <1>1, <1>2 DEF Place
<1>6. Cardinality(I) \in 0 .. n /\ \A i \in 1 .. n : i \in I <=> i <= Cardinality(I)
  BY <1>4, Prefix
<1> QED BY <1>1, <1>2, <1>5, <1>6

(* The nodes of a queue to which one was added.                            *)
AddedTo(q, n, t, p, x, a) ==
  /\ Len(a) = n + 1
  /\ \A i \in 1 .. p : a[i] = q[i]
  /\ a[p + 1].tcb = t /\ a[p + 1].time = x
  /\ \A i \in p + 1 .. n :
       /\ a[i + 1].tcb = q[i].tcb
       /\ a[i + 1].time = IF i = p + 1 THEN q[i].time - x ELSE q[i].time

LEMMA AddNodes ==
  ASSUME NEW q, NEW n \in Nat, n = Len(q), NEW t, NEW time, NEW p \in 0 .. n,
         p = Place(q, time), NEW x, x = time - DueTimes(q)[p],
         \A i \in 1 .. n : q[i] = [tcb |-> q[i].tcb, time |-> q[i].time],
         NEW a, a = Add(q, t, time)
  PROVE  AddedTo(q, n, t, p, x, a)
<1>1. PICK node : node = [tcb |-> t, time |-> x]
  OBVIOUS
<1>2. node.time = x /\ node.tcb = t
  BY <1>1
<1>3. a = [i \in 1 .. n + 1 |->
             IF i <= p THEN q[i]
             ELSE IF i = p + 1 THEN node
             ELSE IF i = p + 2 THEN CountingFrom(q[i - 1], x)
             ELSE q[i - 1]]
  BY <1>1, <1>2 DEF Add
<1>4. Len(a) = n + 1
  <2>1. n + 1 \in Nat /\ a = [i \in 1 .. n + 1 |-> a[i]]
    BY <1>3
  <2> QED BY <2>1, LenOfFunction
<1>5. \A i \in 1 .. p : a[i] = q[i]
  <2>1. \A i \in 1 .. p : i \in 1 .. n + 1 /\ i <= p
    OBVIOUS
  <2> QED BY <1>3, <2>1
<1>6. a[p + 1] = node
  <2>1. p + 1 \in 1 .. n + 1 /\ ~(p + 1 <= p)
    OBVIOUS
  <2> QED BY <1>3, <2>1
<1>7. ASSUME NEW i \in p + 1 .. n
      PROVE  /\ a[i + 1].tcb = q[i].tcb
             /\ a[i + 1].time = IF i = p + 1 THEN q[i].time - x ELSE q[i].time
  <2>1. /\ i + 1 \in 1 .. n + 1 /\ ~(i + 1 <= p) /\ i + 1 # p + 1 /\ (i + 1) - 1 = i
        /\ i \in 1 .. n /\ (i + 1 = p + 2 <=> i = p + 1)
    OBVIOUS
  <2>2. CASE i = p + 1
    <3>1. a[i + 1] = CountingFrom(q[i], x)
      BY <1>3, <2>1, <2>2
    <3>2. PICK old : old = q[i] /\ old = [tcb |-> old.tcb, time |-> old.time]
      BY <2>1
    <3>3. CountingFrom(old, x) = [tcb |-> old.tcb, time |-> old.time - x]
      BY <3>2 DEF CountingFrom
    <3> QED BY <2>2, <3>1, <3>2, <3>3
  <2>3. CASE i # p + 1
    <3>1. a[i + 1] = q[i]
      BY <1>3, <2>1, <2>3
    <3> QED BY <2>3, <3>1
  <2> QED BY <2>2, <2>3
<1> QED BY <1>2, <1>4, <1>5, <1>6, <1>7 DEF AddedTo

(* Nobody's time changes when one is added, and it gets the time it asks.  *)
LEMMA AddDue ==
  ASSUME NEW q, NEW n \in Nat, n = Len(q), IsSleepQ(q), Timed(q), NEW t, NEW time \in Nat \ {0},
         NEW p, p = Place(q, time), NEW a, a = Add(q, t, time)
  PROVE  /\ Timed(a) /\ Len(a) = n + 1 /\ p \in 0 .. n
         /\ a[p + 1].tcb = t /\ DueTimes(a)[p + 1] = time
         /\ \A i \in 1 .. p : a[i].tcb = q[i].tcb /\ DueTimes(a)[i] = DueTimes(q)[i]
         /\ \A i \in p + 1 .. n : a[i + 1].tcb = q[i].tcb /\ DueTimes(a)[i + 1] = DueTimes(q)[i]
         /\ \A i \in 1 .. n : DueTimes(q)[i] <= time <=> i <= p
<1>1. PICK d : d = DueTimes(q)
  OBVIOUS
<1>2. PICK x : x = time - d[p]
  OBVIOUS
<1>3. /\ AddsUp(q, n, d) /\ \A i \in 0 .. n : d[i] \in Nat
      /\ \A i \in 1 .. n : d[i] > 0
  BY <1>1, DueIs, DueGrows
<1>4. p \in 0 .. n /\ \A i \in 1 .. n : d[i] <= time <=> i <= p
  BY <1>1, PlaceSplits
<1>5. \A i \in 1 .. n : q[i] = [tcb |-> q[i].tcb, time |-> q[i].time]
  BY DEF IsSleepQ
<1>6. /\ Len(a) = n + 1
      /\ \A i \in 1 .. p : a[i] = q[i]
      /\ a[p + 1].tcb = t /\ a[p + 1].time = x
      /\ \A i \in p + 1 .. n :
           /\ a[i + 1].tcb = q[i].tcb
           /\ a[i + 1].time = IF i = p + 1 THEN q[i].time - x ELSE q[i].time
  <2>1. x = time - DueTimes(q)[p] /\ p \in 0 .. n
    BY <1>1, <1>2, <1>4
  <2>2. n \in Nat /\ n = Len(q) /\ p = Place(q, time) /\ a = Add(q, t, time)
    OBVIOUS
  <2>3. AddedTo(q, n, t, p, x, a)
    BY ONLY <1>5, <2>1, <2>2, AddNodes
  <2> QED BY <2>3 DEF AddedTo
<1>7. x \in Nat /\ (p = 0 => x > 0)
  <2>1. CASE p = 0
    BY <1>2, <1>3, <2>1 DEF AddsUp
  <2>2. CASE p # 0
    <3>1. p \in 1 .. n /\ p \in 0 .. n
      BY <1>4, <2>2
    <3>2. d[p] <= time /\ d[p] \in Nat
      BY <1>3, <1>4, <3>1
    <3> QED BY <1>2, <2>2, <3>2
  <2> QED BY <2>1, <2>2
<1>8. ASSUME p < n
      PROVE  /\ d[p + 1] = d[p] + q[p + 1].time /\ d[p + 1] \in Nat /\ q[p + 1].time \in Nat
             /\ d[p] \in Nat /\ q[p + 1].time - x \in Nat
  <2>1. p + 1 \in 1 .. n /\ p + 1 \in 0 .. n /\ (p + 1) - 1 = p /\ ~(p + 1 <= p)
    BY <1>4, <1>8
  <2>2. d[p + 1] = d[p] + q[p + 1].time /\ q[p + 1].time \in Nat
    BY <1>3, <2>1 DEF AddsUp, Timed
  <2>3. d[p + 1] \in Nat /\ d[p] \in Nat /\ ~(d[p + 1] <= time)
    BY <1>3, <1>4, <2>1
  <2> QED BY <1>2, <2>2, <2>3
<1>9. Timed(a)
  <2>1. ASSUME NEW i \in 1 .. n + 1 PROVE a[i].time \in Nat
    <3>1. CASE i <= p
      <4>1. i \in 1 .. p /\ i \in 1 .. n
        BY <1>4, <3>1
      <4> QED BY <1>6, <4>1 DEF Timed
    <3>2. CASE i = p + 1
      BY <1>6, <1>7, <3>2
    <3>3. CASE i > p + 1
      <4>1. PICK j \in p + 1 .. n : i = j + 1
        <5>1. i - 1 \in p + 1 .. n /\ i = (i - 1) + 1
          BY <1>4, <3>3
        <5> QED BY <5>1
      <4>2. j \in 1 .. n /\ (j = p + 1 => p < n)
        BY <1>4
      <4>3. q[j].time \in Nat
        BY <4>2 DEF Timed
      <4> QED BY <1>6, <1>8, <4>1, <4>2, <4>3
    <3> QED BY <1>4, <3>1, <3>2, <3>3
  <2>2. a[1].time > 0
    <3>1. CASE p = 0
      BY <1>6, <1>7, <3>1
    <3>2. CASE p # 0
      <4>1. 1 \in 1 .. p /\ n > 0
        BY <1>4, <3>2
      <4> QED BY <1>6, <4>1 DEF Timed
    <3> QED BY <3>1, <3>2
  <2> QED BY <1>6, <2>1, <2>2 DEF Timed
<1>10. PICK g : g = [i \in 0 .. n + 1 |-> IF i <= p THEN d[i] ELSE IF i = p + 1 THEN time ELSE d[i - 1]]
  OBVIOUS
<1>11. /\ \A i \in 0 .. p : g[i] = d[i]
       /\ g[p + 1] = time
       /\ \A i \in p + 1 .. n : g[i + 1] = d[i]
  <2>1. \A i \in 0 .. p : i \in 0 .. n + 1 /\ i <= p
    BY <1>4
  <2>2. p + 1 \in 0 .. n + 1 /\ ~(p + 1 <= p)
    BY <1>4
  <2>3. \A i \in p + 1 .. n : i + 1 \in 0 .. n + 1 /\ ~(i + 1 <= p) /\ i + 1 # p + 1 /\ (i + 1) - 1 = i
    BY <1>4
  <2> QED BY <1>10, <2>1, <2>2, <2>3
<1>12. ASSUME NEW i \in 1 .. n + 1 PROVE g[i] = g[i - 1] + a[i].time
  <2>1. CASE i <= p
    <3>1. i \in 0 .. p /\ i - 1 \in 0 .. p /\ i \in 1 .. n /\ i \in 1 .. p
      BY <1>4, <2>1
    <3>2. d[i] = d[i - 1] + q[i].time
      BY <1>3, <3>1 DEF AddsUp
    <3>3. g[i] = d[i] /\ g[i - 1] = d[i - 1] /\ a[i].time = q[i].time
      BY <1>6, <1>11, <3>1
    <3> QED BY <3>2, <3>3
  <2>2. CASE i = p + 1
    <3>1. i - 1 = p /\ p \in 0 .. p /\ d[p] \in Nat
      BY <1>3, <1>4, <2>2
    <3> QED BY <1>2, <1>6, <1>11, <2>2, <3>1
  <2>3. CASE i = p + 2
    <3>1. p + 1 \in p + 1 .. n /\ p < n /\ i = (p + 1) + 1 /\ i - 1 = p + 1
      BY <1>4, <2>3
    <3>2. g[i] = d[p + 1] /\ g[i - 1] = time
      BY ONLY <1>11, <3>1
    <3>3. a[i].time = q[p + 1].time - x
      BY <1>6, <3>1
    <3>4. PICK e \in Nat, f \in Nat : e = q[p + 1].time /\ f = d[p]
      BY ONLY <1>8, <3>1
    <3>5. g[i] = f + e /\ g[i - 1] = time /\ a[i].time = e - x
      BY ONLY <1>8, <3>1, <3>2, <3>3, <3>4
    <3>6. x = time - f /\ time \in Nat
      BY <1>2, <3>4
    <3> QED BY ONLY <3>5, <3>6, e \in Nat, f \in Nat
  <2>4. CASE i > p + 2
    <3>1. PICK j \in p + 2 .. n : i = j + 1
      <4>1. i - 1 \in p + 2 .. n /\ i = (i - 1) + 1
        BY <1>4, <2>4
      <4> QED BY <4>1
    <3>2. /\ j \in p + 1 .. n /\ j - 1 \in p + 1 .. n /\ j # p + 1 /\ j \in 1 .. n
          /\ i - 1 = (j - 1) + 1
      BY <1>4, <3>1
    <3>3. g[i] = d[j] /\ g[i - 1] = d[j - 1] /\ a[i].time = q[j].time
      BY <1>6, <1>11, <3>1, <3>2
    <3>4. d[j] = d[j - 1] + q[j].time
      BY <1>3, <3>2 DEF AddsUp
    <3> QED BY ONLY <3>3, <3>4
  <2> QED BY <1>4, <2>1, <2>2, <2>3, <2>4
<1>13. AddsUp(a, n + 1, g)
  <2>1. g[0] = 0
    <3>1. 0 \in 0 .. p
      BY <1>4
    <3> QED BY <1>3, <1>11, <3>1 DEF AddsUp
  <2> QED BY <1>12, <2>1 DEF AddsUp
<1>14. \A i \in 0 .. n + 1 : g[i] = DueTimes(a)[i]
  <2>1. PICK k \in Nat : k = n + 1
    OBVIOUS
  <2>2. AddsUp(a, k, g) /\ k = Len(a)
    BY <1>6, <1>13, <2>1
  <2>3. \A i \in 0 .. k : g[i] = DueTimes(a)[i]
    BY ONLY <1>9, <2>2, k \in Nat, DueGrows
  <2> QED BY <2>1, <2>3
<1>15. /\ p + 1 \in 0 .. n + 1 /\ \A i \in 1 .. p : i \in 0 .. p /\ i \in 0 .. n + 1
       /\ \A i \in p + 1 .. n : i + 1 \in 0 .. n + 1
  BY <1>4
<1>16. DueTimes(a)[p + 1] = time
  BY <1>11, <1>14, <1>15
<1>17. \A i \in 1 .. p : a[i].tcb = q[i].tcb /\ DueTimes(a)[i] = d[i]
  BY <1>6, <1>11, <1>14, <1>15
<1>18. \A i \in p + 1 .. n : a[i + 1].tcb = q[i].tcb /\ DueTimes(a)[i + 1] = d[i]
  BY <1>6, <1>11, <1>14, <1>15
<1> QED BY <1>1, <1>4, <1>6, <1>9, <1>16, <1>17, <1>18

(* What remains for each thread, told from the queue.                      *)
RemainingOf(q) ==
  [t \in Threads |->
     IF t \notin Sleeper(q) THEN 0
     ELSE DueTimes(q)[CHOOSE i \in 1 .. Len(q) : q[i].tcb = t]]

LEMMA RemainingIs ==
  ASSUME NEW q, IsSleepQ(q), SleepOnce(q), NEW r, r = RemainingOf(q)
  PROVE  /\ \A i \in 1 .. Len(q) : q[i].tcb \in Threads /\ r[q[i].tcb] = DueTimes(q)[i]
         /\ \A t \in Threads \ Sleeper(q) : r[t] = 0
         /\ r = [t \in Threads |-> r[t]]
<1>1. ASSUME NEW i \in 1 .. Len(q)
      PROVE  q[i].tcb \in Threads /\ r[q[i].tcb] = DueTimes(q)[i]
  <2>1. PICK t \in Threads : t = q[i].tcb
    BY DEF IsSleepQ
  <2>2. t \in Sleeper(q)
    BY <2>1 DEF Sleeper
  <2>3. PICK j : j = CHOOSE k \in 1 .. Len(q) : q[k].tcb = t
    OBVIOUS
  <2>4. j = i
    <3>1. j \in 1 .. Len(q) /\ q[j].tcb = t
      BY <2>1, <2>3
    <3> QED BY <2>1, <3>1 DEF SleepOnce
  <2>5. r[t] = DueTimes(q)[j]
    BY <2>2, <2>3 DEF RemainingOf
  <2> QED BY <2>1, <2>4, <2>5
<1> QED BY <1>1 DEF RemainingOf

(* To go to sleep is a step of Alarm.                                      *)
LEMMA AddRemains ==
  ASSUME NEW q, IsSleepQ(q), SleepOnce(q), Timed(q), NEW t \in Threads, t \notin Sleeper(q),
         NEW time \in Nat \ {0}, NEW a, a = Add(q, t, time),
         NEW r, r = RemainingOf(q), NEW c, c = RemainingOf(a)
  PROVE  Timed(a) /\ r[t] = 0 /\ c = [r EXCEPT ![t] = time]
<1>1. PICK n \in Nat, p \in 0 .. Len(q) : n = Len(q) /\ p = Place(q, time)
  <2>1. Len(q) \in Nat
    BY DEF IsSleepQ
  <2> QED BY ONLY <2>1, PlaceInQueue
<1>2. /\ Timed(a) /\ Len(a) = n + 1 /\ p \in 0 .. n
      /\ a[p + 1].tcb = t /\ DueTimes(a)[p + 1] = time
      /\ \A i \in 1 .. p : a[i].tcb = q[i].tcb /\ DueTimes(a)[i] = DueTimes(q)[i]
      /\ \A i \in p + 1 .. n : a[i + 1].tcb = q[i].tcb /\ DueTimes(a)[i + 1] = DueTimes(q)[i]
  BY <1>1, AddDue
<1>3. IsSleepQ(a) /\ Sleeper(a) = Sleeper(q) \cup {t} /\ SleepOnce(a)
  BY AddSleeper
<1>4. /\ \A i \in 1 .. n : r[q[i].tcb] = DueTimes(q)[i]
      /\ \A u \in Threads \ Sleeper(q) : r[u] = 0
      /\ r = [u \in Threads |-> r[u]]
  BY <1>1, RemainingIs
<1>5. /\ \A i \in 1 .. n + 1 : c[a[i].tcb] = DueTimes(a)[i]
      /\ \A u \in Threads \ Sleeper(a) : c[u] = 0
      /\ c = [u \in Threads |-> c[u]]
  <2>1. /\ IsSleepQ(a) /\ SleepOnce(a) /\ Timed(a) /\ n + 1 = Len(a)
        /\ c = RemainingOf(a)
    BY <1>2, <1>3
  <2> QED BY ONLY <2>1, RemainingIs
<1>6. c[t] = time
  <2>1. p + 1 \in 1 .. n + 1
    BY <1>1
  <2> QED BY <1>2, <1>5, <2>1
<1>7. ASSUME NEW u \in Threads \ {t} PROVE c[u] = r[u]
  <2>1. CASE u \in Sleeper(q)
    <3>1. PICK i \in 1 .. n : u = q[i].tcb
      BY <1>1, <2>1 DEF Sleeper
    <3>2. CASE i <= p
      <4>1. i \in 1 .. p /\ i \in 1 .. n + 1
        BY <1>1, <3>2
      <4>2. a[i].tcb = u /\ DueTimes(a)[i] = DueTimes(q)[i]
        BY <1>2, <3>1, <4>1
      <4>3. c[u] = DueTimes(a)[i]
        BY <1>5, <4>1, <4>2
      <4> QED BY <1>4, <3>1, <4>2, <4>3
    <3>3. CASE ~(i <= p)
      <4>1. i \in p + 1 .. n /\ i + 1 \in 1 .. n + 1
        BY <1>1, <3>3
      <4>2. a[i + 1].tcb = u /\ DueTimes(a)[i + 1] = DueTimes(q)[i]
        BY <1>2, <3>1, <4>1
      <4>3. c[u] = DueTimes(a)[i + 1]
        BY <1>5, <4>1, <4>2
      <4> QED BY <1>4, <3>1, <4>2, <4>3
    <3> QED BY <3>2, <3>3
  <2>2. CASE u \notin Sleeper(q)
    BY <1>3, <1>4, <1>5, <2>2
  <2> QED BY <2>1, <2>2
<1>8. c = [r EXCEPT ![t] = time]
  BY <1>4, <1>5, <1>6, <1>7
<1> QED BY <1>2, <1>4, <1>8

(* The nodes after a tick: m of them have gone.                            *)
TickedTo(q, n, d, m, s) ==
  /\ m \in 0 .. n /\ Len(s) = n - m
  /\ \A i \in 1 .. n : d[i].tcb = q[i].tcb
  /\ \A i \in 1 .. n : d[i].time = IF i = 1 THEN q[i].time - 1 ELSE q[i].time
  /\ \A i \in 1 .. n - m : s[i] = d[m + i]
  /\ \A i \in 1 .. n : i <= m <=> \A k \in 1 .. i : d[k].time = 0

LEMMA TickNodes ==
  ASSUME NEW q, IsSleepQ(q), NEW n \in Nat, n = Len(q), NEW d, d = CountDown(q),
         NEW m, m = Expired(d), NEW s, s = StillAsleep(q)
  PROVE  TickedTo(q, n, d, m, s)
<1>1. /\ Len(d) = n /\ \A i \in 1 .. n : d[i].tcb = q[i].tcb
  BY CountDownSleeper
<1>2. m \in 0 .. n
  BY <1>1, ExpiredInQueue
<1>3. ASSUME NEW i \in 1 .. n
      PROVE  d[i].time = IF i = 1 THEN q[i].time - 1 ELSE q[i].time
  <2>1. q # <<>>
    BY EmptySeq
  <2>2. d = [q EXCEPT ![1].time = @ - 1] /\ q = [j \in 1 .. n |-> q[j]]
    BY <2>1 DEF CountDown, IsSleepQ
  <2>3. PICK old : old = q[i] /\ old = [tcb |-> old.tcb, time |-> old.time]
    BY DEF IsSleepQ
  <2>4. CASE i = 1
    <3>1. d[i] = [old EXCEPT !.time = @ - 1]
      BY <2>2, <2>3, <2>4
    <3>2. d[i] = [tcb |-> old.tcb, time |-> old.time - 1]
      BY <2>3, <3>1
    <3> QED BY <2>3, <2>4, <3>2
  <2>5. CASE i # 1
    BY <2>2, <2>3, <2>5
  <2> QED BY <2>4, <2>5
<1>4. s = [i \in 1 .. n - m |-> d[m + i]]
  <2>1. s = SubSeq(d, m + 1, n)
    BY <1>1 DEF StillAsleep
  <2>2. SubSeq(d, m + 1, n) = [i \in 1 .. n - m |-> d[m + i]]
    BY ONLY <1>2, n \in Nat, Remainder
  <2> QED BY <2>1, <2>2
<1>5. Len(s) = n - m /\ \A i \in 1 .. n - m : s[i] = d[m + i]
  <2>1. n - m \in Nat /\ s = [i \in 1 .. n - m |-> s[i]]
    BY <1>2, <1>4
  <2> QED BY <1>4, <2>1, LenOfFunction
<1>6. \A i \in 1 .. n : i <= m <=> \A k \in 1 .. i : d[k].time = 0
  <2>1. PICK I \in SUBSET (1 .. n) : I = {j \in 1 .. n : \A k \in 1 .. j : d[k].time = 0}
    <3>1. {j \in 1 .. n : \A k \in 1 .. j : d[k].time = 0} \subseteq 1 .. n
      OBVIOUS
    <3> QED BY <3>1
  <2>2. m = Cardinality(I)
    BY <1>1, <2>1 DEF Expired
  <2>3. ASSUME NEW j \in I, NEW i \in 1 .. j PROVE i \in I
    <3>1. j \in 1 .. n /\ i \in 1 .. n /\ \A k \in 1 .. i : k \in 1 .. j
      BY <2>1
    <3> QED BY <2>1, <3>1
  <2>4. \A i \in 1 .. n : i \in I <=> i <= Cardinality(I)
    BY <2>3, Prefix
  <2> QED BY <2>1, <2>2, <2>4
<1> QED BY <1>1, <1>2, <1>3, <1>5, <1>6 DEF TickedTo

(* Everybody's time is one less after a tick, and those that have gone had *)
(* one left.                                                               *)
LEMMA TickDue ==
  ASSUME NEW q, IsSleepQ(q), Timed(q), NEW n \in Nat, n = Len(q), NEW d, NEW m, NEW s,
         TickedTo(q, n, d, m, s), NEW e, e = DueTimes(q)
  PROVE  /\ Timed(s) /\ \A i \in 1 .. m : e[i] = 1
         /\ \A i \in 1 .. n - m : DueTimes(s)[i] = e[m + i] - 1
<1>1. /\ m \in 0 .. n /\ Len(s) = n - m
      /\ \A i \in 1 .. n : d[i].time = IF i = 1 THEN q[i].time - 1 ELSE q[i].time
      /\ \A i \in 1 .. n - m : s[i] = d[m + i]
      /\ \A i \in 1 .. n : i <= m <=> \A k \in 1 .. i : d[k].time = 0
  BY DEF TickedTo
<1>2. /\ e[0] = 0 /\ \A i \in 1 .. n : e[i] = e[i - 1] + q[i].time
      /\ \A i \in 0 .. n : e[i] \in Nat
      /\ \A i \in 1 .. n : e[i] > 0
  <2>1. AddsUp(q, n, e)
    BY DueIs
  <2>2. /\ \A i \in 0 .. n : e[i] \in Nat
        /\ \A i \in 1 .. n : e[i] > 0
    BY <2>1, DueGrows
  <2> QED BY <2>1, <2>2 DEF AddsUp
<1>3. /\ \A i \in 1 .. n : q[i].time \in Nat
      /\ n > 0 => q[1].time > 0
  BY DEF Timed
<1>4. ASSUME NEW i \in 1 .. m PROVE d[i].time = 0
  <2>1. i \in 1 .. n /\ i <= m /\ i \in 1 .. i
    BY <1>1
  <2> QED BY <1>1, <2>1
<1>5. ASSUME NEW j \in 1 .. m PROVE e[j] = 1
  <2>1. PICK T : T = {k \in 1 .. m : e[k] = 1}
    OBVIOUS
  <2>2. 1 \in T
    <3>1. 1 \in 1 .. m /\ 1 \in 1 .. n /\ 1 - 1 = 0
      BY <1>1
    <3>2. d[1].time = 0 /\ d[1].time = q[1].time - 1 /\ q[1].time \in Nat
      BY <1>1, <1>3, <1>4, <3>1
    <3>3. e[1] = 0 + q[1].time
      BY <1>2, <3>1
    <3> QED BY <2>1, <3>1, <3>2, <3>3
  <2>3. ASSUME NEW k \in 1 .. m, k \in T, k < m PROVE k + 1 \in T
    <3>1. k + 1 \in 1 .. m /\ k + 1 \in 1 .. n /\ k + 1 # 1 /\ (k + 1) - 1 = k
      BY <1>1, <2>3
    <3>2. d[k + 1].time = 0 /\ d[k + 1].time = q[k + 1].time
      BY <1>1, <1>4, <3>1
    <3>3. e[k + 1] = e[k] + q[k + 1].time /\ e[k] = 1
      BY <1>2, <2>1, <2>3, <3>1
    <3> QED BY <2>1, <3>1, <3>2, <3>3
  <2>4. \A k \in 1 .. m : k \in T
    <3>1. 1 \in Nat /\ m \in Nat
      BY <1>1
    <3> QED BY <2>2, <2>3, <3>1, Up
  <2> QED BY <2>1, <2>4
<1>6. ASSUME NEW i \in 1 .. n PROVE d[i].time \in Nat
  <2>1. CASE i = 1
    <3>1. q[1].time \in Nat /\ q[1].time > 0
      BY <1>3, <2>1
    <3> QED BY <1>1, <2>1, <3>1
  <2>2. CASE i # 1
    BY <1>1, <1>3, <2>2
  <2> QED BY <2>1, <2>2
<1>7. ASSUME m < n PROVE d[m + 1].time # 0
  <2>1. m + 1 \in 1 .. n /\ ~(m + 1 <= m)
    BY <1>1, <1>7
  <2>2. PICK k \in 1 .. m + 1 : d[k].time # 0
    BY <1>1, <2>1
  <2>3. k \notin 1 .. m
    BY <1>4, <2>2
  <2>4. k = m + 1
    BY <1>1, <2>3
  <2> QED BY <2>2, <2>4
<1>8. Timed(s)
  <2>1. ASSUME NEW i \in 1 .. n - m PROVE s[i].time \in Nat
    <3>1. m + i \in 1 .. n
      BY <1>1
    <3> QED BY <1>1, <1>6, <3>1
  <2>2. ASSUME n - m > 0 PROVE s[1].time > 0
    <3>1. m < n /\ m + 1 \in 1 .. n /\ 1 \in 1 .. n - m
      BY <1>1, <2>2
    <3>2. s[1] = d[m + 1] /\ d[m + 1].time \in Nat /\ d[m + 1].time # 0
      BY <1>1, <1>6, <1>7, <3>1
    <3> QED BY <3>2
  <2> QED BY <1>1, <2>1, <2>2 DEF Timed
<1>9. PICK h : h = [i \in 0 .. n - m |-> IF i = 0 THEN 0 ELSE e[m + i] - 1]
  OBVIOUS
<1>10. h[0] = 0 /\ \A i \in 1 .. n - m : h[i] = e[m + i] - 1
  <2>1. 0 \in 0 .. n - m /\ \A i \in 1 .. n - m : i \in 0 .. n - m /\ i # 0
    BY <1>1
  <2> QED BY <1>9, <2>1
<1>11. ASSUME NEW i \in 1 .. n - m PROVE h[i] = h[i - 1] + s[i].time
  <2>1. /\ m + i \in 1 .. n /\ m + i \in 0 .. n /\ (m + i) - 1 = m + (i - 1)
        /\ m + (i - 1) \in 0 .. n
    BY <1>1
  <2>2. /\ e[m + i] = e[m + (i - 1)] + q[m + i].time /\ q[m + i].time \in Nat
        /\ e[m + (i - 1)] \in Nat
        /\ s[i].time = IF m + i = 1 THEN q[m + i].time - 1 ELSE q[m + i].time
    BY <1>1, <1>2, <1>3, <2>1
  <2>3. CASE i = 1 /\ m = 0
    <3>1. e[m + (i - 1)] = 0 /\ m + i = 1 /\ i - 1 = 0
      BY <1>2, <2>3
    <3> QED BY <1>10, <2>2, <3>1
  <2>4. CASE i = 1 /\ m # 0
    <3>1. m \in 1 .. m /\ m + (i - 1) = m /\ m + i # 1 /\ i - 1 = 0
      BY <1>1, <2>4
    <3>2. e[m + (i - 1)] = 1
      BY <1>5, <3>1
    <3> QED BY <1>10, <2>2, <3>1, <3>2
  <2>5. CASE i # 1
    <3>1. i - 1 \in 1 .. n - m /\ m + i # 1
      BY <1>1, <2>5
    <3>2. h[i - 1] = e[m + (i - 1)] - 1
      BY <1>10, <3>1
    <3> QED BY <1>10, <2>2, <3>1, <3>2
  <2> QED BY <2>3, <2>4, <2>5
<1>12. PICK l \in Nat : l = n - m
  <2>1. m \in 0 .. n
    BY <1>1
  <2>2. n - m \in Nat
    BY ONLY <2>1, n \in Nat
  <2> QED BY ONLY <2>2
<1>13. AddsUp(s, l, h) /\ l = Len(s)
  <2>1. \A i \in 1 .. l : h[i] = h[i - 1] + s[i].time
    BY <1>11, <1>12
  <2>2. h[0] = 0
    BY <1>10
  <2>3. AddsUp(s, l, h)
    BY ONLY <2>1, <2>2 DEF AddsUp
  <2>4. l = Len(s)
    BY ONLY <1>1, <1>12
  <2> QED BY <2>3, <2>4
<1>14. \A i \in 0 .. l : h[i] = DueTimes(s)[i]
  BY ONLY <1>8, <1>13, l \in Nat, DueGrows
<1>15. \A i \in 1 .. n - m : i \in 0 .. l
  BY <1>12
<1> QED BY <1>5, <1>8, <1>10, <1>14, <1>15

(* A tick of the timer is one of Alarm.                                    *)
LEMMA TickRemains ==
  ASSUME NEW q, IsSleepQ(q), SleepOnce(q), Timed(q), NEW s, s = StillAsleep(q),
         NEW r, r = RemainingOf(q), NEW c, c = RemainingOf(s)
  PROVE  Timed(s) /\ c = [t \in Threads |-> IF r[t] = 0 THEN 0 ELSE r[t] - 1]
<1>1. PICK n \in Nat : n = Len(q)
  BY DEF IsSleepQ
<1>2. PICK e : e = DueTimes(q)
  OBVIOUS
<1>3. PICK d, m : TickedTo(q, n, d, m, s)
  BY <1>1, TickNodes
<1>4. /\ Timed(s) /\ \A i \in 1 .. m : e[i] = 1
      /\ \A i \in 1 .. n - m : DueTimes(s)[i] = e[m + i] - 1
  BY <1>1, <1>2, <1>3, TickDue
<1>5. /\ m \in 0 .. n /\ Len(s) = n - m
      /\ \A i \in 1 .. n - m : s[i].tcb = q[m + i].tcb
  <2>1. /\ m \in 0 .. n /\ Len(s) = n - m
        /\ \A i \in 1 .. n : d[i].tcb = q[i].tcb
        /\ \A i \in 1 .. n - m : s[i] = d[m + i]
    BY <1>3 DEF TickedTo
  <2>2. \A i \in 1 .. n - m : m + i \in 1 .. n
    BY <2>1
  <2> QED BY <2>1, <2>2
<1>6. IsSleepQ(s) /\ SleepOnce(s) /\ Sleeper(s) \subseteq Sleeper(q)
  BY TickSleeper
<1>7. /\ \A i \in 1 .. n : r[q[i].tcb] = e[i]
      /\ \A u \in Threads \ Sleeper(q) : r[u] = 0
  BY <1>1, <1>2, RemainingIs
<1>8. /\ \A i \in 1 .. n - m : c[s[i].tcb] = DueTimes(s)[i]
      /\ \A u \in Threads \ Sleeper(s) : c[u] = 0
      /\ c = [u \in Threads |-> c[u]]
  BY <1>5, <1>6, RemainingIs
<1>9. \A i \in 1 .. n : e[i] > 0 /\ e[i] \in Nat
  <2>1. \A i \in 1 .. n : i \in 0 .. n
    OBVIOUS
  <2>2. AddsUp(q, n, e)
    BY <1>1, <1>2, DueIs
  <2> QED BY <1>1, <1>2, <2>1, <2>2, DueGrows
<1>10. ASSUME NEW u \in Threads PROVE c[u] = IF r[u] = 0 THEN 0 ELSE r[u] - 1
  <2>1. CASE u \notin Sleeper(q)
    BY <1>6, <1>7, <1>8, <2>1
  <2>2. CASE u \in Sleeper(q)
    <3>1. PICK i \in 1 .. n : u = q[i].tcb
      BY <1>1, <2>2 DEF Sleeper
    <3>2. r[u] = e[i] /\ e[i] > 0 /\ e[i] \in Nat
      BY <1>7, <1>9, <3>1
    <3>3. CASE i <= m
      <4>1. e[i] = 1
        BY <1>4, <1>5, <3>3
      <4>2. u \notin Sleeper(s)
        <5> SUFFICES ASSUME NEW j \in 1 .. n - m, u = s[j].tcb PROVE FALSE
          BY <1>5 DEF Sleeper
        <5>1. m + j \in 1 .. n /\ q[m + j].tcb = u
          BY <1>5
        <5>2. i = m + j
          BY <1>1, <3>1, <5>1 DEF SleepOnce
        <5> QED BY <1>5, <3>3, <5>2
      <4> QED BY <1>8, <3>2, <4>1, <4>2
    <3>4. CASE ~(i <= m)
      <4>1. PICK j \in 1 .. n - m : i = m + j
        <5>1. i - m \in 1 .. n - m /\ i = m + (i - m)
          BY <1>5, <3>4
        <5> QED BY <5>1
      <4>2. s[j].tcb = u /\ DueTimes(s)[j] = e[i] - 1
        BY <1>4, <1>5, <3>1, <4>1
      <4>3. c[u] = e[i] - 1
        BY <1>8, <4>2
      <4> QED BY <3>2, <4>3
    <3> QED BY <3>3, <3>4
  <2> QED BY <2>1, <2>2
<1> QED BY <1>4, <1>8, <1>10

(* The order in the queue.                                                 *)
BeforeIn(q, t, u) ==
  \E i, j \in 1 .. Len(q) : i < j /\ q[i].tcb = t /\ q[j].tcb = u

(* One that is added goes behind all that wake up no later, and the others *)
(* keep their order.                                                       *)
LEMMA AddOrder ==
  ASSUME NEW q, IsSleepQ(q), SleepOnce(q), Timed(q), NEW t \in Threads, t \notin Sleeper(q),
         NEW time \in Nat \ {0}, NEW a, a = Add(q, t, time),
         NEW r, r = RemainingOf(q), NEW c, c = RemainingOf(a),
         NEW u \in Sleeper(a), NEW v \in Sleeper(a)
  PROVE  /\ BeforeIn(q, u, v) => BeforeIn(a, u, v)
         /\ u \in Sleeper(q) /\ v \notin Sleeper(q) /\ r[u] <= c[v] => BeforeIn(a, u, v)
<1>1. PICK n \in Nat, p \in 0 .. Len(q) : n = Len(q) /\ p = Place(q, time)
  <2>1. Len(q) \in Nat
    BY DEF IsSleepQ
  <2> QED BY ONLY <2>1, PlaceInQueue
<1>2. /\ Len(a) = n + 1 /\ p \in 0 .. n /\ a[p + 1].tcb = t
      /\ \A i \in 1 .. p : a[i].tcb = q[i].tcb
      /\ \A i \in p + 1 .. n : a[i + 1].tcb = q[i].tcb
      /\ \A i \in 1 .. n : DueTimes(q)[i] <= time <=> i <= p
  BY <1>1, AddDue
<1>3. PICK f : f = [i \in 1 .. n |-> IF i <= p THEN i ELSE i + 1]
  OBVIOUS
<1>4. ASSUME NEW i \in 1 .. n PROVE f[i] \in 1 .. n + 1 /\ a[f[i]].tcb = q[i].tcb
  <2>1. CASE i <= p
    <3>1. i \in 1 .. p /\ f[i] = i /\ i \in 1 .. n + 1
      BY <1>2, <1>3, <2>1
    <3> QED BY <1>2, <3>1
  <2>2. CASE ~(i <= p)
    <3>1. i \in p + 1 .. n /\ f[i] = i + 1 /\ i + 1 \in 1 .. n + 1
      BY <1>2, <1>3, <2>2
    <3> QED BY <1>2, <3>1
  <2> QED BY <2>1, <2>2
<1>5. \A i, j \in 1 .. n : i < j => f[i] < f[j]
  BY <1>2, <1>3
<1>6. ASSUME BeforeIn(q, u, v) PROVE BeforeIn(a, u, v)
  <2>1. PICK i \in 1 .. n, j \in 1 .. n : i < j /\ q[i].tcb = u /\ q[j].tcb = v
    BY <1>1, <1>6 DEF BeforeIn
  <2>2. /\ f[i] \in 1 .. Len(a) /\ f[j] \in 1 .. Len(a) /\ f[i] < f[j]
        /\ a[f[i]].tcb = u /\ a[f[j]].tcb = v
    BY <1>2, <1>4, <1>5, <2>1
  <2> QED BY <2>2 DEF BeforeIn
<1>7. ASSUME u \in Sleeper(q), v \notin Sleeper(q), r[u] <= c[v] PROVE BeforeIn(a, u, v)
  <2>2. v = t
    BY <1>7, AddSleeper
  <2>3. c[v] = time
    <3>1. c = [r EXCEPT ![t] = time] /\ r = [w \in Threads |-> r[w]]
      BY AddRemains, RemainingIs
    <3> QED BY <2>2, <3>1
  <2>4. PICK i \in 1 .. n : q[i].tcb = u
    BY <1>1, <1>7 DEF Sleeper
  <2>5. r[u] = DueTimes(q)[i]
    BY <1>1, <2>4, RemainingIs
  <2>6. i <= p
    BY <1>2, <1>7, <2>3, <2>5
  <2>7. i \in 1 .. p /\ i \in 1 .. Len(a) /\ p + 1 \in 1 .. Len(a) /\ i < p + 1
    BY <1>2, <2>6
  <2>8. a[i].tcb = u /\ a[p + 1].tcb = v
    BY <1>2, <2>2, <2>4, <2>7
  <2> QED BY <2>7, <2>8 DEF BeforeIn
<1> QED BY <1>6, <1>7

(* Those that sleep on after a tick keep their order.                      *)
LEMMA TickOrder ==
  ASSUME NEW q, IsSleepQ(q), SleepOnce(q), NEW s, s = StillAsleep(q),
         NEW u \in Sleeper(s), NEW v \in Sleeper(s), BeforeIn(q, u, v)
  PROVE  BeforeIn(s, u, v)
<1>1. PICK n \in Nat : n = Len(q)
  BY DEF IsSleepQ
<1>2. PICK d, m : TickedTo(q, n, d, m, s)
  BY <1>1, TickNodes
<1>3. /\ m \in 0 .. n /\ Len(s) = n - m
      /\ \A i \in 1 .. n - m : m + i \in 1 .. n /\ s[i].tcb = q[m + i].tcb
  <2>1. /\ m \in 0 .. n /\ Len(s) = n - m
        /\ \A i \in 1 .. n : d[i].tcb = q[i].tcb
        /\ \A i \in 1 .. n - m : s[i] = d[m + i]
    BY <1>2 DEF TickedTo
  <2>2. \A i \in 1 .. n - m : m + i \in 1 .. n
    BY <2>1
  <2> QED BY <2>1, <2>2
<1>4. PICK i \in 1 .. n, j \in 1 .. n : i < j /\ q[i].tcb = u /\ q[j].tcb = v
  BY <1>1 DEF BeforeIn
<1>5. PICK k \in 1 .. n - m, l \in 1 .. n - m : s[k].tcb = u /\ s[l].tcb = v
  BY <1>3 DEF Sleeper
<1>6. m + k = i /\ m + l = j
  BY <1>1, <1>3, <1>4, <1>5 DEF SleepOnce
<1>7. k < l
  BY <1>3, <1>4, <1>6
<1> QED BY <1>3, <1>5, <1>7 DEF BeforeIn

(* The steps of the kernel: only time_sleep and the timer change the queue.*)
LEMMA QueueSteps ==
  ASSUME IInv, [Next]_vars
  PROVE  \/ sleepQ' = sleepQ
         \/ /\ running \in Threads \ Sleeper(sleepQ)
            /\ \E time \in 1 .. MaxSleep : sleepQ' = Add(sleepQ, running, time)
         \/ sleepQ' = StillAsleep(sleepQ)
<1>1. ASSUME NEW time \in 1 .. MaxSleep, timeSleep(time)
      PROVE  /\ running \in Threads \ Sleeper(sleepQ)
             /\ \E n \in 1 .. MaxSleep : sleepQ' = Add(sleepQ, running, n)
  BY <1>1 DEF timeSleep, IInv, TypeOK, OnePlace, Sleepers
<1>2. CASE timer
  BY <1>2 DEF timer
<1>3. CASE UNCHANGED vars
  BY <1>3 DEF vars
<1>4. CASE dispatch \/ exit
  BY <1>4 DEF dispatch, exit
<1>5. ASSUME NEW t \in Threads, NEW start \in BOOLEAN,
             createThread(t, start) \/ startThread(t) \/ destroyThread(t)
      PROVE  sleepQ' = sleepQ
  BY <1>5 DEF createThread, startThread, destroyThread
<1>6. ASSUME NEW s \in Sems, NEW init \in 0 .. MaxVal,
             semOpen(s, init) \/ semWait(s) \/ semSignal(s) \/ semClose(s)
      PROVE  sleepQ' = sleepQ
  BY <1>6 DEF semOpen, semWait, semSignal, semClose
<1>7. 0 \in 0 .. MaxVal /\ TRUE \in BOOLEAN
  BY ThreadsAssumption
<1> QED BY <1>1, <1>2, <1>3, <1>4, <1>5, <1>6, <1>7 DEF Next, Call

LEMMA StepsAreAlarm ==
  ASSUME IInv, Timed(sleepQ), [Next]_vars
  PROVE  Timed(sleepQ') /\ [Alarms!AlarmNext]_Remaining
<1>1. IsSleepQ(sleepQ) /\ SleepOnce(sleepQ)
  BY DEF IInv, OnePlace, SleepOnce
<1>2. Remaining = RemainingOf(sleepQ) /\ Remaining' = RemainingOf(sleepQ')
  BY DEF Remaining, RemainingOf
<1>3. CASE sleepQ' = sleepQ
  BY <1>2, <1>3
<1>4. ASSUME running \in Threads \ Sleeper(sleepQ), NEW time \in 1 .. MaxSleep,
             sleepQ' = Add(sleepQ, running, time)
      PROVE  Timed(sleepQ') /\ Alarms!AlarmNext
  <2>1. time \in Nat \ {0}
    OBVIOUS
  <2>2. /\ Timed(sleepQ') /\ Remaining[running] = 0
        /\ Remaining' = [Remaining EXCEPT ![running] = time]
    BY <1>1, <1>2, <1>4, <2>1, AddRemains
  <2> QED BY <1>4, <2>2 DEF Alarms!AlarmNext, Alarms!Sleep
<1>5. CASE sleepQ' = StillAsleep(sleepQ)
  <2>1. /\ Timed(sleepQ')
        /\ Remaining' = [t \in Threads |-> IF Remaining[t] = 0 THEN 0 ELSE Remaining[t] - 1]
    BY <1>1, <1>2, <1>5, TickRemains
  <2> QED BY <2>1 DEF Alarms!AlarmNext, Alarms!Tick
<1> QED BY <1>3, <1>4, <1>5, QueueSteps

LEMMA StepsKeepOrder ==
  ASSUME IInv, Timed(sleepQ), [Next]_vars
  PROVE  [\A t, u \in Sleeper(sleepQ') :
            Before(t, u) \/ FirstToSleep(t, u) => Before(t, u)']_sleepQ
<1>1. IsSleepQ(sleepQ) /\ SleepOnce(sleepQ)
  BY DEF IInv, OnePlace, SleepOnce
<1>2. Remaining = RemainingOf(sleepQ) /\ Remaining' = RemainingOf(sleepQ')
  BY DEF Remaining, RemainingOf
<1>3. \A t, u : /\ Before(t, u) <=> BeforeIn(sleepQ, t, u)
                /\ Before(t, u)' <=> BeforeIn(sleepQ', t, u)
  BY DEF Before, BeforeIn
<1>4. ASSUME NEW t \in Sleeper(sleepQ'), NEW u \in Sleeper(sleepQ'), sleepQ' # sleepQ,
             Before(t, u) \/ FirstToSleep(t, u)
      PROVE  BeforeIn(sleepQ', t, u)
  <2>1. ASSUME running \in Threads \ Sleeper(sleepQ), NEW time \in 1 .. MaxSleep,
               sleepQ' = Add(sleepQ, running, time)
        PROVE  BeforeIn(sleepQ', t, u)
    <3>1. time \in Nat \ {0}
      OBVIOUS
    <3>2. /\ BeforeIn(sleepQ, t, u) => BeforeIn(sleepQ', t, u)
          /\ t \in Sleeper(sleepQ) /\ u \notin Sleeper(sleepQ) /\ Remaining[t] <= Remaining'[u]
               => BeforeIn(sleepQ', t, u)
      BY <1>1, <1>2, <2>1, <3>1, AddOrder
    <3> QED BY <1>3, <1>4, <3>2 DEF FirstToSleep
  <2>2. CASE sleepQ' = StillAsleep(sleepQ)
    <3>1. ~FirstToSleep(t, u)
      BY <1>1, <2>2, TickSleeper DEF FirstToSleep
    <3> QED BY <1>1, <1>3, <1>4, <2>2, <3>1, TickOrder
  <2> QED BY <1>4, <2>1, <2>2, QueueSteps
<1> QED BY <1>3, <1>4

LEMMA InitIsAlarm == Init => Timed(sleepQ) /\ Alarms!AlarmInit
<1> SUFFICES ASSUME Init PROVE Timed(sleepQ) /\ Alarms!AlarmInit
  OBVIOUS
<1>1. sleepQ = <<>> /\ Len(<<>>) = 0
  BY DEF Init, SleepInit
<1>2. Sleeper(sleepQ) = {}
  BY <1>1 DEF Sleeper
<1>3. Timed(sleepQ)
  BY <1>1 DEF Timed
<1> QED BY <1>2, <1>3 DEF Alarms!AlarmInit, Remaining

(* The times of the nodes stay positive at the head of the queue, and      *)
(* natural numbers: a tick finds whoever has to wake up                    *)
(* (sleeping.cpp:21-39).                                                   *)
THEOREM TimedHolds == Spec => []Timed(sleepQ)
<1>1. IInv /\ Timed(sleepQ) /\ [Next]_vars => Timed(sleepQ)'
  BY StepsAreAlarm
<1> QED BY <1>1, InitIsAlarm, Invariant, PTL DEF Spec

(* Every thread sleeps for exactly the ticks that it asked for, however    *)
(* many others sleep (sleeping.cpp:21-84).                                 *)
THEOREM ImplementsAlarmHolds == Spec => ImplementsAlarm
<1>1. IInv /\ Timed(sleepQ) /\ [Next]_vars => [Alarms!AlarmNext]_Remaining
  BY StepsAreAlarm
<1> QED
  BY <1>1, InitIsAlarm, TimedHolds, Invariant, PTL
  DEF Spec, ImplementsAlarm, Alarms!AlarmSpec

(* Threads wake up in the order of their times, and those of equal times   *)
(* in the order in which they went to sleep.                               *)
THEOREM OrderKeptHolds == Spec => OrderKept
<1>1. IInv /\ Timed(sleepQ) /\ [Next]_vars
        => [\A t, u \in Sleeper(sleepQ') :
              Before(t, u) \/ FirstToSleep(t, u) => Before(t, u)']_sleepQ
  BY StepsKeepOrder
<1> QED BY <1>1, TimedHolds, Invariant, PTL DEF Spec, OrderKept
=============================================================================
