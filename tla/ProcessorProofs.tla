--------------------------- MODULE ProcessorProofs ---------------------------
(***************************************************************************)
(* What is proved of the two modules about the processor: that the kernel  *)
(* is not interrupted and that traps return to where they were taken, for  *)
(* any threads that programs create (Traps); and that the print lock       *)
(* excludes wherever traps come, for any number of threads (PrintLock,     *)
(* whose specification is LockSpec).                                       *)
(***************************************************************************)
EXTENDS Traps, PrintLock, QueueProofs, FiniteSetTheorems

Interrupts == {"timer", "external"}
Boot == <<putcThread, getcThread, idleThread, usermainThread>>

At(c, n) == [code |-> c, n |-> n]

(* The causes of traps.                                                    *)
Causes == Calls \cup {"timer", "external", "pageFault", "violation", "unknown"}

(* The traps that take a thread out of its program, or out of the code of  *)
(* the kernel that main() and the console threads run.                     *)
CausesOf(t) ==
  IF t = main THEN {"dispatch", "close", "memory"} \cup Interrupts
  ELSE IF t = idleThread THEN {"dispatch"} \cup Interrupts
  ELSE IF t \in {putcThread, getcThread} THEN {"wait", "signal"}
  ELSE Calls \cup {"pageFault", "violation", "unknown"} \cup Interrupts

(* Where a thread can be that is in no trap; behind the kernel's printing  *)
(* when it has returned from the handler of an unknown cause.              *)
Outside == {Program, After(Program), At("unknown", 2)}

(* The places of a handler, and those where it has switched away.          *)
PlacesIn(c) ==
  {At(c, n) : n \in IF c \in {"dispatch", "timer", "wait", "exit"} THEN {0, 1}
                    ELSE IF c = "violation" THEN {0, 1, 2, 3}
                    ELSE IF c \in Prints \cup {"destroy"} THEN {0, 1, 2}
                    ELSE {0}}
Parking == {At("dispatch", 1), At("timer", 1), At("wait", 1), At("exit", 1), At("violation", 3)}

(* What a trap keeps.                                                      *)
Place  == [code : Codes, n : Nat]
Locals == [sepc : Place, spp : {"U", "S"}, spie : BOOLEAN]
Frame  == [cause : Causes, saved : SUBSET Locals,
           from : [at : Addresses, mode : {"U", "S"}, sie : BOOLEAN]]

(* The locals of a handler hold what the trap has left in the registers.   *)
Kept(f) ==
  f.saved = IF ~Saves(f.cause) THEN {}
            ELSE {[sepc |-> IF f.cause \in Calls THEN After(f.from.at) ELSE f.from.at,
                   spp |-> f.from.mode, spie |-> f.from.sie]}

(* A trap that was taken outside the handlers, while main() was at m, and  *)
(* one that the handler of another was in.                                 *)
Outer(t, f, m) ==
  /\ f.cause \in CausesOf(t)
  /\ f.from.at \in Outside
  /\ f.cause \in Calls => f.from.at = Program
  /\ f.from.mode = Privilege(t)
  /\ t \in Kernel /\ f.from.sie => t = main /\ m = "flush"
  /\ Kept(f)
Inside(c, a, cause) ==
  \/ c \in Prints /\ a = At(c, 0) /\ cause = "wait"
  \/ c \in Prints /\ a = At(c, 1) /\ cause = "signal"
  \/ c = "destroy" /\ a \in {At(c, 0), At(c, 1)} /\ cause = "memory"
  \/ c \in {"memory", "create"} /\ a = At(c, 0) /\ cause = "pageFault"
Nested(g, f) ==
  /\ Inside(g.cause, f.from.at, f.cause)
  /\ f.from.mode = "S" /\ f.from.sie = FALSE
  /\ Kept(f)

(* The traps s that thread t is in, each but the first in the handler of   *)
(* the one before, and the place a where it is in the handler of the last. *)
Chain(s) == \A i \in 1 .. Len(s) - 1 : Nested(s[i], s[i + 1])
Stack(t, s, a, m) ==
  IF s = <<>>
  THEN a \in Outside \cup {Wrapper} /\ (t = main => a # Wrapper)
  ELSE Outer(t, s[1], m) /\ Chain(s) /\ a \in PlacesIn(Last(s).cause)

InTrap(s, a) == s # <<>> \/ a = Wrapper
Parked(s, a) == InTrap(s, a) /\ a \in Parking \cup {Wrapper}

(* The mode and the interrupts suit the place where the processor is;      *)
Processor ==
  IF InTrap(frames[running], where[running])
  THEN mode = "S" /\ ~sie
  ELSE mode = Privilege(running) /\ (running \in Kernel /\ sie => running = main /\ mainAt = "flush")

(* and a handler that keeps nothing finds in the registers what it needs:  *)
(* that of a page fault what the trap has left there, that of an unknown   *)
(* cause what the sret of the signal in its printing has.                  *)
Unsaved ==
  frames[running] # <<>> =>
    LET f == Last(frames[running])
    IN  /\ f.cause = "pageFault" => sepc = f.from.at /\ spp = f.from.mode /\ spie = f.from.sie
        /\ where[running] = At("unknown", 2) => spp = "U" /\ sepc = At("unknown", 2)

(* A console thread leaves wrapper with interrupts enabled if SPIE is set  *)
(* by then, and it is clear only because main() and the console threads    *)
(* switch to them one after the other, before any program runs.            *)
Begun(t) == where[t] # Wrapper
FirstMain ==
  /\ running = main /\ ready = Boot /\ mainAt = "dispatch" /\ usermainThread \notin finished
  /\ frames[main] = <<>> => where[main] = Program
  /\ frames[main] # <<>> => where[main] = At("dispatch", 0) /\ ~spie
  /\ ~Begun(putcThread) /\ ~Begun(getcThread)
FirstPutc ==
  /\ running = putcThread /\ ready # <<>> /\ Head(ready) = getcThread
  /\ where[putcThread] \in {Wrapper, At("wait", 0)} => ~spie
  /\ ~Begun(getcThread)
FirstGetc ==
  running = getcThread /\ Begun(putcThread) /\ ~Begun(getcThread) /\ ~spie
BootOrder ==
  \/ Begun(putcThread) /\ Begun(getcThread)
  \/ FirstMain \/ FirstPutc \/ FirstGetc

(* Idle runs or is ready, so that a switch always finds a thread; for that *)
(* it never waits, nor does main().                                        *)
IdleAround == idleThread \in {running} \cup Elements(ready)
Steady == {main, idleThread} \cap (blocked \cup stale) = {}

(* The inductive invariant.                                                *)
Lists ==
  /\ ready \in Seq(Threads)
  /\ blocked \subseteq Threads /\ finished \subseteq Threads /\ stale \subseteq Threads
  /\ free \subseteq Others
Registered ==
  /\ mode \in {"U", "S"} /\ spp \in {"U", "S"} /\ sie \in BOOLEAN /\ spie \in BOOLEAN
  /\ sepc \in Addresses
  /\ mainAt \in {"dispatch", "flush", "end"}
Stacks ==
  /\ running \in Threads /\ Lists /\ Registered
  /\ where \in [Threads -> Addresses] /\ frames \in [Threads -> Seq(Frame)]
  /\ \A t \in Threads : Stack(t, frames[t], where[t], mainAt)
  /\ \A t \in Threads \ {running} : Parked(frames[t], where[t])
  /\ Processor
IInv == Stacks /\ Unsaved /\ BootOrder /\ IdleAround /\ Steady

-----------------------------------------------------------------------------
LEMMA Names ==
  /\ main \notin {putcThread, getcThread, idleThread, usermainThread}
  /\ putcThread \notin {getcThread, idleThread, usermainThread}
  /\ getcThread \notin {idleThread, usermainThread}
  /\ idleThread # usermainThread
  /\ Kernel \cap Programs = {} /\ idleThread \notin Kernel \cup Programs
  /\ {main, putcThread, getcThread, idleThread, usermainThread} \subseteq Threads
  /\ Threads = {main, putcThread, getcThread, idleThread} \cup Programs
  /\ Others \subseteq Programs /\ usermainThread \notin Others
BY TrapsAssumption DEF Kernel, Programs, Threads

(* The top of a stack, and what is below it.                               *)
LEMMA Pushed ==
  ASSUME NEW S, NEW s \in Seq(S), NEW f \in S
  PROVE  /\ Append(s, f) \in Seq(S) /\ Len(Append(s, f)) = Len(s) + 1 /\ Len(s) \in Nat
         /\ Append(s, f) # <<>> /\ Last(Append(s, f)) = f
         /\ Append(s, f)[Len(s) + 1] = f
         /\ \A i \in 1 .. Len(s) : Append(s, f)[i] = s[i]
<1>1. PICK a : a = Append(s, f)
  OBVIOUS
<1>2. /\ a \in Seq(S) /\ Len(a) = Len(s) + 1 /\ Len(s) \in Nat /\ a[Len(s) + 1] = f
      /\ \A i \in 1 .. Len(s) : a[i] = s[i]
  BY <1>1, AppendProperties, LenProperties
<1>3. a # <<>>
  BY <1>2, EmptySeq
<1>4. Last(a) = f
  BY <1>2 DEF Last
<1> QED BY <1>1, <1>2, <1>3, <1>4

LEMMA Popped ==
  ASSUME NEW S, NEW s \in Seq(S), s # <<>>
  PROVE  /\ Len(s) \in Nat \ {0} /\ Last(s) \in S /\ Last(s) = s[Len(s)] /\ s[1] \in S
         /\ Front(s) \in Seq(S) /\ Len(Front(s)) = Len(s) - 1
         /\ \A i \in 1 .. Len(s) - 1 : Front(s)[i] = s[i]
         /\ Len(s) = 1 => Front(s) = <<>> /\ Last(s) = s[1]
         /\ Len(s) # 1 => Front(s) # <<>> /\ Last(Front(s)) = s[Len(s) - 1]
                            /\ Front(s)[1] = s[1]
<1>1. PICK n \in Nat \ {0} : n = Len(s)
  BY LenProperties, EmptySeq
<1>2. Last(s) = s[n] /\ s[n] \in S /\ s[1] \in S
  BY <1>1, ElementOfSeq DEF Last
<1>3. PICK r : r = Front(s)
  OBVIOUS
<1>4. r = SubSeq(s, 1, n - 1)
  BY <1>1, <1>3 DEF Front
<1>5. r \in Seq(S) /\ Len(r) = n - 1 /\ \A i \in 1 .. n - 1 : r[i] = s[i]
  <2>1. 1 \in 1 .. n + 1 /\ n - 1 \in 1 - 1 .. n
    BY <1>1
  <2>2. \A i \in 1 .. n - 1 : s[i] \in S
    BY <1>1, ElementOfSeq
  <2> QED BY <1>1, <1>4, <2>1, <2>2, SubSeqProperties
<1>6. n = 1 => r = <<>>
  BY <1>1, <1>5, EmptySeq
<1>7. n # 1 => r # <<>> /\ Last(r) = s[n - 1] /\ r[1] = s[1]
  <2>1. CASE n # 1
    <3>1. Len(r) # 0 /\ n - 1 \in 1 .. n - 1 /\ 1 \in 1 .. n - 1
      BY <1>1, <1>5, <2>1
    <3>2. r # <<>>
      BY <3>1, EmptySeq
    <3> QED BY <1>5, <3>1, <3>2 DEF Last
  <2> QED BY <2>1
<1> QED BY <1>1, <1>2, <1>3, <1>5, <1>6, <1>7

(* No place of a handler is that of a thread that has not begun.           *)
LEMMA PlaceFacts ==
  /\ Wrapper \notin Outside /\ Program \in Outside
  /\ After(Program) = At("program", 1) /\ Program = At("program", 0)
  /\ \A c, n : At(c, n).code = c /\ At(c, n).n = n
  /\ \A c, n : c # "wrapper" => At(c, n) # Wrapper
  /\ \A c, d, n, m : At(c, n) = At(d, m) => c = d /\ n = m
  /\ \A c, n : After(At(c, n)) = At(c, n + 1)
  /\ \A c : At(c, 0) \in PlacesIn(c)
  /\ \A c \in Prints \cup {"destroy"} : At(c, 1) \in PlacesIn(c) /\ At(c, 2) \in PlacesIn(c)
<1>1. After(Program) = At("program", 1) /\ Program = At("program", 0)
  BY DEF Program, After, At
<1>2. \A c, n : At(c, n).code = c /\ At(c, n).n = n
  BY DEF At
<1>3. \A c, n : c # "wrapper" => At(c, n) # Wrapper
  BY <1>2 DEF Wrapper
<1>4. \A c, d, n, m : At(c, n) = At(d, m) => c = d /\ n = m
  BY <1>2
<1>5. \A c, n : After(At(c, n)) = At(c, n + 1)
  BY DEF After, At
<1>6. \A c : At(c, 0) \in PlacesIn(c)
  BY DEF PlacesIn
<1>7. Wrapper \notin Outside /\ Program \in Outside
  BY <1>1, <1>3 DEF Outside
<1>8. \A c \in Prints \cup {"destroy"} : At(c, 1) \in PlacesIn(c) /\ At(c, 2) \in PlacesIn(c)
  BY DEF PlacesIn, Prints
<1> QED BY <1>1, <1>2, <1>3, <1>4, <1>5, <1>6, <1>7, <1>8

LEMMA PlacesTyped ==
  /\ Outside \cup {Wrapper} \subseteq Addresses
  /\ \A c \in Causes : PlacesIn(c) \subseteq Addresses /\ \A a \in PlacesIn(c) : a.code = c
  /\ \A a \in Addresses : a \in Place /\ After(a) \in Place
<1>1. Outside \cup {Wrapper} \subseteq Addresses
  BY DEF Outside, Wrapper, Program, After, At, Addresses, Codes
<1>2. ASSUME NEW c \in Causes
      PROVE  PlacesIn(c) \subseteq Addresses /\ \A a \in PlacesIn(c) : a.code = c
  BY <1>2 DEF Causes, PlacesIn, At, Addresses, Codes
<1>3. ASSUME NEW a \in Addresses PROVE a \in Place /\ After(a) \in Place
  BY DEF Addresses, Place, After
<1> QED BY <1>1, <1>2, <1>3

(* A thread that is in a trap is at a place of its handler; and the traps  *)
(* in one another are never more than three.                               *)
LEMMA TopPlace ==
  ASSUME NEW t, NEW s \in Seq(Frame), NEW a, NEW m, Stack(t, s, a, m)
  PROVE  /\ a \in Addresses
         /\ s # <<>> => a \in PlacesIn(Last(s).cause) /\ Last(s).cause \in Causes
                          /\ a.code = Last(s).cause
<1>1. CASE s = <<>>
  BY <1>1, PlacesTyped DEF Stack
<1>2. CASE s # <<>>
  <2>0. Last(s) \in Frame
    BY <1>2, Popped
  <2>1. Last(s).cause \in Causes
    BY <2>0 DEF Frame
  <2> QED BY <1>2, <2>1, PlacesTyped DEF Stack
<1> QED BY <1>1, <1>2

LEMMA Depth ==
  ASSUME NEW t, NEW s \in Seq(Frame), NEW a, NEW m, Stack(t, s, a, m)
  PROVE  Len(s) \in Nat /\ Len(s) <= 3
<1>1. PICK n \in Nat : n = Len(s)
  BY LenProperties
<1>2. SUFFICES ASSUME n > 3 PROVE FALSE
  BY <1>1
<1>3. s # <<>>
  BY <1>1, <1>2
<1>4. \A i \in 1 .. n - 1 : Nested(s[i], s[i + 1])
  BY <1>1, <1>3 DEF Stack, Chain
<1>5. Nested(s[1], s[2]) /\ Nested(s[2], s[3]) /\ Nested(s[3], s[4])
  <2>1. 1 \in 1 .. n - 1 /\ 2 \in 1 .. n - 1 /\ 3 \in 1 .. n - 1
    BY <1>2
  <2>2. Nested(s[1], s[1 + 1]) /\ Nested(s[2], s[2 + 1]) /\ Nested(s[3], s[3 + 1])
    BY <1>4, <2>1
  <2> QED BY <2>2
<1>6. s[2].cause = "memory" /\ s[3].cause = "pageFault"
  BY <1>5 DEF Nested, Inside, Prints
<1> QED BY <1>5, <1>6 DEF Nested, Inside, Prints

(* The trap on top of a stack was taken outside the handlers, or in that   *)
(* of the trap below it.                                                   *)
LEMMA TopTrap ==
  ASSUME NEW t, NEW s \in Seq(Frame), s # <<>>, NEW a, NEW m, Stack(t, s, a, m)
  PROVE  /\ Kept(Last(s)) /\ s[1].cause \in CausesOf(t)
         /\ Len(s) = 1 => Outer(t, Last(s), m)
         /\ Len(s) # 1 => Nested(s[Len(s) - 1], Last(s))
         /\ Len(s) # 1 => s[1].cause \in Prints \cup {"destroy", "memory", "create"}
<1>1. PICK n \in Nat \ {0} : n = Len(s) /\ Last(s) = s[n]
  BY Popped
<1>2. Outer(t, s[1], m) /\ \A i \in 1 .. n - 1 : Nested(s[i], s[i + 1])
  BY <1>1 DEF Stack, Chain
<1>3. CASE n = 1
  BY <1>1, <1>2, <1>3 DEF Outer
<1>4. CASE n # 1
  <2>1. n - 1 \in 1 .. n - 1 /\ 1 \in 1 .. n - 1 /\ (n - 1) + 1 = n /\ 1 + 1 = 2
    BY <1>1, <1>4
  <2>2. Nested(s[n - 1], s[(n - 1) + 1]) /\ Nested(s[1], s[1 + 1])
    BY <1>2, <2>1
  <2>3. Nested(s[n - 1], s[n]) /\ Nested(s[1], s[2])
    BY <2>1, <2>2
  <2> QED BY <1>1, <1>2, <1>4, <2>3 DEF Nested, Inside, Outer
<1> QED BY <1>3, <1>4

(* The locals of a handler that keeps what it needs.                       *)
LEMMA RestoredIs ==
  ASSUME NEW f, Kept(f)
  PROVE  /\ Saves(f.cause) =>
              /\ Restored(f).sepc = IF f.cause \in Calls THEN After(f.from.at) ELSE f.from.at
              /\ Restored(f).spp = f.from.mode /\ Restored(f).spie = f.from.sie
         /\ ~Saves(f.cause) =>
              Restored(f).sepc = sepc /\ Restored(f).spp = spp /\ Restored(f).spie = spie
<1>1. CASE Saves(f.cause)
  <2> DEFINE s == [sepc |-> IF f.cause \in Calls THEN After(f.from.at) ELSE f.from.at,
                   spp |-> f.from.mode, spie |-> f.from.sie]
  <2>1. f.saved = {s}
    BY <1>1 DEF Kept
  <2>2. (CHOOSE r \in {s} : TRUE) = s
    OBVIOUS
  <2> QED BY <1>1, <2>1, <2>2 DEF Restored
<1>2. CASE ~Saves(f.cause)
  BY <1>2 DEF Kept, Restored, Registers
<1> QED BY <1>1, <1>2

(* What a step does to the running thread leaves the stacks of the others, *)
(* but of one that is made anew.                                           *)
Renewed(t, s, a) == t \in Others /\ s = <<>> /\ a = Wrapper

LEMMA OthersStay ==
  ASSUME Stacks, NEW m, m = mainAt \/ running = main, NEW t \in Threads \ {running},
         NEW s, NEW a, (s = frames[t] /\ a = where[t]) \/ Renewed(t, s, a)
  PROVE  Stack(t, s, a, m) /\ Parked(s, a) /\ a \in Addresses /\ s \in Seq(Frame)
<1>1. CASE s = frames[t] /\ a = where[t]
  <2>1. Stack(t, s, a, mainAt) /\ Parked(s, a) /\ a \in Addresses /\ s \in Seq(Frame)
    BY <1>1 DEF Stacks
  <2>2. m = mainAt \/ t # main
    OBVIOUS
  <2> QED BY <2>1, <2>2 DEF Stack, Outer
<1>2. CASE Renewed(t, s, a)
  <2>1. t # main /\ <<>> \in Seq(Frame)
    BY <1>2, Names, EmptySeq DEF Renewed, Kernel
  <2> QED BY <1>2, <2>1, PlacesTyped DEF Renewed, Stack, Parked, InTrap
<1> QED BY <1>1, <1>2

(* What is to be shown of a step.                                          *)
BegunStays == \A t \in {putcThread, getcThread} : Begun(t) => Begun(t)'

LEMMA StacksNext ==
  ASSUME Stacks, running' \in Threads, Lists', Registered', Processor',
         mainAt' = mainAt \/ running = main,
         NEW W, where' = [t \in Threads |-> W[t]], NEW F, frames' = [t \in Threads |-> F[t]],
         \A t \in Threads \ {running} : (F[t] = frames[t] /\ W[t] = where[t])
                                          \/ Renewed(t, F[t], W[t]),
         Stack(running, F[running], W[running], mainAt'), F[running] \in Seq(Frame),
         running' = running \/ Parked(F[running], W[running])
  PROVE  Stacks' /\ (W[running] # Wrapper => BegunStays)
<1>1. running \in Threads /\ \A t \in Threads : where'[t] = W[t] /\ frames'[t] = F[t]
  BY DEF Stacks
<1>2. \A t \in Threads \ {running} :
        Stack(t, F[t], W[t], mainAt') /\ Parked(F[t], W[t]) /\ W[t] \in Addresses
          /\ F[t] \in Seq(Frame)
  BY OthersStay
<1>3. W[running] \in Addresses
  BY TopPlace
<1>4. /\ \A t \in Threads : Stack(t, frames'[t], where'[t], mainAt')
      /\ \A t \in Threads \ {running'} : Parked(frames'[t], where'[t])
  BY <1>1, <1>2
<1>5. where' \in [Threads -> Addresses] /\ frames' \in [Threads -> Seq(Frame)]
  BY <1>1, <1>2, <1>3
<1>6. W[running] # Wrapper => BegunStays
  <2>1. \A t \in {putcThread, getcThread} : t \in Threads /\ t \notin Others
    BY Names DEF Kernel
  <2> QED BY <1>1, <2>1 DEF Begun, BegunStays, Renewed
<1> QED BY <1>4, <1>5, <1>6 DEF Stacks

-----------------------------------------------------------------------------
(* A trap in the handler of the one on top, and the return from it.        *)
LEMMA Deeper ==
  ASSUME NEW t, NEW s \in Seq(Frame), s # <<>>, NEW a, NEW m, Stack(t, s, a, m),
         NEW f \in Frame, Nested(Last(s), f), NEW b \in PlacesIn(f.cause)
  PROVE  Stack(t, Append(s, f), b, m)
<1>1. PICK n \in Nat \ {0} : n = Len(s) /\ Last(s) = s[n]
  BY Popped
<1>2. PICK u : u = Append(s, f)
  OBVIOUS
<1>3. /\ u # <<>> /\ Len(u) = n + 1 /\ Last(u) = f /\ u[n + 1] = f
      /\ \A i \in 1 .. n : u[i] = s[i]
  BY <1>1, <1>2, Pushed
<1>4. Outer(t, u[1], m)
  BY <1>1, <1>3 DEF Stack
<1>5. \A i \in 1 .. n - 1 : Nested(s[i], s[i + 1])
  BY <1>1 DEF Stack, Chain
<1>6. ASSUME NEW i \in 1 .. n PROVE Nested(u[i], u[i + 1])
  <2>1. CASE i = n
    BY <1>1, <1>3, <2>1
  <2>2. CASE i # n
    <3>1. i \in 1 .. n - 1 /\ i + 1 \in 1 .. n
      BY <2>2
    <3> QED BY <1>3, <1>5, <3>1
  <2> QED BY <2>1, <2>2
<1>7. Chain(u)
  BY <1>3, <1>6 DEF Chain
<1> QED BY <1>2, <1>3, <1>4, <1>7 DEF Stack

LEMMA Shallower ==
  ASSUME NEW t, NEW s \in Seq(Frame), s # <<>>, NEW a, NEW m, Stack(t, s, a, m),
         Len(s) # 1, NEW b \in PlacesIn(s[Len(s) - 1].cause)
  PROVE  Stack(t, Front(s), b, m)
<1>1. PICK n \in Nat \ {0} : n = Len(s)
  BY Popped
<1>2. PICK u : u = Front(s)
  OBVIOUS
<1>3. /\ u # <<>> /\ Len(u) = n - 1 /\ Last(u) = s[n - 1] /\ u[1] = s[1]
      /\ \A i \in 1 .. n - 1 : u[i] = s[i]
  BY <1>1, <1>2, Popped
<1>4. Outer(t, u[1], m)
  BY <1>3 DEF Stack
<1>5. \A i \in 1 .. n - 1 : Nested(s[i], s[i + 1])
  BY <1>1 DEF Stack, Chain
<1>6. ASSUME NEW i \in 1 .. n - 2 PROVE Nested(u[i], u[i + 1])
  <2>1. i \in 1 .. n - 1 /\ i + 1 \in 1 .. n - 1
    OBVIOUS
  <2> QED BY <1>3, <1>5, <2>1
<1>7. Chain(u)
  <2>1. (n - 1) - 1 = n - 2
    OBVIOUS
  <2> QED BY <1>3, <1>6, <2>1 DEF Chain
<1> QED BY <1>1, <1>2, <1>3, <1>4, <1>7 DEF Stack

(* A trap is on top of the stack of the running thread, in a fresh place.  *)
LEMMA TrapStacks ==
  ASSUME Stacks, NEW cause \in Causes, Trap(cause),
         \/ /\ frames[running] = <<>>
            /\ cause \in CausesOf(running) /\ where[running] \in Outside
            /\ cause \in Calls => where[running] = Program
         \/ /\ frames[running] # <<>>
            /\ Inside(Last(frames[running]).cause, where[running], cause)
  PROVE  /\ Stacks' /\ Unsaved' /\ ready' = ready /\ BegunStays
         /\ where'[running] = At(cause, 0) /\ frames'[running] # <<>>
<1>1. PICK r \in Threads : r = running
  BY DEF Stacks
<1>2. PICK f : f = [cause |-> cause, saved |-> Saved(cause),
                    from |-> [at |-> where[r], mode |-> mode, sie |-> sie]]
  OBVIOUS
<1>3. /\ sepc' = where[r] /\ spp' = mode /\ spie' = sie
      /\ mode' = "S" /\ sie' = FALSE
      /\ frames' = [frames EXCEPT ![r] = Append(frames[r], f)]
      /\ where' = [where EXCEPT ![r] = At(cause, 0)]
      /\ UNCHANGED <<running, ready, blocked, finished, stale, free, mainAt>>
  BY <1>1, <1>2 DEF Trap, At
<1>4. /\ where \in [Threads -> Addresses] /\ frames \in [Threads -> Seq(Frame)]
      /\ Stack(r, frames[r], where[r], mainAt) /\ frames[r] \in Seq(Frame)
      /\ where[r] \in Addresses /\ mode \in {"U", "S"} /\ sie \in BOOLEAN
  BY DEF Stacks, Registered
<1>5. /\ where' = [t \in Threads |-> where'[t]] /\ where'[r] = At(cause, 0)
      /\ frames' = [t \in Threads |-> frames'[t]] /\ frames'[r] = Append(frames[r], f)
      /\ \A t \in Threads \ {r} : frames'[t] = frames[t] /\ where'[t] = where[t]
  BY <1>3, <1>4
<1>6. /\ f.cause = cause /\ f.from.at = where[r] /\ f.from.mode = mode /\ f.from.sie = sie
      /\ Kept(f)
  BY <1>1, <1>2 DEF Kept, Saved
<1>7. f \in Frame
  <2>1. where[r] \in Place /\ After(where[r]) \in Place
    BY <1>4, PlacesTyped
  <2>2. Saved(cause) \in SUBSET Locals
    BY <1>1, <1>4, <2>1 DEF Saved, Locals
  <2> QED BY <1>2, <1>4, <2>2 DEF Frame
<1>8. /\ At(cause, 0) # Wrapper /\ At(cause, 0) \in PlacesIn(cause)
      /\ At(cause, 0) # At("unknown", 2)
  <2>1. cause # "wrapper"
    BY DEF Causes, Calls
  <2> QED BY <2>1, PlaceFacts
<1>9. frames'[r] # <<>> /\ Last(frames'[r]) = f /\ frames'[r] \in Seq(Frame)
  BY <1>4, <1>5, <1>7, Pushed
<1>10. Stack(r, frames'[r], At(cause, 0), mainAt)
  <2>1. CASE frames[r] = <<>>
    <3>1. /\ where[r] \in Outside /\ cause \in CausesOf(r)
          /\ cause \in Calls => where[r] = Program
      BY <1>1, <2>1
    <3>2. where[r] # Wrapper
      BY <3>1, PlaceFacts
    <3>3. mode = Privilege(r) /\ (r \in Kernel /\ sie => r = main /\ mainAt = "flush")
      BY <1>1, <2>1, <3>2 DEF Stacks, Processor, InTrap
    <3>4. Outer(r, f, mainAt)
      BY <1>6, <3>1, <3>3 DEF Outer
    <3>5. Len(frames'[r]) = 1 /\ frames'[r][1] = f
      <4>1. Len(frames[r]) = 0
        BY <2>1, EmptySeq
      <4> QED BY <1>4, <1>5, <1>7, <4>1, Pushed
    <3>6. Chain(frames'[r])
      BY <3>5 DEF Chain
    <3> QED BY <1>6, <1>8, <1>9, <3>4, <3>5, <3>6 DEF Stack
  <2>2. CASE frames[r] # <<>>
    <3>1. Inside(Last(frames[r]).cause, where[r], cause)
      BY <1>1, <2>2
    <3>2. mode = "S" /\ sie = FALSE
      BY <1>1, <1>4, <2>2 DEF Stacks, Processor, InTrap
    <3>3. Nested(Last(frames[r]), f)
      BY <1>6, <3>1, <3>2 DEF Nested
    <3> QED BY <1>4, <1>5, <1>6, <1>7, <1>8, <2>2, <3>3, Deeper
  <2> QED BY <2>1, <2>2
<1>11. Processor'
  BY <1>1, <1>3, <1>9 DEF Processor, InTrap
<1>12. Lists' /\ Registered'
  BY <1>3, <1>4 DEF Stacks, Lists, Registered
<1>13. Stacks' /\ BegunStays
  <2>1. PICK W, F : W = where' /\ F = frames'
    OBVIOUS
  <2>2. /\ where' = [t \in Threads |-> W[t]] /\ frames' = [t \in Threads |-> F[t]]
        /\ \A t \in Threads \ {running} : F[t] = frames[t] /\ W[t] = where[t]
        /\ Stack(running, F[running], W[running], mainAt') /\ F[running] \in Seq(Frame)
        /\ running' = running /\ mainAt' = mainAt /\ running' \in Threads
        /\ W[running] # Wrapper
    BY <1>1, <1>3, <1>5, <1>8, <1>9, <1>10, <2>1
  <2> QED BY <1>11, <1>12, <2>2, StacksNext
<1>14. Unsaved'
  BY <1>1, <1>3, <1>5, <1>6, <1>8, <1>9 DEF Unsaved
<1> QED BY <1>1, <1>3, <1>5, <1>9, <1>13, <1>14

-----------------------------------------------------------------------------
(* A handler returns to the place of the trap, with what it kept; or, if   *)
(* it is that of an unknown cause, behind the kernel's printing.           *)
Untouched(others, stacks) ==
  /\ others \in [Threads -> Addresses] /\ stacks = [t \in Threads |-> stacks[t]]
  /\ \A t \in Threads \ {running} : (stacks[t] = frames[t] /\ others[t] = where[t])
                                      \/ Renewed(t, stacks[t], others[t])

LEMMA ReturnStacks ==
  ASSUME Stacks, Unsaved, NEW others, NEW stacks, ReturnWith(others, stacks),
         Untouched(others, stacks), Lists',
         NEW cause \in Causes \ {"violation"}, NEW n, Handles(cause, n),
         cause = "unknown" => n = 2
  PROVE  /\ Stacks' /\ Unsaved' /\ BegunStays
         /\ running' = running /\ mainAt' = mainAt
         /\ frames[running] # <<>> /\ Last(frames[running]).cause = cause
         /\ cause # "unknown" => Resumed(running)
         /\ \A t \in Threads \ {running} : where'[t] = others[t]
         /\ running \in {putcThread, getcThread} => where'[running] \in {Program, After(Program)}
<1>1. PICK r \in Threads : r = running
  BY DEF Stacks
<1>2. PICK s \in Seq(Frame) : s = frames[r] /\ s # <<>>
  BY <1>1 DEF Stacks, Handles
<1>3. PICK f : f = Last(s)
  OBVIOUS
<1>4. PICK reg : reg = Restored(f)
  OBVIOUS
<1>5. PICK k \in Nat \ {0} : k = Len(s)
  BY <1>2, Popped
<1>6. /\ mode' = reg.spp /\ sie' = reg.spie
      /\ sepc' = reg.sepc /\ spp' = "U" /\ spie' = TRUE
      /\ where' = [others EXCEPT ![r] = reg.sepc]
      /\ frames' = [stacks EXCEPT ![r] = Front(s)]
      /\ UNCHANGED <<running, mainAt>>
  BY <1>1, <1>2, <1>3, <1>4 DEF ReturnWith, Sret
<1>7. /\ where' = [t \in Threads |-> where'[t]] /\ where'[r] = reg.sepc
      /\ frames' = [t \in Threads |-> frames'[t]] /\ frames'[r] = Front(s)
      /\ \A t \in Threads \ {r} : frames'[t] = stacks[t] /\ where'[t] = others[t]
  BY <1>6 DEF Untouched
<1>8. /\ f.cause = cause /\ where[r] = At(cause, n) /\ Stack(r, s, where[r], mainAt)
      /\ mode = "S" /\ ~sie /\ spie \in BOOLEAN /\ cause \in Causes
  BY <1>1, <1>2, <1>3 DEF Handles, At, Stacks, Registered, Processor, InTrap
<1>9. /\ cause = "pageFault" => sepc = f.from.at /\ spp = f.from.mode /\ spie = f.from.sie
      /\ cause = "unknown" => spp = "U" /\ sepc = At("unknown", 2)
  BY <1>1, <1>2, <1>3, <1>8 DEF Unsaved
<1>10. /\ Kept(f) /\ s[1].cause \in CausesOf(r) /\ f \in Frame
       /\ k = 1 => Outer(r, f, mainAt)
       /\ k # 1 => Nested(s[k - 1], f)
       /\ k # 1 => s[1].cause \in Prints \cup {"destroy", "memory", "create"}
  BY <1>2, <1>3, <1>5, <1>8, TopTrap, Popped
<1>11. Saves(cause) \/ cause = "pageFault" \/ cause = "unknown"
  BY DEF Saves
<1>12. /\ cause # "unknown" =>
            /\ reg.sepc = IF cause \in Calls THEN After(f.from.at) ELSE f.from.at
            /\ reg.spp = f.from.mode /\ reg.spie = f.from.sie
       /\ cause = "unknown" => reg.sepc = At("unknown", 2) /\ reg.spp = "U"
                                 /\ reg.spie \in BOOLEAN
  BY <1>4, <1>8, <1>9, <1>10, <1>11, RestoredIs DEF Saves, Calls
<1>13. /\ frames'[r] \in Seq(Frame)
       /\ k = 1 => frames'[r] = <<>>
       /\ k # 1 => frames'[r] # <<>> /\ Last(frames'[r]) = s[k - 1]
  BY <1>2, <1>5, <1>7, Popped
<1>14. /\ Stack(r, frames'[r], where'[r], mainAt) /\ where'[r] # Wrapper
       /\ sie' \in BOOLEAN /\ mode' \in {"U", "S"} /\ Processor' /\ Unsaved'
       /\ r \in {putcThread, getcThread} => where'[r] \in {Program, After(Program)}
  <2>1. CASE k = 1
    <3>1. Outer(r, f, mainAt) /\ frames'[r] = <<>>
      BY <1>10, <1>13, <2>1
    <3>2. where'[r] \in Outside
      BY <1>7, <1>8, <1>12, <3>1 DEF Outer, Outside
    <3>3. /\ mode' = Privilege(r) /\ sie' \in BOOLEAN
          /\ r \in Kernel /\ sie' => r = main /\ mainAt = "flush"
      <4>1. CASE cause = "unknown"
        <5>1. r \in Programs
          BY <1>8, <3>1, <4>1, Names DEF Outer, CausesOf, Interrupts
        <5>2. Privilege(r) = "U" /\ r \notin Kernel
          BY <5>1, Names DEF Privilege
        <5> QED BY <1>6, <1>12, <4>1, <5>2
      <4>2. CASE cause # "unknown"
        <5>1. f.from.sie \in BOOLEAN
          BY <1>10 DEF Frame
        <5> QED BY <1>6, <1>12, <3>1, <4>2, <5>1 DEF Outer
      <4> QED BY <4>1, <4>2
    <3>4. Stack(r, frames'[r], where'[r], mainAt) /\ where'[r] # Wrapper
      BY <3>1, <3>2, PlaceFacts DEF Stack
    <3>5. Processor'
      BY <1>1, <1>6, <3>1, <3>3, <3>4 DEF Processor, InTrap
    <3>6. Unsaved'
      BY <1>1, <1>6, <3>1 DEF Unsaved
    <3>7. r \in {putcThread, getcThread} => where'[r] \in {Program, After(Program)}
      <4>1. ASSUME r \in {putcThread, getcThread} PROVE cause \in {"wait", "signal"}
        BY <1>8, <3>1, <4>1, Names DEF Outer, CausesOf
      <4> QED BY <1>7, <1>8, <1>12, <3>1, <4>1 DEF Outer, Calls
    <3> QED BY <3>3, <3>4, <3>5, <3>6, <3>7 DEF Privilege
  <2>2. CASE k # 1
    <3>1. PICK g : g = s[k - 1]
      OBVIOUS
    <3>2. /\ Inside(g.cause, f.from.at, cause) /\ f.from.mode = "S" /\ f.from.sie = FALSE
          /\ frames'[r] # <<>> /\ Last(frames'[r]) = g
      BY <1>8, <1>10, <1>13, <2>2, <3>1 DEF Nested
    <3>3. cause # "unknown" /\ g.cause # "wrapper" /\ g.cause # "pageFault"
      BY <3>2 DEF Inside, Prints
    <3>4. mode' = "S" /\ sie' = FALSE
      BY <1>6, <1>12, <3>2, <3>3
    <3>5. \/ g.cause \in Prints \cup {"destroy"}
             /\ where'[r] \in {At(g.cause, 1), At(g.cause, 2)}
          \/ where'[r] = At(g.cause, 0)
      <4>1. where'[r] = IF cause \in Calls THEN After(f.from.at) ELSE f.from.at
        BY <1>7, <1>12, <3>3
      <4>2. After(At(g.cause, 0)) = At(g.cause, 1) /\ After(At(g.cause, 1)) = At(g.cause, 2)
        BY PlaceFacts
      <4>3. {"wait", "signal", "memory"} \subseteq Calls /\ "pageFault" \notin Calls
        BY DEF Calls
      <4> QED BY <3>2, <4>1, <4>2, <4>3 DEF Inside
    <3>6. where'[r] \in PlacesIn(g.cause) /\ where'[r] # Wrapper
      BY <3>3, <3>5, PlaceFacts
    <3>7. Stack(r, frames'[r], where'[r], mainAt)
      BY <1>2, <1>5, <1>7, <1>8, <2>2, <3>1, <3>6, Shallower
    <3>8. Processor'
      BY <1>1, <1>6, <3>2, <3>4 DEF Processor, InTrap
    <3>9. Unsaved'
      BY <1>1, <1>6, <1>7, <3>2, <3>3 DEF Unsaved
    <3>10. r \notin {putcThread, getcThread}
      <4>1. ASSUME r \in {putcThread, getcThread} PROVE FALSE
        <5>1. s[1].cause \in {"wait", "signal"}
          BY <1>10, <4>1, Names DEF CausesOf
        <5> QED BY <1>10, <2>2, <5>1 DEF Prints
      <4> QED BY <4>1
    <3> QED BY <3>4, <3>6, <3>7, <3>8, <3>9, <3>10
  <2> QED BY <2>1, <2>2
<1>15. Registered'
  <2>1. where'[r] \in Addresses
    BY <1>13, <1>14, TopPlace
  <2> QED BY <1>6, <1>7, <1>14, <2>1 DEF Stacks, Registered
<1>16. Stacks' /\ BegunStays
  <2>1. PICK W, F : W = where' /\ F = frames'
    OBVIOUS
  <2>2. /\ where' = [t \in Threads |-> W[t]] /\ frames' = [t \in Threads |-> F[t]]
        /\ \A t \in Threads \ {running} : (F[t] = frames[t] /\ W[t] = where[t])
                                            \/ Renewed(t, F[t], W[t])
        /\ Stack(running, F[running], W[running], mainAt') /\ F[running] \in Seq(Frame)
        /\ running' = running /\ mainAt' = mainAt /\ running' \in Threads
        /\ W[running] # Wrapper
    BY <1>1, <1>6, <1>7, <1>13, <1>14, <2>1 DEF Untouched
  <2> QED BY <1>14, <1>15, <2>2, StacksNext
<1>17. cause # "unknown" => Resumed(running)
  BY <1>1, <1>2, <1>3, <1>6, <1>7, <1>8, <1>12 DEF Resumed
<1> QED BY <1>1, <1>2, <1>3, <1>6, <1>7, <1>8, <1>14, <1>16, <1>17

-----------------------------------------------------------------------------
(* A switch parks the running thread, and goes on in the kernel with one   *)
(* that is parked.                                                         *)
LEMMA SwitchStacks ==
  ASSUME Stacks, NEW q \in Seq(Threads), idleThread \in Elements(q), Switch(q),
         frames[running] # <<>>,
         where[running] \in {At("dispatch", 0), At("timer", 0), At("wait", 0),
                             At("exit", 0), At("violation", 2)},
         blocked' \subseteq Threads, finished' \subseteq Threads, stale' \subseteq Threads
  PROVE  /\ Stacks' /\ Unsaved' /\ IdleAround' /\ BegunStays
         /\ q # <<>> /\ running' = Head(q) /\ ready' = Tail(q)
         /\ spie' = spie /\ frames' = frames /\ mainAt' = mainAt
         /\ \A t \in Threads \ {running} : where'[t] = where[t]
<1>1. PICK r \in Threads : r = running
  BY DEF Stacks
<1>2. /\ running' = Head(q) /\ ready' = Tail(q)
      /\ where' = [where EXCEPT ![r] = After(where[r])]
      /\ UNCHANGED <<free, frames, mode, sie, sepc, spp, spie, mainAt>>
  BY <1>1 DEF Switch, cpu
<1>3. q # <<>>
  BY EmptySeq DEF Elements
<1>4. /\ Head(q) \in Threads /\ Tail(q) \in Seq(Threads)
      /\ Elements(q) = Elements(Tail(q)) \cup {Head(q)}
  BY <1>3, TailElements
<1>5. /\ where \in [Threads -> Addresses] /\ frames \in [Threads -> Seq(Frame)]
      /\ Stack(r, frames[r], where[r], mainAt)
  BY DEF Stacks
<1>6. /\ where' = [t \in Threads |-> where'[t]] /\ where'[r] = After(where[r])
      /\ frames' = [t \in Threads |-> frames'[t]]
      /\ \A t \in Threads \ {r} : where'[t] = where[t]
  BY <1>2, <1>5
<1>7. /\ where'[r] \in Parking
      /\ \/ where[r] = At("dispatch", 0) /\ where'[r] = At("dispatch", 1)
         \/ where[r] = At("timer", 0) /\ where'[r] = At("timer", 1)
         \/ where[r] = At("wait", 0) /\ where'[r] = At("wait", 1)
         \/ where[r] = At("exit", 0) /\ where'[r] = At("exit", 1)
         \/ where[r] = At("violation", 2) /\ where'[r] = At("violation", 3)
  BY <1>1, <1>6, PlaceFacts DEF Parking
<1>8. ASSUME NEW c, where[r] \in PlacesIn(c) PROVE where'[r] \in PlacesIn(c)
  <2>1. ASSUME NEW d, NEW n, At(d, n) \in PlacesIn(c) PROVE c = d
    BY <2>1, PlaceFacts DEF PlacesIn
  <2>2. /\ At("dispatch", 1) \in PlacesIn("dispatch") /\ At("timer", 1) \in PlacesIn("timer")
        /\ At("wait", 1) \in PlacesIn("wait") /\ At("exit", 1) \in PlacesIn("exit")
        /\ At("violation", 3) \in PlacesIn("violation")
    BY DEF PlacesIn
  <2> QED BY <1>7, <1>8, <2>1, <2>2
<1>9. Stack(r, frames[r], where'[r], mainAt)
  BY <1>1, <1>5, <1>8 DEF Stack
<1>10. Parked(frames[r], where'[r])
  BY <1>1, <1>7 DEF Parked, InTrap
<1>11. where'[r] # Wrapper
  BY <1>7, PlaceFacts
<1>12. \A t \in Threads : Parked(frames'[t], where'[t]) /\ Stack(t, frames'[t], where'[t], mainAt)
  BY <1>1, <1>2, <1>6, <1>9, <1>10 DEF Stacks
<1>13. mode = "S" /\ ~sie
  BY DEF Stacks, Processor, InTrap
<1>14. PICK u \in Threads : u = running'
  BY <1>2, <1>4
<1>15. Processor'
  BY <1>2, <1>12, <1>13, <1>14 DEF Processor, Parked
<1>16. Unsaved'
  <2>1. PICK c, n : where'[u] = At(c, n)
                      /\ c \in {"dispatch", "timer", "wait", "exit", "violation", "wrapper"}
    <3>1. Wrapper = At("wrapper", 0)
      BY DEF Wrapper, At
    <3> QED BY <1>12, <3>1 DEF Parked, Parking
  <2>2. where'[u] # At("unknown", 2)
    BY <2>1, PlaceFacts
  <2>3. ASSUME frames'[u] # <<>> PROVE Last(frames'[u]).cause # "pageFault"
    <3>1. PICK d : d = Last(frames'[u]).cause
      OBVIOUS
    <3>2. where'[u] \in PlacesIn(d)
      BY <1>12, <2>3, <3>1 DEF Stack
    <3>3. ASSUME d = "pageFault" PROVE FALSE
      BY <2>1, <3>2, <3>3, PlaceFacts DEF PlacesIn, Prints
    <3> QED BY <3>1, <3>3
  <2> QED BY <1>14, <2>2, <2>3 DEF Unsaved
<1>17. Lists' /\ Registered'
  BY <1>2, <1>4 DEF Stacks, Lists, Registered
<1>18. Stacks' /\ BegunStays
  <2>1. PICK W, F : W = where' /\ F = frames'
    OBVIOUS
  <2>2. /\ where' = [t \in Threads |-> W[t]] /\ frames' = [t \in Threads |-> F[t]]
        /\ \A t \in Threads \ {running} : F[t] = frames[t] /\ W[t] = where[t]
        /\ Stack(running, F[running], W[running], mainAt') /\ F[running] \in Seq(Frame)
        /\ Parked(F[running], W[running]) /\ mainAt' = mainAt /\ running' \in Threads
        /\ W[running] # Wrapper
    BY <1>1, <1>2, <1>5, <1>6, <1>9, <1>10, <1>11, <1>14, <2>1
  <2> QED BY <1>15, <1>17, <2>2, StacksNext
<1> QED
  BY <1>1, <1>2, <1>3, <1>4, <1>6, <1>16, <1>18 DEF IdleAround

-----------------------------------------------------------------------------
(* The handlers that a thread can be in, by the traps that can take it.    *)
LEMMA Handled ==
  ASSUME Stacks, NEW c, NEW n, Handles(c, n)
  PROVE  /\ running \in Threads /\ frames[running] # <<>> /\ where[running] = At(c, n)
         /\ Last(frames[running]).cause = c /\ c \in Causes
         /\ running = main => c \in {"dispatch", "close", "memory", "pageFault"} \cup Interrupts
         /\ running = idleThread => c \in {"dispatch"} \cup Interrupts
         /\ running \in {putcThread, getcThread} => c \in {"wait", "signal"}
         /\ mode = "S" /\ ~sie
<1>1. PICK r \in Threads : r = running
  BY DEF Stacks
<1>2. PICK s \in Seq(Frame) : s = frames[r] /\ s # <<>>
  BY <1>1 DEF Stacks, Handles
<1>3. /\ Stack(r, s, where[r], mainAt) /\ Last(s).cause = c /\ where[r] = At(c, n)
  BY <1>1, <1>2 DEF Stacks, Handles, At
<1>4. PICK k \in Nat \ {0} : k = Len(s)
  BY <1>2, Popped
<1>5. /\ s[1].cause \in CausesOf(r) /\ c \in Causes
      /\ k = 1 => c \in CausesOf(r)
      /\ k # 1 => s[1].cause \in Prints \cup {"destroy", "memory", "create"}
  BY <1>2, <1>3, <1>4, TopTrap, TopPlace, Popped
<1>6. ASSUME r \in {idleThread, putcThread, getcThread} PROVE c \in CausesOf(r)
  <2>1. k = 1
    BY <1>5, <1>6, Names DEF CausesOf, Prints, Interrupts
  <2> QED BY <1>5, <2>1
<1>7. ASSUME r = main PROVE c \in CausesOf(r) \cup {"pageFault"}
  <2>1. CASE k = 1
    BY <1>5, <2>1
  <2>2. CASE k # 1
    <3>1. s[1].cause = "memory"
      BY <1>5, <1>7, <2>2, Names DEF CausesOf, Prints, Interrupts
    <3>2. /\ 1 \in 1 .. k - 1 /\ 1 + 1 = 2
          /\ k = 2 => Last(s) = s[2]
          /\ k # 2 => 2 \in 1 .. k - 1 /\ 2 + 1 = 3
      <4>1. Last(s) = s[k]
        BY <1>2, <1>4, Popped
      <4> QED BY <2>2, <4>1
    <3>3. \A i \in 1 .. k - 1 : Nested(s[i], s[i + 1])
      BY <1>2, <1>3, <1>4 DEF Stack, Chain
    <3>4. Nested(s[1], s[1 + 1])
      BY <3>2, <3>3
    <3>5. s[2].cause = "pageFault"
      BY <3>1, <3>2, <3>4 DEF Nested, Inside, Prints
    <3>6. k = 2
      <4>1. ASSUME k # 2 PROVE FALSE
        <5>1. Nested(s[2], s[2 + 1])
          BY <3>2, <3>3, <4>1
        <5> QED BY <3>5, <5>1 DEF Nested, Inside, Prints
      <4> QED BY <4>1
    <3> QED BY <1>3, <3>2, <3>5, <3>6
  <2> QED BY <2>1, <2>2
<1>8. mode = "S" /\ ~sie
  BY <1>1, <1>2 DEF Stacks, Processor, InTrap
<1> QED BY <1>1, <1>2, <1>3, <1>5, <1>6, <1>7, <1>8, Names DEF CausesOf

(* Where no handler runs, a thread of the kernel is not interrupted, but   *)
(* main() while it waits in flush.                                         *)
LEMMA Interrupted ==
  ASSUME Stacks, mode = "U" \/ sie
  PROVE  /\ frames[running] = <<>> /\ where[running] \in Outside
         /\ running \in Kernel => running = main /\ mainAt = "flush"
<1>1. running \in Threads /\ Stack(running, frames[running], where[running], mainAt)
  BY DEF Stacks
<1>2. frames[running] = <<>> /\ where[running] # Wrapper
  BY DEF Stacks, Processor, InTrap
<1>3. running \in Kernel => running = main /\ mainAt = "flush"
  BY <1>2 DEF Stacks, Processor, InTrap, Privilege
<1> QED BY <1>1, <1>2, <1>3 DEF Stack

(* Where a program is, no handler runs.                                    *)
LEMMA ProgramPlace ==
  ASSUME Stacks, where[running] \in {Program, After(Program), Wrapper}
  PROVE  /\ frames[running] = <<>>
         /\ where[running] = Wrapper => running # main
<1>1. /\ running \in Threads /\ frames[running] \in Seq(Frame)
      /\ Stack(running, frames[running], where[running], mainAt)
  BY DEF Stacks
<1>2. frames[running] = <<>>
  <2>1. ASSUME frames[running] # <<>> PROVE FALSE
    <3>1. where[running].code \in Causes
      BY <1>1, <2>1, TopPlace
    <3>2. where[running].code \in {"program", "wrapper"}
      BY DEF Program, After, Wrapper
    <3> QED BY <3>1, <3>2 DEF Causes, Calls
  <2> QED BY <2>1
<1> QED BY <1>1, <1>2 DEF Stack

-----------------------------------------------------------------------------
(* Once both console threads have begun, the order does not matter.        *)
LEMMA BegunStay ==
  ASSUME Begun(putcThread), Begun(getcThread), BegunStays
  PROVE  BootOrder'
BY DEF BootOrder, BegunStays

(* A trap in that order: main() dispatches, and putcThread waits, with     *)
(* interrupts disabled.                                                    *)
LEMMA TrapOrder ==
  ASSUME IInv, NEW cause, Trap(cause), frames'[running] # <<>>,
         where'[running] = At(cause, 0), BegunStays, FirstMain => cause = "dispatch",
         where[running] # Wrapper
  PROVE  BootOrder'
<1>1. UNCHANGED <<running, ready, finished, mainAt>> /\ spie' = sie
  BY DEF Trap
<1>2. CASE Begun(putcThread) /\ Begun(getcThread)
  BY <1>2, BegunStay
<1>3. PICK r \in Threads : r = running
  BY DEF IInv, Stacks
<1>4. \A t \in Threads \ {r} : where'[t] = where[t]
  BY <1>3 DEF Trap, IInv, Stacks
<1>5. CASE FirstMain
  <2>1. r = main /\ ~sie
    BY <1>3, <1>5, Names DEF FirstMain, IInv, Stacks, Processor, Kernel
  <2>2. ~Begun(putcThread)' /\ ~Begun(getcThread)'
    BY <1>4, <1>5, <2>1, Names DEF FirstMain, Begun
  <2> QED BY <1>1, <1>3, <1>5, <2>1, <2>2 DEF FirstMain, BootOrder
<1>6. CASE FirstPutc
  <2>1. r = putcThread /\ ~sie
    BY <1>3, <1>6, Names DEF FirstPutc, IInv, Stacks, Processor, Kernel
  <2>2. ~Begun(getcThread)'
    BY <1>4, <1>6, <2>1, Names DEF FirstPutc, Begun
  <2> QED BY <1>1, <1>3, <1>6, <2>1, <2>2 DEF FirstPutc, BootOrder
<1>7. CASE FirstGetc
  BY <1>7 DEF FirstGetc, Begun
<1> QED BY <1>2, <1>5, <1>6, <1>7 DEF IInv, BootOrder

(* A return in that order.                                                 *)
LEMMA ReturnOrder ==
  ASSUME IInv, NEW c, NEW n, Handles(c, n), c # "dispatch" \/ n # 0,
         running' = running, BegunStays,
         NEW q \in Seq(Threads), ready' = ready \o q,
         running = putcThread => where'[getcThread] = where[getcThread],
         running \in {putcThread, getcThread} => where'[running] \in {Program, After(Program)}
  PROVE  BootOrder'
<1>1. CASE Begun(putcThread) /\ Begun(getcThread)
  BY <1>1, BegunStay
<1>2. /\ frames[running] # <<>> /\ where[running] = At(c, n) /\ where[running] # Wrapper
      /\ At(c, n) # At("dispatch", 0)
  <2>1. c \in Causes /\ frames[running] # <<>> /\ where[running] = At(c, n)
    BY Handled DEF IInv
  <2>2. c # "wrapper"
    BY <2>1 DEF Causes, Calls
  <2> QED BY <2>1, <2>2, PlaceFacts
<1>3. ~FirstMain /\ ~FirstGetc
  BY <1>2 DEF FirstMain, FirstGetc, Begun
<1>4. CASE FirstPutc
  <2>1. where'[putcThread] \notin {Wrapper, At("wait", 0)}
    BY <1>4, PlaceFacts DEF FirstPutc, Wrapper, At, Program, After
  <2>2. ready' # <<>> /\ Head(ready') = getcThread
    <3>1. ready \in Seq(Threads) /\ ready # <<>> /\ Head(ready) = getcThread
      BY <1>4 DEF FirstPutc, IInv, Stacks, Lists
    <3> QED BY <3>1
  <2> QED BY <1>4, <2>1, <2>2 DEF FirstPutc, BootOrder, Begun
<1> QED BY <1>1, <1>3, <1>4 DEF IInv, BootOrder

-----------------------------------------------------------------------------
(* Every trap keeps the invariant.                                         *)
LEMMA TrapKeeps ==
  ASSUME IInv, NEW cause \in Causes, Trap(cause), where[running] # Wrapper,
         FirstMain => cause = "dispatch",
         \/ /\ frames[running] = <<>>
            /\ cause \in CausesOf(running) /\ where[running] \in Outside
            /\ cause \in Calls => where[running] = Program
         \/ /\ frames[running] # <<>>
            /\ Inside(Last(frames[running]).cause, where[running], cause)
  PROVE  IInv'
<1>1. /\ Stacks' /\ Unsaved' /\ ready' = ready /\ BegunStays
      /\ where'[running] = At(cause, 0) /\ frames'[running] # <<>>
  BY TrapStacks DEF IInv
<1>2. BootOrder'
  BY <1>1, TrapOrder
<1>3. IdleAround' /\ Steady'
  BY DEF IInv, IdleAround, Steady, Trap
<1> QED BY <1>1, <1>2, <1>3 DEF IInv

LEMMA EcallKeeps == IInv /\ ecall => IInv'
<1> SUFFICES ASSUME IInv, ecall PROVE IInv'
  OBVIOUS
<1>1. PICK cause \in CallsOf(running) : Trap(cause)
  BY DEF ecall
<1>2. where[running] = Program /\ where[running] \in Outside /\ where[running] # Wrapper
  BY PlaceFacts DEF ecall
<1>3. frames[running] = <<>>
  BY <1>2, ProgramPlace DEF IInv
<1>4. /\ cause \in CausesOf(running) /\ cause \in Causes
      /\ running = main /\ mainAt = "dispatch" => cause = "dispatch"
  <2>1. running \in Threads /\ mainAt \in {"dispatch", "flush", "end"}
    BY DEF IInv, Stacks, Registered
  <2>2. CASE running = main
    BY <1>1, <2>1, <2>2, Names DEF CallsOf, CausesOf, Calls, Causes
  <2>3. CASE running # main
    BY <1>1, <2>1, <2>3, Names DEF CallsOf, CausesOf, Calls, Causes
  <2> QED BY <2>2, <2>3
<1> QED BY <1>1, <1>2, <1>3, <1>4, TrapKeeps DEF FirstMain

LEMMA FaultKeeps == IInv /\ fault => IInv'
<1> SUFFICES ASSUME IInv, fault PROVE IInv'
  OBVIOUS
<1>1. PICK cause \in {"pageFault", "violation", "unknown"} : Trap(cause)
  BY DEF fault
<1>2. where[running] = Program /\ where[running] \in Outside /\ where[running] # Wrapper
  BY PlaceFacts DEF fault
<1>3. frames[running] = <<>>
  BY <1>2, ProgramPlace DEF IInv
<1>4. /\ cause \in CausesOf(running) /\ cause \in Causes /\ cause \notin Calls
      /\ running # main
  <2>1. running \in Programs
    BY DEF fault
  <2> QED BY <1>1, <2>1, Names DEF CausesOf, Calls, Causes, Kernel
<1> QED BY <1>1, <1>2, <1>3, <1>4, TrapKeeps DEF FirstMain

(* The calls of the handlers that print or destroy, and the faults of      *)
(* those of memory, are traps inside of traps.                             *)
LEMMA NestedKeeps ==
  ASSUME IInv, NEW c \in Prints \cup {"destroy", "memory", "create"}, NEW n, Handles(c, n),
         NEW cause, Trap(cause), Inside(c, At(c, n), cause)
  PROVE  IInv'
<1>1. /\ frames[running] # <<>> /\ where[running] = At(c, n)
      /\ Last(frames[running]).cause = c
  BY Handled DEF IInv
<1>2. At(c, n) # Wrapper /\ At(c, n) # At("dispatch", 0)
  <2>1. c # "wrapper" /\ c # "dispatch"
    BY DEF Prints
  <2> QED BY <2>1, PlaceFacts
<1>3. ~FirstMain
  BY <1>1, <1>2 DEF FirstMain
<1>4. cause \in Causes
  BY DEF Inside, Causes, Calls
<1> QED BY <1>1, <1>2, <1>3, <1>4, TrapKeeps

LEMMA NestedCallKeeps == IInv /\ nestedCall => IInv'
<1> SUFFICES ASSUME IInv, nestedCall PROVE IInv'
  OBVIOUS
<1>1. PICK c, n, cause : /\ c \in Prints \cup {"destroy"} /\ Handles(c, n)
                         /\ Trap(cause) /\ Inside(c, At(c, n), cause)
  BY DEF nestedCall, Inside
<1> QED BY <1>1, NestedKeeps

LEMMA KernelFaultKeeps == IInv /\ kernelFault => IInv'
<1> SUFFICES ASSUME IInv, kernelFault PROVE IInv'
  OBVIOUS
<1>1. PICK c \in {"memory", "create"} :
        Handles(c, 0) /\ Trap("pageFault") /\ Inside(c, At(c, 0), "pageFault")
  BY DEF kernelFault, Inside
<1> QED BY <1>1, NestedKeeps

LEMMA InterruptKeeps == IInv /\ interrupt => IInv'
<1> SUFFICES ASSUME IInv, interrupt PROVE IInv'
  OBVIOUS
<1>1. PICK cause \in Interrupts : Trap(cause)
  BY DEF interrupt, Interrupts
<1>2. /\ frames[running] = <<>> /\ where[running] \in Outside
      /\ running \in Kernel => running = main /\ mainAt = "flush"
  BY Interrupted DEF interrupt, IInv
<1>3. where[running] # Wrapper
  BY <1>2, PlaceFacts
<1>4. /\ cause \in CausesOf(running) /\ cause \in Causes /\ cause \notin Calls
      /\ ~FirstMain
  <2>1. running \notin {putcThread, getcThread}
    BY <1>2, Names DEF Kernel
  <2> QED BY <1>2, <2>1 DEF CausesOf, Calls, Causes, Interrupts, Kernel, FirstMain
<1> QED BY <1>1, <1>2, <1>3, <1>4, TrapKeeps

-----------------------------------------------------------------------------
(* A step of the running thread that takes no trap and is in none after.   *)
LEMMA QuietStacks ==
  ASSUME Stacks, frames[running] = <<>>, NEW a \in Outside,
         where' = [where EXCEPT ![running] = a],
         UNCHANGED <<running, ready, blocked, finished, stale, free, frames>>,
         mainAt' = mainAt \/ running = main,
         mode' = Privilege(running), running \in Kernel /\ sie' => running = main /\ mainAt' = "flush",
         Registered'
  PROVE  /\ Stacks' /\ Unsaved' /\ BegunStays
         /\ where'[running] = a /\ \A t \in Threads \ {running} : where'[t] = where[t]
<1>1. PICK r \in Threads : r = running
  BY DEF Stacks
<1>2. where \in [Threads -> Addresses] /\ frames \in [Threads -> Seq(Frame)]
  BY DEF Stacks
<1>3. /\ where' = [t \in Threads |-> where'[t]] /\ frames' = [t \in Threads |-> frames'[t]]
      /\ where'[r] = a /\ frames'[r] = <<>>
      /\ \A t \in Threads \ {r} : where'[t] = where[t]
  BY <1>1, <1>2
<1>4. Stack(r, <<>>, a, mainAt') /\ a # Wrapper /\ <<>> \in Seq(Frame)
  BY PlaceFacts, EmptySeq DEF Stack
<1>5. Processor'
  BY <1>1, <1>3, <1>4 DEF Processor, InTrap
<1>6. Lists'
  BY DEF Stacks, Lists
<1>7. Stacks' /\ BegunStays
  <2>1. PICK W, F : W = where' /\ F = frames'
    OBVIOUS
  <2>2. /\ where' = [t \in Threads |-> W[t]] /\ frames' = [t \in Threads |-> F[t]]
        /\ \A t \in Threads \ {running} : F[t] = frames[t] /\ W[t] = where[t]
        /\ Stack(running, F[running], W[running], mainAt') /\ F[running] \in Seq(Frame)
        /\ running' = running /\ running' \in Threads /\ W[running] # Wrapper
    BY <1>1, <1>3, <1>4, <2>1
  <2> QED BY <1>5, <1>6, <2>2, StacksNext
<1>8. Unsaved'
  BY <1>1, <1>3 DEF Unsaved
<1> QED BY <1>1, <1>3, <1>7, <1>8

LEMMA ProceedKeeps == IInv /\ proceed => IInv'
<1> SUFFICES ASSUME IInv, proceed PROVE IInv'
  OBVIOUS
<1>1. /\ where[running] = After(Program) /\ where' = [where EXCEPT ![running] = Program]
      /\ UNCHANGED <<running, ready, blocked, finished, stale, free, frames, mainAt>>
      /\ UNCHANGED <<mode, sie, sepc, spp, spie>>
  BY DEF proceed, cpu
<1>2. /\ frames[running] = <<>> /\ After(Program) # Wrapper /\ Program # Wrapper
      /\ Program # At("wait", 0) /\ Program # After(Program) /\ Program \in Outside
  BY <1>1, ProgramPlace, PlaceFacts DEF IInv
<1>3. mode = Privilege(running) /\ (running \in Kernel /\ sie => running = main /\ mainAt = "flush")
  BY <1>1, <1>2 DEF IInv, Stacks, Processor, InTrap
<1>4. Registered'
  BY <1>1 DEF IInv, Stacks, Registered
<1>5. /\ Stacks' /\ Unsaved' /\ BegunStays /\ where'[running] = Program
      /\ \A t \in Threads \ {running} : where'[t] = where[t]
  BY <1>1, <1>2, <1>3, <1>4, QuietStacks DEF IInv
<1>6. BootOrder'
  <2>1. CASE Begun(putcThread) /\ Begun(getcThread)
    BY <1>5, <2>1, BegunStay
  <2>2. CASE FirstMain
    BY <1>1, <1>2, <2>2 DEF FirstMain
  <2>3. CASE FirstPutc
    BY <1>1, <1>2, <1>5, <2>3, Names DEF FirstPutc, BootOrder, Begun
  <2>4. CASE FirstGetc
    BY <1>1, <1>2, <2>4 DEF FirstGetc, Begun
  <2> QED BY <2>1, <2>2, <2>3, <2>4 DEF IInv, BootOrder
<1> QED BY <1>1, <1>5, <1>6 DEF IInv, IdleAround, Steady

LEMMA WrapperKeeps == IInv /\ wrapper => IInv'
<1> SUFFICES ASSUME IInv, wrapper PROVE IInv'
  OBVIOUS
<1>1. /\ where[running] = Wrapper /\ where' = [where EXCEPT ![running] = Program]
      /\ mode' = Privilege(running) /\ sie' = spie
      /\ sepc' = Program /\ spp' = "U" /\ spie' = TRUE
      /\ UNCHANGED <<running, ready, blocked, finished, stale, free, frames, mainAt>>
  BY DEF wrapper, Sret
<1>2. /\ frames[running] = <<>> /\ running # main
      /\ Program # Wrapper /\ Program # At("wait", 0) /\ Program \in Outside
  BY <1>1, ProgramPlace, PlaceFacts DEF IInv
<1>3. ~FirstMain
  BY <1>2 DEF FirstMain
<1>4. running \in Kernel => ~spie
  <2>1. running \in Kernel => running \in {putcThread, getcThread} /\ ~Begun(running)
    BY <1>1, <1>2 DEF Kernel, Begun
  <2> QED BY <1>1, <1>3, <2>1, Names DEF IInv, BootOrder, FirstPutc, FirstGetc
<1>5. Registered'
  BY <1>1, <1>2, PlacesTyped DEF IInv, Stacks, Registered, Privilege
<1>6. /\ Stacks' /\ Unsaved' /\ BegunStays /\ where'[running] = Program
      /\ \A t \in Threads \ {running} : where'[t] = where[t]
  BY <1>1, <1>2, <1>4, <1>5, QuietStacks DEF IInv
<1>7. BootOrder'
  <2>1. CASE Begun(putcThread) /\ Begun(getcThread)
    BY <1>6, <2>1, BegunStay
  <2>2. CASE FirstPutc
    BY <1>1, <1>2, <1>6, <2>2, Names DEF FirstPutc, BootOrder, Begun
  <2>3. CASE FirstGetc
    BY <1>1, <1>2, <1>6, <2>3, Names DEF FirstGetc, BootOrder, Begun
  <2> QED BY <1>3, <2>1, <2>2, <2>3 DEF IInv, BootOrder
<1> QED BY <1>1, <1>6, <1>7 DEF IInv, IdleAround, Steady

(* The steps of main() after usermain has finished.                        *)
LEMMA MainStepKeeps ==
  ASSUME IInv, NEW from \in {"dispatch", "flush"}, NEW to \in {"flush", "end"},
         NEW enabled \in BOOLEAN, mainStep(from, to, enabled), enabled => to = "flush",
         from = "dispatch" => usermainThread \in finished
  PROVE  IInv'
<1>1. /\ running = main /\ where[running] = Program /\ mainAt = from
      /\ mainAt' = to /\ sie' = enabled
      /\ UNCHANGED <<running, ready, blocked, finished, stale, free, where, frames,
                     mode, sepc, spp, spie>>
  BY DEF mainStep
<1>2. frames[running] = <<>> /\ Program # Wrapper /\ Program \in Outside
  BY <1>1, ProgramPlace, PlaceFacts DEF IInv
<1>3. /\ where' = [where EXCEPT ![running] = Program]
      /\ mode' = Privilege(running)
  BY <1>1, <1>2 DEF IInv, Stacks, Processor, InTrap
<1>4. Registered'
  BY <1>1 DEF IInv, Stacks, Registered
<1>5. Stacks' /\ Unsaved' /\ BegunStays
  BY <1>1, <1>2, <1>3, <1>4, QuietStacks DEF IInv
<1>6. BootOrder'
  <2>1. ~FirstMain /\ ~FirstPutc /\ ~FirstGetc
    BY <1>1, Names DEF FirstMain, FirstPutc, FirstGetc
  <2> QED BY <1>5, <2>1, BegunStay DEF IInv, BootOrder
<1> QED BY <1>1, <1>5, <1>6 DEF IInv, IdleAround, Steady

LEMMA FlushKeeps == IInv /\ (flush \/ end) => IInv'
BY MainStepKeeps DEF flush, end

-----------------------------------------------------------------------------
(* The handlers that return: what is ready is appended to.                 *)
LEMMA ReturnKeeps ==
  ASSUME IInv, NEW others, NEW stacks, ReturnWith(others, stacks), Untouched(others, stacks),
         NEW c \in Causes \ {"violation"}, NEW n, Handles(c, n),
         c = "unknown" => n = 2, c # "dispatch" \/ n # 0,
         NEW q \in Seq(Threads), ready' = ready \o q, Lists', Steady'
  PROVE  IInv' /\ (Last(frames[running]).cause # "unknown" => Resumed(running))
<1>1. ready \in Seq(Threads)
  BY DEF IInv, Stacks, Lists
<1>2. Elements(ready') = Elements(ready) \cup Elements(q)
  BY <1>1, ConcatElements
<1>3. /\ Stacks' /\ Unsaved' /\ BegunStays /\ running' = running
      /\ Last(frames[running]).cause = c /\ (c # "unknown" => Resumed(running))
      /\ \A t \in Threads \ {running} : where'[t] = others[t]
      /\ running \in {putcThread, getcThread} => where'[running] \in {Program, After(Program)}
  BY ReturnStacks DEF IInv
<1>4. running = putcThread => where'[getcThread] = where[getcThread]
  <2>1. ASSUME running = putcThread
        PROVE  getcThread \in Threads \ {running} /\ getcThread \notin Others
    BY <2>1, Names, TrapsAssumption
  <2> QED BY <1>3, <2>1 DEF Untouched, Renewed
<1>5. BootOrder'
  BY <1>3, <1>4, ReturnOrder
<1>6. IdleAround'
  BY <1>2, <1>3 DEF IInv, IdleAround
<1> QED BY <1>3, <1>5, <1>6 DEF IInv

LEMMA SameUntouched == IInv => Untouched(where, frames)
BY DEF IInv, Stacks, Untouched

LEMMA PlainKeeps ==
  IInv /\ plain => IInv' /\ (Last(frames[running]).cause # "unknown" => Resumed(running))
<1> SUFFICES ASSUME IInv, plain
             PROVE  IInv' /\ (Last(frames[running]).cause # "unknown" => Resumed(running))
  OBVIOUS
<1>1. PICK c, n : /\ Handles(c, n) /\ c \in Causes \ {"violation"}
                  /\ (c = "unknown" => n = 2) /\ (c # "dispatch" \/ n # 0)
  BY DEF plain, Causes, Calls
<1>2. ReturnWith(where, frames) /\ Untouched(where, frames)
  BY SameUntouched DEF plain, Return
<1>3. <<>> \in Seq(Threads) /\ ready' = ready \o <<>> /\ Lists' /\ Steady'
  <2>1. UNCHANGED <<ready, blocked, finished, stale, free>> /\ ready \in Seq(Threads)
    BY DEF plain, IInv, Stacks, Lists
  <2> QED BY <2>1, EmptySeq, ConcatEmptySeq DEF IInv, Stacks, Lists, Steady
<1> QED BY <1>1, <1>2, <1>3, ReturnKeeps

(* Sets of threads are finite, and so their orders are sequences.          *)
LEMMA Orders ==
  ASSUME NEW S \in SUBSET Threads, NEW q \in SetToSeqs(S)
  PROVE  q \in Seq(Threads) /\ ToSet(q) \subseteq S
<1>1. IsFiniteSet(Threads)
  <2>1. IsFiniteSet(Others)
    BY TrapsAssumption
  <2>2. IsFiniteSet(Others \cup {usermainThread})
    BY <2>1, FS_AddElement
  <2>3. IsFiniteSet((Others \cup {usermainThread}) \cup {idleThread})
    BY <2>2, FS_AddElement
  <2>4. IsFiniteSet(((Others \cup {usermainThread}) \cup {idleThread}) \cup {main})
    BY <2>3, FS_AddElement
  <2>5. IsFiniteSet((((Others \cup {usermainThread}) \cup {idleThread}) \cup {main}) \cup {putcThread})
    BY <2>4, FS_AddElement
  <2>6. IsFiniteSet(((((Others \cup {usermainThread}) \cup {idleThread}) \cup {main}) \cup {putcThread})
                      \cup {getcThread})
    BY <2>5, FS_AddElement
  <2>7. Threads = ((((Others \cup {usermainThread}) \cup {idleThread}) \cup {main}) \cup {putcThread})
                      \cup {getcThread}
    BY DEF Threads, Kernel, Programs
  <2> QED BY <2>6, <2>7
<1>2. Cardinality(S) \in Nat
  BY <1>1, FS_Subset, FS_CardinalityType
<1>3. q \in [1 .. Cardinality(S) -> S]
  BY DEF SetToSeqs
<1> QED BY <1>2, <1>3 DEF ToSet

LEMMA Wakers ==
  ASSUME IInv, NEW cause, NEW q \in Wakings(cause)
  PROVE  q \in Seq(Threads) /\ ToSet(q) \subseteq blocked
<1>1. PICK woken \in SUBSET Waiting(cause) : q \in SetToSeqs(woken)
  BY DEF Wakings
<1>2. Waiting(cause) \subseteq blocked /\ blocked \subseteq Threads
  BY DEF Waiting, IInv, Stacks, Lists
<1> QED BY <1>1, <1>2, Orders

LEMMA WakeKeeps ==
  IInv /\ wake => IInv' /\ (Last(frames[running]).cause # "unknown" => Resumed(running))
<1> SUFFICES ASSUME IInv, wake
             PROVE  IInv' /\ (Last(frames[running]).cause # "unknown" => Resumed(running))
  OBVIOUS
<1>1. PICK c, q :
        /\ c \in {"signal", "external", "timer", "close"} /\ q \in Wakings(c) /\ Handles(c, 0) /\ Return /\ ready' = ready \o q
        /\ blocked' = blocked \ ToSet(q) /\ UNCHANGED <<finished, free>>
        /\ stale' = CASE c = "close" -> stale \cup ToSet(q)
                      [] c = "timer" -> stale
                      [] OTHER       -> stale \ ToSet(q)
  BY DEF wake, AtMost
<1>2. q \in Seq(Threads) /\ ToSet(q) \subseteq blocked
  BY <1>1, Wakers
<1>3. blocked' \subseteq blocked /\ stale' \subseteq stale \cup blocked
  BY <1>1, <1>2
<1>4. Lists' /\ Steady'
  <2>1. ready' \in Seq(Threads)
    BY <1>1, <1>2, ConcatElements DEF IInv, Stacks, Lists
  <2> QED BY <1>1, <1>3, <2>1 DEF IInv, Stacks, Lists, Steady
<1>5. ReturnWith(where, frames) /\ Untouched(where, frames)
  BY <1>1, SameUntouched DEF Return
<1>6. c \in Causes \ {"violation"} /\ c # "unknown" /\ c # "dispatch"
  BY <1>1 DEF Causes, Calls
<1> QED BY <1>1, <1>2, <1>4, <1>5, <1>6, ReturnKeeps

LEMMA CreateKeeps ==
  IInv /\ create => IInv' /\ (Last(frames[running]).cause # "unknown" => Resumed(running))
<1> SUFFICES ASSUME IInv, create
             PROVE  IInv' /\ (Last(frames[running]).cause # "unknown" => Resumed(running))
  OBVIOUS
<1>1. /\ Handles("create", 0) /\ UNCHANGED <<blocked, finished, stale>>
      /\ "create" \in Causes \ {"violation"}
  BY DEF create, Causes, Calls
<1>2. /\ ready \in Seq(Threads) /\ free \subseteq Others
      /\ where \in [Threads -> Addresses] /\ frames \in [Threads -> Seq(Frame)]
  BY DEF IInv, Stacks, Lists
<1>3. Steady'
  BY <1>1 DEF IInv, Steady
<1>4. ASSUME NEW t \in free,
             ReturnWith([where EXCEPT ![t] = Wrapper], [frames EXCEPT ![t] = <<>>]),
             ready' = Append(ready, t), free' = free \ {t}
      PROVE  IInv' /\ (Last(frames[running]).cause # "unknown" => Resumed(running))
  <2>1. t \in Threads /\ t \in Others
    BY <1>2, Names
  <2>2. <<t>> \in Seq(Threads) /\ ready' = ready \o <<t>> /\ ready' \in Seq(Threads)
    BY <1>2, <1>4, <2>1, AppendIsConcat
  <2>3. Untouched([where EXCEPT ![t] = Wrapper], [frames EXCEPT ![t] = <<>>])
    BY <1>2, <2>1, PlacesTyped DEF Untouched, Renewed
  <2>4. Lists'
    BY <1>1, <1>2, <1>4, <2>2 DEF IInv, Stacks, Lists
  <2> QED BY <1>1, <1>3, <1>4, <2>2, <2>3, <2>4, ReturnKeeps
<1>5. ASSUME Return, UNCHANGED <<ready, free>>
      PROVE  IInv' /\ (Last(frames[running]).cause # "unknown" => Resumed(running))
  <2>1. <<>> \in Seq(Threads) /\ ready' = ready \o <<>>
    BY <1>2, <1>5, EmptySeq, ConcatEmptySeq
  <2>2. ReturnWith(where, frames) /\ Untouched(where, frames)
    BY <1>5, SameUntouched DEF Return
  <2>3. Lists'
    BY <1>1, <1>5 DEF IInv, Stacks, Lists
  <2> QED BY <1>1, <1>3, <2>1, <2>2, <2>3, ReturnKeeps
<1> QED BY <1>4, <1>5 DEF create

LEMMA DestroyKeeps ==
  IInv /\ destroy => IInv' /\ (Last(frames[running]).cause # "unknown" => Resumed(running))
<1> SUFFICES ASSUME IInv, destroy
             PROVE  IInv' /\ (Last(frames[running]).cause # "unknown" => Resumed(running))
  OBVIOUS
<1>1. PICK n \in 0 .. 2, dead \in SUBSET (Others \cap finished) :
        /\ Handles("destroy", n) /\ Return /\ UNCHANGED <<ready, blocked>>
        /\ finished' = finished \ dead /\ stale' = stale \ dead /\ free' = free \cup dead
  BY DEF destroy
<1>2. ReturnWith(where, frames) /\ Untouched(where, frames)
  BY <1>1, SameUntouched DEF Return
<1>3. Lists' /\ Steady'
  BY <1>1 DEF IInv, Stacks, Lists, Steady
<1>4. <<>> \in Seq(Threads) /\ ready' = ready \o <<>>
  BY <1>1, EmptySeq, ConcatEmptySeq DEF IInv, Stacks, Lists
<1>5. "destroy" \in Causes \ {"violation"}
  BY DEF Causes, Calls
<1> QED BY <1>1, <1>2, <1>3, <1>4, <1>5, ReturnKeeps

-----------------------------------------------------------------------------
(* The handlers that switch.                                               *)
LEMMA Longer == ASSUME NEW S, NEW s \in Seq(S), Len(s) = 4 PROVE s # <<>>
<1>1. Len(<<>>) = 0 /\ 0 # 4
  BY EmptySeq
<1> QED BY ONLY <1>1, Len(s) = 4, Zenon

LEMMA FirstIsHead == ASSUME NEW S, NEW s \in Seq(S), s # <<>> PROVE Head(s) = s[1]
  OBVIOUS

LEMMA NextInLine ==
  ASSUME NEW S, NEW q \in Seq(S), NEW e \in S, Len(q) = 4
  PROVE  /\ Head(Append(q, e)) = q[1]
         /\ Tail(Append(q, e)) # <<>> /\ Head(Tail(Append(q, e))) = q[2]
<1>1. q # <<>>
  BY Longer
<1>2. Head(Append(q, e)) = q[1]
  <2>1. Head(Append(q, e)) = Head(q)
    BY <1>1, HeadTailAppend
  <2>2. Head(q) = q[1]
    BY <1>1, FirstIsHead
  <2> QED BY ONLY <2>1, <2>2
<1>3. PICK b : b = Tail(q)
  OBVIOUS
<1>4. b \in Seq(S) /\ Len(b) = 3 /\ b[1] = q[2]
  <2>1. /\ b \in Seq(S) /\ Len(b) = Len(q) - 1
        /\ \A i \in 1 .. Len(b) : b[i] = q[i + 1]
    BY <1>1, <1>3, HeadTailProperties
  <2>2. Len(b) = 3
    BY ONLY <2>1, Len(q) = 4
  <2>3. 1 \in 1 .. 3 /\ 1 + 1 = 2
    OBVIOUS
  <2>4. b[1] = q[1 + 1]
    BY ONLY <2>1, <2>2, <2>3
  <2> QED BY <2>1, <2>2, <2>3, <2>4
<1>5. b # <<>>
  <2>1. Len(<<>>) = 0 /\ 0 # 3
    BY EmptySeq
  <2> QED BY ONLY <1>4, <2>1, Zenon
<1>6. Tail(Append(q, e)) = Append(b, e)
  BY <1>1, <1>3, HeadTailAppend
<1>7. Append(b, e) # <<>>
  BY ONLY <1>4, e \in S, AppendProperties
<1>8. Head(Append(b, e)) = q[2]
  BY ONLY <1>4, <1>5, HeadTailAppend, FirstIsHead
<1> QED BY ONLY <1>2, <1>6, <1>7, <1>8

LEMMA BehindIs ==
  ASSUME IInv, NEW q \in Seq(Threads), Elements(ready) \subseteq Elements(q)
  PROVE  /\ Behind(q) \in Seq(Threads) /\ idleThread \in Elements(Behind(q))
         /\ running = main => Behind(q) = Append(q, running)
<1>1. running \in Threads /\ idleThread \in {running} \cup Elements(q)
  BY DEF IInv, Stacks, IdleAround
<1>2. running \in {main, idleThread} => running \notin stale
  BY DEF IInv, Steady
<1>3. CASE running \in stale
  BY <1>1, <1>2, <1>3 DEF Behind
<1>4. CASE running \notin stale
  <2>1. /\ Append(q, running) \in Seq(Threads)
        /\ Elements(Append(q, running)) = Elements(q) \cup {running}
    BY <1>1, AppendElements
  <2> QED BY <1>1, <1>4, <2>1 DEF Behind
<1> QED BY <1>3, <1>4

LEMMA YieldKeeps == IInv /\ yield => IInv'
<1> SUFFICES ASSUME IInv, yield PROVE IInv'
  OBVIOUS
<1>1. /\ ready \in Seq(Threads) /\ blocked \subseteq Threads
      /\ UNCHANGED <<finished, stale>> /\ finished \subseteq Threads /\ stale \subseteq Threads
  BY DEF yield, IInv, Stacks, Lists
<1>2. PICK c \in {"dispatch", "timer"}, q \in Seq(Threads) :
        /\ Handles(c, 0) /\ Switch(Behind(q)) /\ Elements(ready) \subseteq Elements(q)
        /\ c = "dispatch" => q = ready
        /\ blocked' \subseteq blocked
  <2>1. CASE Handles("dispatch", 0) /\ Switch(Behind(ready)) /\ UNCHANGED blocked
    BY <1>1, <2>1
  <2>2. ASSUME NEW p \in Wakings("timer"), Handles("timer", 0), Switch(Behind(ready \o p)),
               blocked' = blocked \ ToSet(p)
        PROVE  /\ ready \o p \in Seq(Threads) /\ Elements(ready) \subseteq Elements(ready \o p)
               /\ blocked' \subseteq blocked
    <3>1. p \in Seq(Threads)
      BY <2>2, Wakers
    <3> QED BY <1>1, <2>2, <3>1, ConcatElements
  <2> QED BY <2>1, <2>2 DEF yield
<1>3. /\ running \in Threads /\ frames[running] # <<>> /\ where[running] = At(c, 0)
      /\ running \in {putcThread, getcThread} => c \in {"wait", "signal"}
  BY <1>2, Handled DEF IInv
<1>4. /\ Behind(q) \in Seq(Threads) /\ idleThread \in Elements(Behind(q))
      /\ running = main => Behind(q) = Append(q, running)
  BY <1>2, BehindIs
<1>5. /\ Stacks' /\ Unsaved' /\ IdleAround' /\ BegunStays
      /\ running' = Head(Behind(q)) /\ ready' = Tail(Behind(q))
      /\ spie' = spie /\ frames' = frames /\ mainAt' = mainAt
      /\ \A t \in Threads \ {running} : where'[t] = where[t]
  <2>1. blocked' \subseteq Threads /\ finished' \subseteq Threads /\ stale' \subseteq Threads
    BY <1>1, <1>2
  <2> QED BY <1>2, <1>3, <1>4, <2>1, SwitchStacks DEF IInv
<1>6. BootOrder'
  <2>1. CASE Begun(putcThread) /\ Begun(getcThread)
    BY <1>5, <2>1, BegunStay
  <2>2. CASE FirstMain
    <3>1. running = main /\ ~spie /\ ready = Boot /\ where[running] = At("dispatch", 0)
      BY <1>3, <2>2 DEF FirstMain
    <3>2. c = "dispatch"
      BY <1>3, <3>1, PlaceFacts
    <3>3. Behind(q) = Append(ready, running)
      BY <1>2, <1>4, <3>1, <3>2
    <3>4. Len(ready) = 4 /\ ready[1] = putcThread /\ ready[2] = getcThread
      BY <3>1 DEF Boot
    <3>5. running' = putcThread /\ ready' # <<>> /\ Head(ready') = getcThread
      BY <1>1, <1>3, <1>5, <3>3, <3>4, NextInLine
    <3>6. getcThread \in Threads \ {running}
      BY <3>1, Names
    <3>7. ~Begun(getcThread)'
      BY <1>5, <2>2, <3>6 DEF FirstMain, Begun
    <3>8. FirstPutc'
      BY <1>5, <3>1, <3>5, <3>7 DEF FirstPutc
    <3> QED BY <3>8 DEF BootOrder
  <2>3. ~FirstPutc /\ ~FirstGetc
    BY <1>2, <1>3 DEF FirstPutc, FirstGetc
  <2> QED BY <2>1, <2>2, <2>3 DEF IInv, BootOrder
<1>7. Steady'
  BY <1>1, <1>2 DEF IInv, Steady
<1> QED BY <1>5, <1>6, <1>7 DEF IInv

LEMMA BlockKeeps == IInv /\ block => IInv'
<1> SUFFICES ASSUME IInv, block PROVE IInv'
  OBVIOUS
<1>1. /\ Handles("wait", 0) /\ Switch(ready)
      /\ blocked' = blocked \cup {running} /\ UNCHANGED <<finished, stale>>
      /\ ready \in Seq(Threads) /\ running \in Threads /\ stale \subseteq Threads
      /\ blocked \subseteq Threads /\ finished \subseteq Threads
  BY DEF block, IInv, Stacks, Lists
<1>2. /\ frames[running] # <<>> /\ where[running] = At("wait", 0)
      /\ running \notin {main, idleThread}
  <2>1. "wait" \notin {"dispatch", "close", "memory", "pageFault"} \cup Interrupts
    BY DEF Interrupts
  <2> QED BY <1>1, <2>1, Handled DEF IInv
<1>3. idleThread \in Elements(ready)
  BY <1>2 DEF IInv, IdleAround
<1>4. /\ Stacks' /\ Unsaved' /\ IdleAround' /\ BegunStays
      /\ running' = Head(ready) /\ spie' = spie
      /\ \A t \in Threads \ {running} : where'[t] = where[t]
  <2>1. blocked' \subseteq Threads /\ finished' \subseteq Threads /\ stale' \subseteq Threads
    BY <1>1
  <2> QED BY <1>1, <1>2, <1>3, <2>1, SwitchStacks DEF IInv
<1>5. BootOrder'
  <2>1. CASE Begun(putcThread) /\ Begun(getcThread)
    BY <1>4, <2>1, BegunStay
  <2>2. ~FirstMain /\ ~FirstGetc
    BY <1>2, PlaceFacts DEF FirstMain, FirstGetc, Begun
  <2>3. CASE FirstPutc
    <3>1. running = putcThread /\ Head(ready) = getcThread /\ ~spie /\ ~Begun(getcThread)
      BY <1>2, <2>3 DEF FirstPutc
    <3>2. getcThread \in Threads \ {running} /\ Begun(putcThread)
      BY <1>2, <3>1, Names, PlaceFacts DEF Begun
    <3>3. Begun(putcThread)' /\ ~Begun(getcThread)'
      BY <1>4, <3>1, <3>2 DEF Begun, BegunStays
    <3>4. FirstGetc'
      BY <1>4, <3>1, <3>3 DEF FirstGetc
    <3> QED BY <3>4 DEF BootOrder
  <2> QED BY <2>1, <2>2, <2>3 DEF IInv, BootOrder
<1>6. Steady'
  BY <1>1, <1>2 DEF IInv, Steady
<1> QED BY <1>4, <1>5, <1>6 DEF IInv

LEMMA SuspendKeeps == IInv /\ suspend => IInv'
<1> SUFFICES ASSUME IInv, suspend PROVE IInv'
  OBVIOUS
<1>1. PICK c, n : Handles(c, n) /\ <<c, n>> \in {<<"exit", 0>>, <<"violation", 2>>}
  BY DEF suspend
<1>2. /\ Switch(ready) /\ UNCHANGED <<blocked, stale>> /\ finished' = finished \cup {running}
      /\ ready \in Seq(Threads) /\ running \in Threads /\ stale \subseteq Threads
      /\ blocked \subseteq Threads /\ finished \subseteq Threads
  BY DEF suspend, IInv, Stacks, Lists
<1>3. /\ frames[running] # <<>> /\ where[running] \in {At("exit", 0), At("violation", 2)}
      /\ running \notin {main, idleThread, putcThread, getcThread}
  <2>1. c \notin {"dispatch", "close", "memory", "pageFault", "wait", "signal"} \cup Interrupts
    BY <1>1 DEF Interrupts
  <2> QED BY <1>1, <2>1, Handled DEF IInv
<1>4. idleThread \in Elements(ready)
  BY <1>3 DEF IInv, IdleAround
<1>5. Stacks' /\ Unsaved' /\ IdleAround' /\ BegunStays
  <2>1. blocked' \subseteq Threads /\ finished' \subseteq Threads /\ stale' \subseteq Threads
    BY <1>2
  <2> QED BY <1>2, <1>3, <1>4, <2>1, SwitchStacks DEF IInv
<1>6. BootOrder'
  <2>1. ~FirstMain /\ ~FirstPutc /\ ~FirstGetc
    BY <1>3 DEF FirstMain, FirstPutc, FirstGetc
  <2> QED BY <1>5, <2>1, BegunStay DEF IInv, BootOrder
<1>7. Steady'
  BY <1>2 DEF IInv, Steady
<1> QED BY <1>5, <1>6, <1>7 DEF IInv

-----------------------------------------------------------------------------
(* main() begins with interrupts disabled, and the console threads first   *)
(* in the list.                                                            *)
LEMMA InitHolds == Init => IInv
<1> SUFFICES ASSUME Init PROVE IInv
  OBVIOUS
<1>1. /\ frames = [t \in Threads |-> <<>>] /\ <<>> \in Seq(Frame)
      /\ where[main] = Program /\ \A t \in Threads \ {main} : where[t] = Wrapper
      /\ running = main /\ main \in Threads
  BY Names, EmptySeq DEF Init
<1>2. where \in [Threads -> Addresses] /\ frames \in [Threads -> Seq(Frame)]
  BY <1>1, PlacesTyped, PlaceFacts DEF Init
<1>3. \A t \in Threads : Stack(t, frames[t], where[t], mainAt)
  BY <1>1, PlaceFacts DEF Stack
<1>4. \A t \in Threads \ {running} : Parked(frames[t], where[t])
  BY <1>1 DEF Parked, InTrap
<1>5. Processor
  BY <1>1, PlaceFacts DEF Init, Processor, InTrap, Privilege, Kernel
<1>6. ready \in Seq(Threads) /\ idleThread \in Elements(ready) /\ ready = Boot
  <2>1. ready = Boot
    BY DEF Init, Boot
  <2>2. Boot \in Seq(Threads) /\ Len(Boot) = 4 /\ Boot[3] = idleThread
    BY Names DEF Boot
  <2> QED BY <2>1, <2>2 DEF Elements
<1>7. Lists /\ Registered /\ Steady
  BY <1>6, PlacesTyped, PlaceFacts DEF Init, Lists, Registered, Steady
<1>8. Unsaved
  BY <1>1 DEF Unsaved
<1>9. FirstMain
  <2>1. putcThread \in Threads \ {main} /\ getcThread \in Threads \ {main}
    BY Names
  <2> QED BY <1>1, <1>6, <2>1 DEF Init, FirstMain, Begun
<1> QED BY <1>1, <1>2, <1>3, <1>4, <1>5, <1>6, <1>7, <1>8, <1>9
        DEF IInv, Stacks, BootOrder, IdleAround

(* Every step keeps the invariant.                                         *)
LEMMA NextKeeps == IInv /\ [Next]_vars => IInv'
<1> SUFFICES ASSUME IInv, [Next]_vars PROVE IInv'
  OBVIOUS
<1>1. CASE UNCHANGED vars
  <2>1. /\ UNCHANGED <<running, ready, blocked, finished, stale, free, where, frames, mainAt>>
        /\ UNCHANGED <<mode, sie, sepc, spp, spie>>
    BY <1>1 DEF vars, cpu
  <2>2. Stacks'
    BY <2>1 DEF IInv, Stacks, Lists, Registered, Processor
  <2>3. Unsaved' /\ IdleAround' /\ Steady'
    BY <2>1 DEF IInv, Unsaved, IdleAround, Steady
  <2>4. BootOrder'
    BY <2>1 DEF IInv, BootOrder, FirstMain, FirstPutc, FirstGetc, Begun
  <2> QED BY <2>2, <2>3, <2>4 DEF IInv
<1> QED
  BY <1>1, EcallKeeps, FaultKeeps, NestedCallKeeps, KernelFaultKeeps, InterruptKeeps,
     ProceedKeeps, WrapperKeeps, FlushKeeps, PlainKeeps, WakeKeeps, CreateKeeps,
     DestroyKeeps, YieldKeeps, BlockKeeps, SuspendKeeps
     DEF Next

(* The inductive invariant holds throughout.                               *)
THEOREM Invariant == Spec => []IInv
BY InitHolds, NextKeeps, PTL DEF Spec

(* The kernel is never interrupted, and no program runs with its rights,   *)
(* whatever the programs do and however many threads they create and       *)
(* destroy; and of the traps of a thread three at most are in one another. *)
THEOREM KernelUninterruptedHolds == Spec => []KernelUninterrupted
<1>1. IInv => KernelUninterrupted
  <2> SUFFICES ASSUME IInv PROVE KernelUninterrupted
    OBVIOUS
  <2>1. /\ running \in Threads /\ frames[running] \in Seq(Frame)
        /\ Stack(running, frames[running], where[running], mainAt)
    BY DEF IInv, Stacks
  <2>2. TypeOK
    <3>1. \A t \in Threads : Len(frames[t]) <= 3
      BY Depth DEF IInv, Stacks
    <3> QED BY <3>1 DEF IInv, Stacks, Lists, Registered, TypeOK
  <2>3. mode = "S" /\ sie => running = main /\ mainAt = "flush" /\ frames[main] = <<>>
    BY DEF IInv, Stacks, Processor, InTrap, Privilege
  <2>4. where[running].code = "program" => mode = Privilege(running)
    <3>1. ASSUME where[running].code = "program"
          PROVE  where[running] # Wrapper /\ frames[running] = <<>>
      <4>1. where[running] # Wrapper
        BY <3>1 DEF Wrapper
      <4>2. frames[running] = <<>>
        BY <2>1, <3>1, TopPlace DEF Causes, Calls
      <4> QED BY <4>1, <4>2
    <3> QED BY <3>1 DEF IInv, Stacks, Processor, InTrap
  <2> QED BY <2>2, <2>3, <2>4 DEF KernelUninterrupted
<1> QED BY <1>1, Invariant, PTL

(* A thread that is in a trap less after a step has returned from it.      *)
LEMMA TrapDeeper ==
  ASSUME IInv, NEW cause, Trap(cause)
  PROVE  ~(Len(frames'[running]) < Len(frames[running]))
<1>1. PICK f : frames' = [frames EXCEPT ![running] = Append(frames[running], f)]
  BY DEF Trap
<1>2. running \in Threads /\ frames \in [Threads -> Seq(Frame)]
  BY DEF IInv, Stacks
<1>3. PICK s \in Seq(Frame \cup {f}) : s = frames[running]
  BY <1>2
<1>4. frames'[running] = Append(s, f)
  BY <1>1, <1>2, <1>3
<1>5. Len(Append(s, f)) = Len(s) + 1 /\ Len(s) \in Nat
  BY Pushed
<1> QED BY <1>3, <1>4, <1>5

LEMMA StepsReturn ==
  ASSUME IInv, [Next]_vars, Len(frames'[running]) < Len(frames[running]),
         Last(frames[running]).cause # "unknown"
  PROVE  Resumed(running)
<1>1. Len(frames[running]) \in Nat
  BY LenProperties DEF IInv, Stacks
<1>2. frames' # frames
  BY <1>1
<1>3. ~ecall /\ ~fault /\ ~nestedCall /\ ~kernelFault /\ ~interrupt
  BY TrapDeeper DEF ecall, fault, nestedCall, kernelFault, interrupt
<1>4. ~proceed /\ ~yield /\ ~block /\ ~suspend /\ ~wrapper /\ ~flush /\ ~end /\ vars' # vars
  BY <1>2 DEF proceed, yield, block, suspend, wrapper, flush, end, mainStep, Switch, vars
<1> QED
  BY <1>3, <1>4, PlainKeeps, WakeKeeps, CreateKeeps, DestroyKeeps DEF Next

(* Whatever traps are taken in between, a thread goes on where it was      *)
(* trapped, in the mode and with the interrupts it had.                    *)
THEOREM ReturnsWhereTrappedHolds == Spec => ReturnsWhereTrapped
<1>1. IInv /\ [Next]_vars =>
        [Len(frames'[running]) < Len(frames[running]) /\ Last(frames[running]).cause # "unknown"
           => Resumed(running)]_vars
  BY StepsReturn
<1> QED BY <1>1, Invariant, PTL DEF Spec, ReturnsWhereTrapped
-----------------------------------------------------------------------------
(* The print lock: LockTold is inductive as it stands, and with it every   *)
(* step is one of Mutex.                                                   *)

(* At the start no thread holds the lock.                                  *)
LEMMA LockStarts == LockInit => LockTold
<1> SUFFICES ASSUME LockInit PROVE LockTold
  OBVIOUS
<1>1. LockTypeOK
  BY DEF LockInit, LockTypeOK, AllThreads, Free, Taken
<1>2. ReservationTold
  BY DEF LockInit, ReservationTold
<1>3. \A t \in Users : ~Holds(t)
  BY DEF LockInit, Holds, Releases
<1>4. lockPrint # Taken
  BY DEF LockInit, Free, Taken
<1> QED
  BY <1>1, <1>2, <1>3, <1>4 DEF LockTold

(* Each instruction of the loop, each trap and each violation keeps what   *)
(* lockPrint says of the threads.                                          *)
LEMMA LockKept == LockTold /\ [LockNext]_lockVars => LockTold'
<1> SUFFICES ASSUME LockTold, [LockNext]_lockVars PROVE LockTold'
  OBVIOUS
<1> USE LockAssumption DEF LockTold, LockTypeOK, ReservationTold, Holds, Releases, AllThreads, Free, Taken
<1>1. ASSUME NEW t \in Users, enter(t) PROVE LockTold'
  BY <1>1 DEF enter, Begin
<1>2. ASSUME NEW t \in Users, leave(t) PROVE LockTold'
  BY <1>2 DEF leave, Begin
<1>3. ASSUME NEW t \in Users, lr_w(t) PROVE LockTold'
  BY <1>3 DEF lr_w, Matches
<1>4. ASSUME NEW t \in Users, sc_w(t) PROVE LockTold'
  <2> USE <1>4 DEF sc_w, Stored, AfterStore, AfterSwap, desired
  <2>1. CASE ~reserved
    BY ZenonT(60), <2>1
  <2>2. CASE reserved /\ expected[t] = Free
    <3>1. \A u \in Users : ~Holds(u)
      BY <2>2
    <3>2. \A u \in Users : Holds(u)' <=> u = t
      BY <2>2, <3>1
    <3>3. lockPrint' = Taken
      BY <2>2
    <3>4. LockTypeOK'
      BY <2>2, <3>3
    <3>5. ReservationTold'
      BY <2>2
    <3> QED
      BY <3>2, <3>3, <3>4, <3>5
  <2>3. CASE reserved /\ expected[t] = Taken
    <3>1. \A u \in Users : Holds(u) <=> u = t
      BY <2>3
    <3>2. \A u \in Users : ~Holds(u)'
      BY <2>3, <3>1
    <3>3. lockPrint' = Free
      BY <2>3
    <3>4. LockTypeOK'
      BY <2>3, <3>3
    <3>5. ReservationTold'
      BY <2>3
    <3> QED
      BY <3>2, <3>3, <3>4, <3>5
  <2> QED
    BY <2>1, <2>2, <2>3
<1>5. ASSUME NEW t \in Users, NEW u \in AllThreads, violation(t, u) PROVE LockTold'
  BY <1>5 DEF violation, GoesOn
<1>6. ASSUME NEW u \in AllThreads, trap(u) PROVE LockTold'
  BY <1>6 DEF trap, GoesOn
<1>7. CASE UNCHANGED lockVars
  BY <1>7 DEF lockVars
<1> QED
  BY <1>1, <1>2, <1>3, <1>4, <1>5, <1>6, <1>7 DEF LockNext

(* lockPrint is taken exactly while one thread holds the lock.             *)
THEOREM LockToldHolds == LockSpec => []LockTold
BY LockStarts, LockKept, PTL DEF LockSpec
-----------------------------------------------------------------------------
(* The sc.w of a LOCK takes the lock, that of an UNLOCK releases it, and a *)
(* call of LOCK asks for it; no other instruction shows.                   *)
LEMMA StepsAreMutex == LockTold /\ [LockNext]_lockVars => [Lock!MutexNext]_Lock!mutexVars
<1> SUFFICES ASSUME LockTold, [LockNext]_lockVars PROVE [Lock!MutexNext]_Lock!mutexVars
  OBVIOUS
<1> DEFINE W == {t \in Users : Waits(t)}
           H == {t \in Users : Holds(t)}
<1> USE DEF Waits, Holds, Releases, Free, Taken
<1>1. ASSUME NEW t \in Users, enter(t) PROVE Lock!Request(t)
  <2>1. t \notin W \cup H
    BY <1>1 DEF enter
  <2>2. W' = W \cup {t} /\ H' = H
    BY <1>1 DEF enter, Begin, LockTold, LockTypeOK
  <2> QED
    BY <2>1, <2>2 DEF Lock!Request
<1>2. ASSUME W' = W, H' = H PROVE UNCHANGED Lock!mutexVars
  BY <1>2 DEF Lock!mutexVars
<1>3. ASSUME NEW t \in Users, leave(t) PROVE W' = W /\ H' = H
  BY <1>3 DEF leave, Begin, LockTold, LockTypeOK
<1>4. ASSUME NEW t \in Users, lr_w(t) PROVE W' = W /\ H' = H
  BY <1>4 DEF lr_w, LockTold, LockTypeOK
<1>5. ASSUME NEW t \in Users, NEW u \in AllThreads, violation(t, u) PROVE W' = W /\ H' = H
  BY <1>5 DEF violation, LockTold, LockTypeOK
<1>6. ASSUME NEW u \in AllThreads, trap(u) PROVE W' = W /\ H' = H
  BY <1>6 DEF trap
<1>7. ASSUME NEW t \in Users, sc_w(t)
      PROVE  Lock!Acquire(t) \/ Lock!Release(t) \/ (W' = W /\ H' = H)
  <2> USE <1>7 DEF sc_w, Stored, AfterStore, AfterSwap, LockTold, LockTypeOK
  <2>1. CASE ~reserved
    BY <2>1
  <2>2. CASE reserved /\ expected[t] = Free
    <3>1. lockPrint = Free
      BY <2>2 DEF ReservationTold
    <3>2. H = {}
      BY <3>1
    <3>3. t \in W /\ W' = W \ {t} /\ H' = {t}
      BY <2>2, <3>2
    <3> QED
      BY <3>2, <3>3 DEF Lock!Acquire
  <2>3. CASE reserved /\ expected[t] = Taken
    <3>1. H = {t}
      BY <2>3
    <3>2. W' = W /\ H' = {}
      BY <2>3, <3>1
    <3> QED
      BY <3>1, <3>2 DEF Lock!Release
  <2> QED
    BY <2>1, <2>2, <2>3
<1>8. CASE UNCHANGED lockVars
  <2>1. W' = W /\ H' = H
    BY <1>8 DEF lockVars
  <2> QED
    BY <1>2, <2>1
<1> QED
  BY <1>1, <1>2, <1>3, <1>4, <1>5, <1>6, <1>7, <1>8 DEF LockNext, Lock!MutexNext

(* The printing functions exclude each other, for any number of threads    *)
(* and wherever the traps come.                                            *)
THEOREM ImplementsMutexHolds == LockSpec => ImplementsMutex
<1>1. LockInit => Lock!MutexInit
  BY DEF LockInit, Lock!MutexInit, Waits, Holds, Releases
<1> QED
  BY <1>1, LockToldHolds, StepsAreMutex, PTL DEF LockSpec, ImplementsMutex, Lock!MutexSpec
=============================================================================
