------------------------------- MODULE Alarm -------------------------------
(***************************************************************************)
(* What time_sleep promises: a thread that goes to sleep for n ticks of    *)
(* the timer is awake after exactly n of them, however many others sleep.  *)
(***************************************************************************)
EXTENDS Naturals

CONSTANTS Threads, MaxSleep

VARIABLE remaining     \* the ticks a thread still sleeps, 0 when it is awake

AlarmInit == remaining = [t \in Threads |-> 0]

Sleep(t, n) ==
  /\ remaining[t] = 0
  /\ remaining' = [remaining EXCEPT ![t] = n]

Tick ==
  remaining' = [t \in Threads |-> IF remaining[t] = 0 THEN 0 ELSE remaining[t] - 1]

AlarmNext ==
  \/ \E t \in Threads, n \in 1 .. MaxSleep : Sleep(t, n)
  \/ Tick

AlarmSpec == AlarmInit /\ [][AlarmNext]_remaining

=============================================================================
