\* Two threads that are ready at the start and one that they may create, which
\* wait for a semaphore and sleep, several of them until the same tick.  Under
\* the fairness of FairSpec every ready thread runs and every sleeper wakes up.
SPECIFICATION FairSpec
CONSTANTS
  None = None
  main = main
  idle = idle
  getcThread = getcThread
  usermainThread = usermainThread
  child = child
  Threads = {main, idle, getcThread, usermainThread, child}
  s1 = s1
  Sems = {s1}
  booted <- MCBooted
  DEFAULT_TIME_SLICE = 2
  MaxVal = 1
  MaxSleep = 2
INVARIANTS
  SemCount
  OnePlace
  FlagsTellPlace
  LostOnlyByClose
  FreeIsConstructed
PROPERTIES
  ImplementsThreadLife
  ImplementsAlarm
  OrderKept
  ReadyRuns
  SleepersWake
