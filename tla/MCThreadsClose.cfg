\* A semaphore is closed while a thread waits for it.
SPECIFICATION Spec
CONSTANTS
  None = None
  main = main
  idle = idle
  getcThread = getcThread
  usermainThread = usermainThread
  child = child
  Threads = {main, idle, getcThread, usermainThread, child}
  s1 = s1
  Sems = {s1}
  booted <- MCBooted
  DEFAULT_TIME_SLICE = 2
  MaxVal = 1
  MaxSleep = 1
INVARIANTS
  NoThreadLost
