CONSTANTS
  main = main
  putcThread = putcThread
  getcThread = getcThread
  idleThread = idleThread
  usermainThread = usermainThread
  u1 = u1
  Others <- MCOthers
SPECIFICATION Spec
INVARIANT KernelUninterrupted
PROPERTY ReturnsWhereTrapped
