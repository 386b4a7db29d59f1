CONSTANTS
  u1 = u1
  u2 = u2
  pt = pt
  gt = gt
  a = a
  b = b
  NoChar = NoChar
  Users <- MCUsers
  usermainThread = u2
  putcThread = pt
  getcThread = gt
  Chars <- MCChars
  MAX_SIZE = 2
  FifoSize = 2
  CharsOf <- MCCharsOf
  Getters <- MCGetters
  MaxChars = 3
  Text <- MCText
SPECIFICATION FairSpec
CHECK_DEADLOCK FALSE
INVARIANTS
  BuffersAgree
  EndsFlushed
PROPERTIES
  ImplementsTerminal
  OutputDrains
  InputDelivered
