----------------------------- MODULE MCThreads -----------------------------
(* Model checking of threads and semaphores.                               *)
EXTENDS Threads, TLC

CONSTANTS getcThread, usermainThread, child, s1
MCBooted == <<getcThread, idle, usermainThread>>
=============================================================================
