----------------------------- MODULE ObjectPool -----------------------------
(***************************************************************************)
(* What the interface slab.h promises to the users of object caches: an    *)
(* object given out is in nobody else's hands until it is freed into the   *)
(* cache it came from, or that cache is destroyed.  An object freed into   *)
(* another cache is refused and stays where it is.                         *)
(***************************************************************************)
CONSTANTS Caches, Objects, None

VARIABLES
  open,     \* the caches that exist
  inUse,    \* inUse[c]: the objects of cache c in their users' hands
  call      \* the last call, with its result

poolVars == <<open, inUse, call>>

Idle(o) == \A c \in Caches : o \notin inUse[c]

PoolInit ==
  /\ open = {}
  /\ inUse = [c \in Caches |-> {}]
  /\ call = None

Create(c) ==
  /\ c \notin open
  /\ open' = open \cup {c}
  /\ call' = <<"create", c>>
  /\ UNCHANGED inUse

Alloc(c, o) ==
  /\ c \in open
  /\ Idle(o)
  /\ inUse' = [inUse EXCEPT ![c] = @ \cup {o}]
  /\ call' = <<"alloc", c, o>>
  /\ UNCHANGED open

AllocFails(c) ==
  /\ c \in open
  /\ call' = <<"alloc", c, None>>
  /\ UNCHANGED <<open, inUse>>

Free(c, o) ==
  /\ c \in open
  /\ o \in inUse[c]
  /\ inUse' = [inUse EXCEPT ![c] = @ \ {o}]
  /\ call' = <<"free", c, o>>
  /\ UNCHANGED open

FreeRefused(c, o) ==
  /\ c \in open
  /\ o \notin inUse[c]
  /\ call' = <<"free", c, o>>
  /\ UNCHANGED <<open, inUse>>

Destroy(c) ==
  /\ c \in open
  /\ open' = open \ {c}
  /\ inUse' = [inUse EXCEPT ![c] = {}]
  /\ call' = <<"destroy", c>>

PoolNext ==
  \E c \in Caches :
    \/ Create(c)
    \/ \E o \in Objects : Alloc(c, o) \/ Free(c, o) \/ FreeRefused(c, o)
    \/ AllocFails(c)
    \/ Destroy(c)

PoolSpec == PoolInit /\ [][PoolNext]_poolVars

=============================================================================
