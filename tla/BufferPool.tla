------------------------------ MODULE BufferPool ------------------------------
(***************************************************************************)
(* What the interface slab.h promises to the users of kmalloc and kfree:   *)
(* memory of the size that was asked, no part of which is in another       *)
(* buffer until it is freed, and none for a size that is too small or too  *)
(* large.                                                                  *)
(***************************************************************************)
EXTENDS Integers

CONSTANTS
  Memory,     \* the addresses of the kernel heap
  Served,     \* the sizes that kmalloc serves
  Requests    \* the sizes that are asked

VARIABLE buffers    \* the buffers in use: [addr, size]

Area(b) == b.addr .. b.addr + b.size - 1

PoolInit == buffers = {}

Kmalloc(size) ==
  \E addr \in Memory :
    LET new == [addr |-> addr, size |-> size]
    IN  /\ size \in Served
        /\ Area(new) \subseteq Memory
        /\ \A b \in buffers : Area(b) \cap Area(new) = {}
        /\ buffers' = buffers \cup {new}

Kfree(b) ==
  /\ b \in buffers
  /\ buffers' = buffers \ {b}

(* The end takes all of them.                                              *)
Finalize == buffers' = {}

PoolNext ==
  \/ \E size \in Requests : Kmalloc(size)
  \/ \E b \in buffers : Kfree(b)
  \/ Finalize

PoolSpec == PoolInit /\ [][PoolNext]_buffers

=============================================================================
