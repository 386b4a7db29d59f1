------------------------------- MODULE Queues -------------------------------
(* The singly linked queues of the kernel as sequences from head to tail.  *)
EXTENDS Integers, Sequences

Elements(q) == {q[i] : i \in 1 .. Len(q)}

(* No element is linked twice.                                             *)
Distinct(q) == \A i, j \in 1 .. Len(q) : q[i] = q[j] => i = j
=============================================================================
