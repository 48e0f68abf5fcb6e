--------------------------- MODULE AtomicCounter ---------------------------
(***************************************************************************)
(* What InstructionCounter promises to its users: a counter of unlimited   *)
(* range that one thread increments and any thread reads, each operation   *)
(* taking effect in one step.  InstructionCounter.tla implements it with   *)
(* two machine words, a lock, and an increment that seldom takes the lock. *)
(***************************************************************************)
EXTENDS Naturals

CONSTANT Threads       \* the threads that may read the counter

VARIABLES value,       \* the number of increments so far
          got          \* got[t]: the value t's latest read returned

vars == <<value, got>>

TypeOK == /\ value \in Nat
          /\ got \in [Threads -> Nat]

Init == /\ value = 0
        /\ got = [t \in Threads |-> 0]

Inc == /\ value' = value + 1
       /\ UNCHANGED got

Read(t) == /\ got' = [got EXCEPT ![t] = value]
           /\ UNCHANGED value

Next == Inc \/ \E t \in Threads : Read(t)

Spec == Init /\ [][Next]_vars
=============================================================================
