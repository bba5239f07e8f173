-------------------------- MODULE CountingSemaphore --------------------------
(***************************************************************************)
(* What semamore.c promises: an atomic counter that wait lowers unless it  *)
(* is 0 and post raises unless it is at its maximum.                       *)
(***************************************************************************)
EXTENDS Integers

CONSTANT Semaphores     \* the pairs <<value, max_val>> it may start from

VARIABLES value, max_val

Init == \E s \in Semaphores : value = s[1] /\ max_val = s[2]

Acquire == value > 0 /\ value' = value - 1 /\ UNCHANGED max_val

Release == value < max_val /\ value' = value + 1 /\ UNCHANGED max_val

Next == Acquire \/ Release

Spec == Init /\ [][Next]_<<value, max_val>>
=============================================================================
