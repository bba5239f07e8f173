------------------------------ MODULE Allocator ------------------------------
(***************************************************************************)
(* What malloc, calloc, realloc and free promise: memory that is given out *)
(* is nobody else's until it is given back.                                *)
(***************************************************************************)
EXTENDS Integers

CONSTANT Memory     \* the addresses of the heap

VARIABLE live       \* per address given out: the number of bytes asked for

Bytes(p, n) == p .. p + n - 1

\* n bytes from p on that belong to the heap and to none of others.
Unused(p, n, others) == /\ n > 0 /\ Bytes(p, n) \subseteq Memory
                        /\ \A q \in others : Bytes(p, n) \cap Bytes(q, live[q]) = {}

Init == live = <<>>

Allocate(p, n) == /\ Unused(p, n, DOMAIN live)
                  /\ live' = [q \in DOMAIN live \cup {p} |->
                                IF q = p THEN n ELSE live[q]]

Release(p) == live' = [q \in DOMAIN live \ {p} |-> live[q]]

ResizeInPlace(p, n) == /\ Unused(p, n, DOMAIN live \ {p})
                       /\ live' = [live EXCEPT ![p] = n]

\* The new bytes are not the old ones: these are copied.
Move(p, q, n) == /\ Unused(q, n, DOMAIN live)
                 /\ live' = [r \in (DOMAIN live \ {p}) \cup {q} |->
                               IF r = q THEN n ELSE live[r]]

\* The caller chooses the size, the allocator the address.
Next == \/ \E q \in DOMAIN live' \ DOMAIN live :
             \/ Allocate(q, live'[q])
             \/ \E p \in DOMAIN live : Move(p, q, live'[q])
        \/ \E p \in DOMAIN live : Release(p)
        \/ \E p \in DOMAIN live \cap DOMAIN live' : ResizeInPlace(p, live'[p])

Spec == Init /\ [][Next]_live
=============================================================================
