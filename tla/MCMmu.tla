-------------------------------- MODULE MCMmu --------------------------------
(* Two processes in a memory that is too small for both.                   *)
EXTENDS Mmu, TLC

CONSTANTS p1, p2

\* The two testing pages, and a page of TEXT in another table.
MCTesting  == {<<0, 1>>, <<0, 2>>}
MCSegments == MCTesting \cup {<<1, 1>>}
MCWritable == [v \in MCSegments |-> v \in MCTesting]

Access(o, p, v, x) == [op |-> o, pid |-> p, page |-> v, value |-> x]

\* One write is refused, one read is outside of segments.
MCCalls == { Access("write", p1, <<0, 1>>, 1), Access("read", p1, <<0, 1>>, 0),
             Access("read", p1, <<0, 2>>, 0),  Access("write", p1, <<1, 1>>, 1),
             Access("read", p1, <<1, 2>>, 0),
             Access("write", p2, <<0, 1>>, 2), Access("read", p2, <<0, 1>>, 0) }
=============================================================================
