------------------------------ MODULE MCLibdrm ------------------------------
(* An instance of LibdrmTester for TLC, and has_cycle as the code walks.   *)
EXTENDS LibdrmTester, FiniteSets, Integers

CONSTANTS d1, d2, d3, t1, t2, t3

wait(d) == [call |-> "wait", drm |-> d]
post(d) == [call |-> "post", drm |-> d]

\* myfunc1 and myfunc2 lock two drms in some order; myfunc3 locks one twice.
Nested(a, b) == <<wait(a), wait(b), post(b), post(a)>>
Twice(a)     == <<wait(a), wait(a), post(a), post(a)>>

Chosen == { Nested(a, b) : a \in Drm, b \in Drm }
            \cup { <<post(d1), wait(d1), post(d1)>> }

MCScripts == [Thread -> Chosen]

\* has_cycle as written: depth first, visited ends with the first return.
RECURSIVE Walk(_, _, _)
Walk(v, E, visited) ==
  \/ v \in visited
  \/ \E w \in { e[2] : e \in { f \in E : f[1] = v } } : Walk(w, E, visited \cup {v})

\* On graphs where a vertex has at most one edge out, as all of libdrm's are,
\* the walk answers what HasCycle says.
Graph(f) == { <<x, f[x]>> : x \in { y \in DOMAIN f : f[y] # None } }

ASSUME \A f \in [{d1, d2, t1, t2} -> {d1, d2, t1, t2, None}] :
         \A v \in {d1, d2, t1, t2} :
           Walk(v, Graph(f), {}) = HasCycle(v, Graph(f))
=============================================================================
