-------------------------------- MODULE Libdrm --------------------------------
(***************************************************************************)
(* deadlock_demolition/libdrm.c: mutexes whose users ask a resource        *)
(* allocation graph whether waiting would deadlock.                        *)
(*                                                                         *)
(* Everything drm_wait and drm_post do to the graph happens while they     *)
(* hold the global `mut', and nothing blocks while it is held, so each     *)
(* such section is one action.  drm_wait gives `mut' up before it locks    *)
(* the drm and takes it again afterwards: that is the window in which      *)
(* other threads act, between the actions Request, Acquire and Grant.      *)
(***************************************************************************)
CONSTANTS Thread, Drm, None

ASSUME DisjointAssumption == /\ Thread \cap Drm = {}
                             /\ None \notin Thread \cup Drm

VARIABLES vertices, edges,  \* the graph g
          held,             \* per drm: the thread that owns drm->mut
          want,             \* per thread: the drm it is waiting for
          mut_ok,           \* the global mutex has not been destroyed
          pc

graph == <<vertices, edges>>
vars  == <<graph, held, want, mut_ok, pc>>

Vertex == Thread \cup Drm

\* drm_init has put every drm into the graph.
Init == /\ vertices = Drm
        /\ edges = {}
        /\ held = [d \in Drm |-> None]
        /\ want = [t \in Thread |-> None]
        /\ mut_ok = TRUE
        /\ pc = [t \in Thread |-> "idle"]

\* A set of vertices from which one can keep walking along the edges forever.
Endless(S, E) == S # {} /\ \A x \in S : \E y \in S : <<x, y>> \in E

\* has_cycle(v): a walk from v along E comes back to a vertex it visited.
HasCycle(v, E) == \E S \in SUBSET Vertex : v \in S /\ Endless(S, E)

-----------------------------------------------------------------------------
CanCall(t, d) == pc[t] = "idle" /\ d \in vertices /\ mut_ok

\* drm_wait: the thread already holds d.
WaitOwn(t, d) == /\ CanCall(t, d)
                 /\ <<d, t>> \in edges
                 /\ vertices' = vertices \cup {t}
                 /\ UNCHANGED <<edges, held, want, mut_ok, pc>>

\* Fault: drm_wait refuses and leaves the request edge in the graph.
WaitRefusedKeepsEdge(t, d) == /\ CanCall(t, d)
                              /\ <<d, t>> \notin edges
                              /\ HasCycle(t, edges \cup {<<t, d>>})
                              /\ vertices' = vertices \cup {t}
                              /\ edges' = edges \cup {<<t, d>>}
                              /\ UNCHANGED <<held, want, mut_ok, pc>>

\* drm_wait: waiting would close a cycle; the request edge is taken back.
WaitRefused(t, d) == /\ CanCall(t, d)
                     /\ <<d, t>> \notin edges
                     /\ HasCycle(t, edges \cup {<<t, d>>})
                     /\ vertices' = vertices \cup {t}
                     /\ edges' = edges \ {<<t, d>>}
                     /\ UNCHANGED <<held, want, mut_ok, pc>>

\* Fault: the request edge is taken back before the thread goes to wait.
RequestWithdrawn(t, d) == /\ CanCall(t, d)
                          /\ <<d, t>> \notin edges
                          /\ ~HasCycle(t, edges \cup {<<t, d>>})
                          /\ vertices' = vertices \cup {t}
                          /\ want' = [want EXCEPT ![t] = d]
                          /\ pc' = [pc EXCEPT ![t] = "lock"]
                          /\ UNCHANGED <<edges, held, mut_ok>>

\* Fault: drm_wait does not look for a cycle.
RequestUnchecked(t, d) == /\ CanCall(t, d)
                          /\ <<d, t>> \notin edges
                          /\ vertices' = vertices \cup {t}
                          /\ edges' = edges \cup {<<t, d>>}
                          /\ want' = [want EXCEPT ![t] = d]
                          /\ pc' = [pc EXCEPT ![t] = "lock"]
                          /\ UNCHANGED <<held, mut_ok>>

\* drm_wait: the request edge stays, and the thread goes to lock the drm.
Request(t, d) == /\ CanCall(t, d)
                 /\ <<d, t>> \notin edges
                 /\ ~HasCycle(t, edges \cup {<<t, d>>})
                 /\ vertices' = vertices \cup {t}
                 /\ edges' = edges \cup {<<t, d>>}
                 /\ want' = [want EXCEPT ![t] = d]
                 /\ pc' = [pc EXCEPT ![t] = "lock"]
                 /\ UNCHANGED <<held, mut_ok>>

\* pthread_mutex_lock(&drm->mut) returns.
Acquire(t) == /\ pc[t] = "lock"
              /\ held[want[t]] = None
              /\ held' = [held EXCEPT ![want[t]] = t]
              /\ pc' = [pc EXCEPT ![t] = "grant"]
              /\ UNCHANGED <<graph, want, mut_ok>>

\* drm_wait turns the request edge into an allocation edge and returns 1.
Grant(t) == /\ pc[t] = "grant"
            /\ edges' = (edges \ {<<t, want[t]>>}) \cup {<<want[t], t>>}
            /\ want' = [want EXCEPT ![t] = None]
            /\ pc' = [pc EXCEPT ![t] = "idle"]
            /\ UNCHANGED <<vertices, held, mut_ok>>

\* Fault: drm_post unlocks the drm and leaves the allocation edge.
PostKeepsEdge(t, d) == /\ CanCall(t, d)
                       /\ t \in vertices
                       /\ <<d, t>> \in edges
                       /\ held' = [held EXCEPT ![d] = None]
                       /\ UNCHANGED <<graph, want, mut_ok, pc>>

\* drm_post: remove the allocation edge and unlock the drm; return 1.
Post(t, d) == /\ CanCall(t, d)
              /\ t \in vertices
              /\ <<d, t>> \in edges
              /\ edges' = edges \ {<<d, t>>}
              /\ held' = [held EXCEPT ![d] = None]
              /\ UNCHANGED <<vertices, want, mut_ok, pc>>

\* drm_post: the caller does not hold d; return 0.
PostRefused(t, d) == /\ CanCall(t, d)
                     /\ t \notin vertices \/ <<d, t>> \notin edges
                     /\ UNCHANGED vars

\* drm_destroy, which its caller makes when no thread uses a drm any more.
\* It destroys the drm's mutex and the global one.
Destroy(d) == /\ d \in vertices
              /\ \A t \in Thread : pc[t] = "idle"
              /\ \A e \in Drm : held[e] = None
              /\ vertices' = vertices \ {d}
              /\ edges' = { e \in edges : e[1] # d /\ e[2] # d }
              /\ mut_ok' = FALSE
              /\ UNCHANGED <<held, want, pc>>

Wait(t, d) == WaitOwn(t, d) \/ WaitRefused(t, d) \/ Request(t, d)

Next == \/ \E t \in Thread, d \in Drm : Wait(t, d) \/ Post(t, d) \/ PostRefused(t, d)
        \/ \E t \in Thread : Acquire(t) \/ Grant(t)
        \/ \E d \in Drm : Destroy(d)

Spec == Init /\ [][Next]_vars

-----------------------------------------------------------------------------
\* Types of the graph, the mutexes and the callers' state.
TypeOK == /\ vertices \subseteq Vertex
          /\ edges \subseteq Vertex \X Vertex
          /\ held \in [Drm -> Thread \cup {None}]
          /\ want \in [Thread -> Drm \cup {None}]
          /\ mut_ok \in BOOLEAN
          /\ pc \in [Thread -> {"idle", "lock", "grant"}]

\* Thread t holds d, and drm_wait has had the time to say so in the graph.
Allocated(t, d) == held[d] = t /\ ~(pc[t] = "grant" /\ want[t] = d)

\* Although drm_wait changes the graph and the mutex at different moments, the
\* graph shows exactly the requests under way and the drms held by threads
\* that drm_wait has returned to.
GraphExact ==
  edges = { <<t, want[t]>> : t \in { u \in Thread : pc[u] # "idle" } }
             \cup { e \in Drm \X Thread : Allocated(e[2], e[1]) }

\* The graph never has a cycle: none is closed by a request, which has_cycle
\* examines, nor by an allocation edge, which nobody examines.
Acyclic == ~\E S \in SUBSET Vertex : Endless(S, edges)

\* No set of threads is stuck, each waiting for a drm that one of them holds.
NoDeadlock == ~\E S \in SUBSET Thread :
                 /\ S # {}
                 /\ \A t \in S : pc[t] = "lock" /\ held[want[t]] \in S

\* drm_wait refuses only a thread that would really be stuck: the owners it
\* would wait for are themselves waiting, and the last one waits for it.
Stuck(t, d) == \E S \in SUBSET Thread :
                 /\ t \in S /\ held[d] \in S
                 /\ \A u \in S \ {t} : pc[u] = "lock" /\ held[want[u]] \in S
RefusesOnlyDeadlock ==
  [][\A t \in Thread, d \in Drm : WaitRefused(t, d) => Stuck(t, d)]_vars

\* Whoever locks the global mutex finds it initialised.
MutUsable == [][\A d \in Drm : Destroy(d) => mut_ok]_vars
=============================================================================
