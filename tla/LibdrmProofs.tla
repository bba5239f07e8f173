---------------------------- MODULE LibdrmProofs ----------------------------
(***************************************************************************)
(* libdrm for any sets of threads and drms and any calls: the graph is     *)
(* exact and acyclic, so no set of threads ever deadlocks.                 *)
(***************************************************************************)
EXTENDS Libdrm, TLAPS

\* A thread outside drm_wait wants nothing; one that has locked its drm and
\* not yet told the graph does own it.
WantOK == \A t \in Thread : /\ pc[t] # "idle" => want[t] \in Drm
                            /\ pc[t] = "grant" => held[want[t]] = t

\* GraphExact, edge by edge.
EdgesOK == /\ \A e \in edges : e \in (Thread \X Drm) \cup (Drm \X Thread)
           /\ \A t \in Thread, d \in Drm :
                /\ <<t, d>> \in edges <=> pc[t] # "idle" /\ want[t] = d
                /\ <<d, t>> \in edges <=> Allocated(t, d)

IInv == TypeOK /\ WantOK /\ EdgesOK /\ Acyclic

USE DisjointAssumption

\* drm_init builds a graph without edges.
LEMMA InitOK == Init => IInv
BY DEF Init, IInv, TypeOK, WantOK, EdgesOK, Allocated, Acyclic, Endless, Vertex

\* The request edge of a thread that has_cycle clears closes no cycle: an
\* endless set of the new graph contains the thread, or it was endless before.
LEMMA RequestAcyclic ==
  ASSUME Acyclic, NEW t \in Thread, NEW d \in Drm,
         ~HasCycle(t, edges \cup {<<t, d>>})
  PROVE  ~\E S \in SUBSET Vertex : Endless(S, edges \cup {<<t, d>>})
<1> SUFFICES ASSUME NEW S \in SUBSET Vertex, Endless(S, edges \cup {<<t, d>>})
             PROVE  FALSE
  OBVIOUS
<1>1. t \notin S
  BY DEF HasCycle
<1>2. Endless(S, edges)
  BY <1>1 DEF Endless
<1> QED
  BY <1>2 DEF Acyclic

\* The allocation edge closes none either, although nobody checks it: the
\* thread it points to has no request left, so no walk goes on from there.
LEMMA GrantAcyclic ==
  ASSUME IInv, NEW t \in Thread, Grant(t) PROVE Acyclic'
<1> SUFFICES ASSUME NEW S \in SUBSET Vertex, Endless(S, edges')
             PROVE  FALSE
  BY DEF Acyclic, Endless, Vertex
<1> DEFINE d == want[t]
<1>1. d \in Drm /\ edges' = (edges \ {<<t, d>>}) \cup {<<d, t>>}
  BY DEF IInv, WantOK, Grant
<1>2. \A y \in S : <<t, y>> \notin edges'
  <2> SUFFICES ASSUME NEW y \in S, <<t, y>> \in edges' PROVE FALSE
    OBVIOUS
  <2>1. <<t, y>> \in edges /\ y # d
    BY <1>1
  <2>2. y \in Drm
    BY <2>1 DEF IInv, EdgesOK
  <2> QED
    BY <2>1, <2>2 DEF IInv, EdgesOK
<1>3. t \notin S
  BY <1>2 DEF Endless
<1>4. Endless(S, edges)
  BY <1>1, <1>3 DEF Endless
<1> QED
  BY <1>4 DEF IInv, Acyclic

\* Removing edges opens no cycle.
LEMMA FewerEdges ==
  ASSUME Acyclic, edges' \subseteq edges PROVE Acyclic'
BY DEF Acyclic, Endless, Vertex

\* Every step keeps the types, what threads want, and the edges in step.
LEMMA GraphStep ==
  ASSUME IInv, [Next]_vars PROVE TypeOK' /\ WantOK' /\ EdgesOK'
<1> DEFINE Goal == TypeOK' /\ WantOK' /\ EdgesOK'
<1> USE DEF IInv, TypeOK, WantOK, EdgesOK, Allocated, Vertex, CanCall, graph
<1>1. CASE UNCHANGED vars
  BY <1>1 DEF vars
<1>2. ASSUME NEW t \in Thread, NEW d \in Drm, WaitOwn(t, d) PROVE Goal
  BY <1>2 DEF WaitOwn
<1>3. ASSUME NEW t \in Thread, NEW d \in Drm, WaitRefused(t, d) PROVE Goal
  <2>1. edges' = edges
    BY <1>3 DEF WaitRefused
  <2> QED
    BY <1>3, <2>1 DEF WaitRefused
<1>4. ASSUME NEW t \in Thread, NEW d \in Drm, Request(t, d) PROVE Goal
  BY <1>4 DEF Request
<1>5. ASSUME NEW t \in Thread, NEW d \in Drm, Post(t, d) PROVE Goal
  <2>1. held[d] = t /\ pc[t] = "idle"
    BY <1>5 DEF Post
  <2>2. TypeOK'
    BY <1>5 DEF Post
  <2>3. WantOK'
    <3>1. \A u \in Thread : pc[u] = "grant" => held[want[u]] = u /\ want[u] # d
      BY <2>1
    <3> QED
      BY <1>5, <3>1 DEF Post
  <2>4. \A e \in edges' : e \in (Thread \X Drm) \cup (Drm \X Thread)
    BY <1>5 DEF Post
  <2>5. \A u \in Thread, f \in Drm :
           /\ <<u, f>> \in edges' <=> <<u, f>> \in edges
           /\ <<f, u>> \in edges' <=> <<f, u>> \in edges /\ <<f, u>> # <<d, t>>
    <3>1. edges' = edges \ {<<d, t>>} /\ \A u \in Thread : u # d
      BY <1>5 DEF Post
    <3> QED
      BY <3>1
  <2>6. \A u \in Thread, f \in Drm :
           Allocated(u, f)' <=> Allocated(u, f) /\ <<f, u>> # <<d, t>>
    BY <1>5, <2>1 DEF Post
  <2>7. UNCHANGED <<pc, want>>
    BY <1>5 DEF Post
  <2> QED
    BY <2>2, <2>3, <2>4, <2>5, <2>6, <2>7
<1>6. ASSUME NEW t \in Thread, NEW d \in Drm, PostRefused(t, d) PROVE Goal
  BY <1>6 DEF PostRefused, vars
<1>7. ASSUME NEW t \in Thread, Acquire(t) PROVE Goal
  BY <1>7 DEF Acquire
<1>8. ASSUME NEW t \in Thread, Grant(t) PROVE Goal
  BY <1>8 DEF Grant
<1>9. ASSUME NEW d \in Drm, Destroy(d) PROVE Goal
  <2>1. edges = {}
    <3>1. \A t \in Thread : pc[t] = "idle"
      BY <1>9 DEF Destroy
    <3>2. \A t \in Thread, e \in Drm : held[e] # t
      BY <1>9 DEF Destroy
    <3>3. \A t \in Thread, e \in Drm : <<t, e>> \notin edges /\ <<e, t>> \notin edges
      <4>1. \A t \in Thread, e \in Drm : /\ <<t, e>> \in edges => pc[t] # "idle"
                                         /\ <<e, t>> \in edges => held[e] = t
        BY DEF IInv, EdgesOK, Allocated
      <4> QED
        BY ONLY <3>1, <3>2, <4>1
    <3>4. ASSUME NEW x \in edges PROVE FALSE
      <4>1. \/ \E t \in Thread, e \in Drm : x = <<t, e>>
            \/ \E t \in Thread, e \in Drm : x = <<e, t>>
        BY <3>4
      <4> HIDE DEF IInv, EdgesOK, TypeOK, WantOK
      <4> QED
        BY <4>1, <3>3, <3>4
    <3> QED
      BY <3>4
  <2>2. edges' = {} /\ UNCHANGED <<held, want, pc>>
    BY <1>9, <2>1 DEF Destroy
  <2>3. TypeOK' /\ WantOK'
    <3>1. /\ vertices' \subseteq vertices /\ mut_ok' = FALSE
          /\ held' = held /\ want' = want /\ pc' = pc
      BY <1>9 DEF Destroy
    <3>2. TypeOK /\ WantOK
      BY DEF IInv
    <3>3. TypeOK'
      BY ONLY <2>2, <3>1, <3>2 DEF TypeOK
    <3>4. WantOK'
      BY ONLY <3>1, <3>2 DEF WantOK
    <3> QED
      BY ONLY <3>3, <3>4
  <2> QED
    BY <2>1, <2>2, <2>3
<1> QED
  BY <1>1, <1>2, <1>3, <1>4, <1>5, <1>6, <1>7, <1>8, <1>9 DEF Next, Wait

\* No step closes a cycle.
LEMMA AcyclicStep == ASSUME IInv, [Next]_vars PROVE Acyclic'
<1> USE DEF IInv, graph
<1>1. CASE edges' \subseteq edges
  BY <1>1, FewerEdges
<1>2. ASSUME NEW t \in Thread, NEW d \in Drm, Request(t, d) PROVE Acyclic'
  <2>1. edges' = edges \cup {<<t, d>>}
    BY <1>2 DEF Request
  <2>2. ~\E S \in SUBSET Vertex : Endless(S, edges \cup {<<t, d>>})
    BY <1>2, RequestAcyclic DEF Request
  <2> QED
    BY <2>1, <2>2 DEF Acyclic, Endless, Vertex
<1>3. ASSUME NEW t \in Thread, Grant(t) PROVE Acyclic'
  BY <1>3, GrantAcyclic
<1>4. ASSUME NEW t \in Thread, NEW d \in Drm,
             \/ WaitOwn(t, d) \/ WaitRefused(t, d) \/ Post(t, d)
             \/ PostRefused(t, d) \/ Acquire(t) \/ Destroy(d) \/ UNCHANGED vars
      PROVE  edges' \subseteq edges
  BY <1>4 DEF WaitOwn, WaitRefused, Post, PostRefused, Acquire, Destroy, vars
<1>5. ASSUME NEW t \in Thread, Acquire(t) PROVE edges' \subseteq edges
  BY <1>5 DEF Acquire
<1>6. ASSUME NEW d \in Drm, Destroy(d) PROVE edges' \subseteq edges
  BY <1>6 DEF Destroy
<1>7. CASE UNCHANGED vars
  BY <1>1, <1>7 DEF vars
<1> QED
  BY <1>1, <1>2, <1>3, <1>4, <1>5, <1>6, <1>7 DEF Next, Wait

\* The invariant is inductive.
LEMMA Inductive == Spec => []IInv
<1>1. IInv /\ [Next]_vars => IInv'
  BY GraphStep, AcyclicStep DEF IInv
<1> QED
  BY InitOK, <1>1, PTL DEF Spec

\* A thread asleep on a drm and the drm's owner are two edges of the graph,
\* as soon as the owner is not in the window between its two locks.
LEMMA Chain ==
  ASSUME IInv, NEW t \in Thread, pc[t] = "lock",
         held[want[t]] \in Thread, pc[held[want[t]]] # "grant"
  PROVE  /\ want[t] \in Drm
         /\ <<t, want[t]>> \in edges
         /\ <<want[t], held[want[t]]>> \in edges
BY DEF IInv, WantOK, EdgesOK, Allocated

\* Every variable keeps its type.
THEOREM TypeCorrect == Spec => []TypeOK
<1>1. IInv => TypeOK
  BY DEF IInv
<1> QED
  BY Inductive, <1>1, PTL

\* The graph is what the threads and the mutexes are.
THEOREM GraphIsExact == Spec => []GraphExact
<1>1. ASSUME IInv PROVE GraphExact
  <2> USE <1>1 DEF IInv, TypeOK, WantOK, EdgesOK, GraphExact, Vertex
  <2>1. ASSUME NEW e \in edges
        PROVE \/ e \in { <<t, want[t]>> : t \in { u \in Thread : pc[u] # "idle" } }
              \/ e \in { f \in Drm \X Thread : Allocated(f[2], f[1]) }
    <3>1. CASE e \in Thread \X Drm
      <4>1. PICK t \in Thread, d \in Drm : e = <<t, d>>
        BY <3>1
      <4>2. pc[t] # "idle" /\ want[t] = d
        BY <4>1
      <4> QED
        BY <4>1, <4>2
    <3>2. CASE e \in Drm \X Thread
      <4>1. PICK t \in Thread, d \in Drm : e = <<d, t>>
        BY <3>2
      <4>2. Allocated(t, d)
        BY <4>1
      <4> QED
        BY <4>1, <4>2
    <3> QED
      BY <3>1, <3>2
  <2>2. ASSUME NEW t \in Thread, pc[t] # "idle" PROVE <<t, want[t]>> \in edges
    BY <2>2
  <2>3. ASSUME NEW e \in Drm \X Thread, Allocated(e[2], e[1]) PROVE e \in edges
    <3>1. PICK t \in Thread, d \in Drm : e = <<d, t>>
      OBVIOUS
    <3> QED
      BY <2>3, <3>1
  <2> QED
    BY <2>1, <2>2, <2>3
<1> QED
  BY Inductive, <1>1, PTL

\* The graph is acyclic at every moment.
THEOREM AlwaysAcyclic == Spec => []Acyclic
<1>1. IInv => Acyclic
  BY DEF IInv
<1> QED
  BY Inductive, <1>1, PTL

\* No set of threads is ever deadlocked: a deadlocked set, with the drms its
\* members wait for, would be an endless set of the graph.
THEOREM DeadlockFree == Spec => []NoDeadlock
<1>1. ASSUME IInv, NEW S \in SUBSET Thread, S # {},
             \A t \in S : pc[t] = "lock" /\ held[want[t]] \in S
      PROVE  FALSE
  <2>1. \A t \in S : /\ want[t] \in Drm /\ <<t, want[t]>> \in edges
                     /\ <<want[t], held[want[t]]>> \in edges
    BY <1>1, Chain
  <2> DEFINE C == S \cup { want[t] : t \in S }
  <2>2. C \in SUBSET Vertex
    BY <2>1 DEF Vertex
  <2>3. Endless(C, edges)
    <3>1. ASSUME NEW t \in S PROVE \E y \in C : <<t, y>> \in edges
      BY <2>1
    <3>2. ASSUME NEW t \in S PROVE \E y \in C : <<want[t], y>> \in edges
      <4>1. held[want[t]] \in C /\ <<want[t], held[want[t]]>> \in edges
        BY <1>1, <2>1
      <4> QED
        BY ONLY <4>1
    <3>3. \A x \in C : \E y \in C : <<x, y>> \in edges
      BY ONLY <3>1, <3>2
    <3>4. C # {}
      BY <1>1
    <3> QED
      BY ONLY <3>3, <3>4 DEF Endless
  <2> QED
    BY <1>1, <2>2, <2>3 DEF IInv, Acyclic
<1>2. IInv => NoDeadlock
  BY <1>1 DEF NoDeadlock
<1> QED
  BY Inductive, <1>2, PTL

\* drm_wait returns 0 to a thread that does not hold the drm only when going
\* on would have left it waiting for threads that wait for it.
THEOREM RefusalsJustified == Spec => RefusesOnlyDeadlock
<1>1. ASSUME IInv, NEW t \in Thread, NEW d \in Drm, WaitRefused(t, d)
      PROVE  Stuck(t, d)
  <2> DEFINE E == edges \cup {<<t, d>>}
  <2>1. PICK S \in SUBSET Vertex : t \in S /\ Endless(S, E)
    BY <1>1 DEF WaitRefused, HasCycle
  <2> DEFINE W == S \cap Thread
  <2>2. ASSUME NEW e \in S \cap Drm PROVE held[e] \in W /\ Allocated(held[e], e)
    <3>1. PICK y \in S : <<e, y>> \in edges
      BY <2>1 DEF Endless
    <3>2. y \in Thread
      BY <3>1, <1>1 DEF IInv, EdgesOK
    <3>3. Allocated(y, e)
      BY <3>1, <3>2, <1>1 DEF IInv, EdgesOK
    <3>4. held[e] = y
      BY ONLY <3>3 DEF Allocated
    <3> QED
      BY ONLY <3>1, <3>2, <3>3, <3>4
  <2>3. ASSUME NEW u \in W \ {t} PROVE pc[u] = "lock" /\ held[want[u]] \in W
    <3>1. PICK y \in S : <<u, y>> \in edges
      BY <2>1 DEF Endless
    <3>2. y \in Drm
      BY <3>1, <1>1 DEF IInv, EdgesOK
    <3>3. pc[u] # "idle" /\ want[u] = y
      BY <3>1, <3>2, <1>1 DEF IInv, EdgesOK
    <3>4. held[y] \in W /\ Allocated(held[y], y)
      BY <3>2, <2>2
    <3>5. pc[u] # "grant"
      BY <3>3, <3>4, <1>1 DEF IInv, WantOK, Allocated
    <3> QED
      BY <3>3, <3>4, <3>5, <1>1 DEF IInv, TypeOK
  <2>4. d \in S
    <3>1. PICK y \in S : <<t, y>> \in E
      BY <2>1 DEF Endless
    <3>2. <<t, y>> \notin edges
      BY <1>1 DEF WaitRefused, CanCall, IInv, EdgesOK
    <3> QED
      BY <3>1, <3>2
  <2>5. t \in W /\ held[d] \in W
    BY <2>1, <2>2, <2>4
  <2> QED
    BY <2>3, <2>5 DEF Stuck
<1>2. IInv => [\A t \in Thread, d \in Drm : WaitRefused(t, d) => Stuck(t, d)]_vars
  BY <1>1
<1> QED
  BY Inductive, <1>2, PTL DEF RefusesOnlyDeadlock
=============================================================================
