----------------------------- MODULE CriticalProofs -----------------------------
(***************************************************************************)
(* Safety of the thread libraries of critical_concurrency, which are built *)
(* on one mutex and one condition variable each: the queue for any number  *)
(* of threads, nodes and values, any workload and any max_size; the        *)
(* semaphore for any number of threads, any workload and any initial value *)
(* within max_val; the barrier for any finite set of threads and any       *)
(* number of rounds.  The queue is shown to implement BoundedFifo, and the *)
(* semaphore CountingSemaphore.                                            *)
(***************************************************************************)
EXTENDS Queue, Semamore, Barrier, FiniteSetTheorems, WellFoundedInduction, TLAPS

-----------------------------------------------------------------------------
\* What a walk along the links of the queue meets.

\* The list of nodes from each node on, as the loop of queue_destroy walks it.
From(nx) == CHOOSE f : f = [n \in Node \cup {NULL} |->
                              IF n = NULL THEN <<>> ELSE <<n>> \o f[nx[n]]]

\* Fields that spell one list, and no other links.
Linked(nx, s, z) ==
  /\ nx \in [Node -> Node \cup {NULL}] /\ s \in [1..z -> Node]
  /\ \A i, j \in 1..z : s[i] = s[j] => i = j
  /\ \A i \in 1..z : nx[s[i]] = IF i = z THEN NULL ELSE s[i + 1]
  /\ \A n \in Node : (\A i \in 1..z : s[i] # n) => nx[n] = NULL

\* The list of the struct is what a walk along the fields next gives from head.
LEMMA ChainIs == Chain = From(next)[head]
BY DEF Chain, From

\* The same of the struct as a step leaves it.
LEMMA ChainNext == Chain' = From(next')[head']
BY DEF Chain, From

\* The nodes of the list s of length z from its i-th on.
Rest(s, z, i) == [k \in 1..(z - i + 1) |-> s[i + k - 1]]

\* They are the i-th node and, unless it is the last, the nodes after it.
LEMMA RestIs ==
  ASSUME NEW z \in Nat, NEW s \in [1..z -> Node], NEW i \in 1..z
  PROVE  /\ Rest(s, z, i) \in Seq(Node)
         /\ i = z => Rest(s, z, i) = <<s[i]>> \o <<>>
         /\ i # z => Rest(s, z, i) = <<s[i]>> \o Rest(s, z, i + 1)
<1>1. ASSUME NEW j \in 1..z
      PROVE  /\ Rest(s, z, j) \in Seq(Node) /\ Len(Rest(s, z, j)) = z - j + 1
             /\ \A k \in 1..(z - j + 1) : Rest(s, z, j)[k] = s[j + k - 1]
  <2>1. z - j + 1 \in Nat /\ \A k \in 1..(z - j + 1) : s[j + k - 1] \in Node
    OBVIOUS
  <2>. QED
    BY <2>1 DEF Rest
<1>2. PICK r : r = Rest(s, z, i)
  OBVIOUS
<1>3. /\ r \in Seq(Node) /\ Len(r) = z - i + 1
      /\ \A k \in 1..(z - i + 1) : r[k] = s[i + k - 1]
  BY <1>1, <1>2
<1>4. s[i] \in Node
  OBVIOUS
<1>5. CASE i = z
  <2>1. Len(r) = 1 /\ r[1] = s[i]
    BY <1>3, <1>5
  <2>2. r = <<s[i]>>
    BY <1>3, <1>4, <2>1
  <2>. QED
    BY <1>2, <1>3, <1>4, <1>5, <2>2
<1>6. CASE i # z
  <2>1. PICK q : q = Rest(s, z, i + 1)
    OBVIOUS
  <2>2. i + 1 \in 1..z
    BY <1>6
  <2>3. /\ q \in Seq(Node) /\ Len(q) = z - i
        /\ \A k \in 1..(z - i) : q[k] = s[i + k]
    <3>1. z - (i + 1) + 1 = z - i /\ \A k \in 1..(z - i) : (i + 1) + k - 1 = i + k
      OBVIOUS
    <3>. QED
      BY <1>1, <2>1, <2>2, <3>1
  <2>4. PICK p \in Seq(Node) : p = <<s[i]>> \o q
    <3>1. PICK e \in Node : e = s[i]
      BY <1>4
    <3>2. q \in Seq(Node)
      BY <2>3
    <3>3. <<e>> \o q \in Seq(Node)
      BY <3>2
    <3>. QED
      BY <3>1, <3>3
  <2>5. Len(p) = z - i + 1 /\ p[1] = s[i] /\ \A k \in 1..(z - i) : p[k + 1] = q[k]
    BY <1>4, <2>3, <2>4
  <2>6. \A k \in 1..(z - i + 1) : p[k] = r[k]
    <3>. TAKE k \in 1..(z - i + 1)
    <3>1. CASE k = 1
      BY <1>3, <2>5, <3>1
    <3>2. CASE k # 1
      <4>1. k - 1 \in 1..(z - i) /\ i + (k - 1) = i + k - 1 /\ (k - 1) + 1 = k
        BY <3>2
      <4>2. p[k] = q[k - 1] /\ q[k - 1] = s[i + (k - 1)]
        BY <2>3, <2>5, <4>1
      <4>. QED
        BY <1>3, <4>1, <4>2
    <3>. QED
      BY <3>1, <3>2
  <2>7. p = r
    BY <1>3, <2>5, <2>6
  <2>. QED
    BY <1>2, <1>3, <1>6, <2>1, <2>4, <2>7
<1>. QED
  BY <1>5, <1>6

\* The walk ends: a function that spells it from every node exists.
LEMMA Walk ==
  ASSUME NEW nx, NEW z \in Nat, NEW s, Linked(nx, s, z)
  PROVE  From(nx)[NULL] = <<>> /\ \A n \in Node : From(nx)[n] = <<n>> \o From(nx)[nx[n]]
<1>. DEFINE S    == Node \cup {NULL}
            At(n) == CHOOSE i \in 1..z : s[i] = n
            W    == [n \in S |-> IF n = NULL THEN <<>>
                                 ELSE IF \E i \in 1..z : s[i] = n THEN Rest(s, z, At(n))
                                 ELSE <<n>>]
<1>1. /\ nx \in [Node -> Node \cup {NULL}] /\ s \in [1..z -> Node]
      /\ \A i, j \in 1..z : s[i] = s[j] => i = j
      /\ \A i \in 1..z : nx[s[i]] = IF i = z THEN NULL ELSE s[i + 1]
      /\ \A n \in Node : (\A i \in 1..z : s[i] # n) => nx[n] = NULL
  BY DEF Linked
<1>2. W[NULL] = <<>>
  OBVIOUS
<1>3. ASSUME NEW i \in 1..z  PROVE W[s[i]] = Rest(s, z, i)
  <2>1. At(s[i]) = i
    BY <1>1
  <2>2. s[i] \in Node /\ s[i] # NULL
    <3>1. s[i] \in Node
      BY <1>1
    <3>. QED
      BY <3>1, NullAssumption
  <2>. QED
    BY <2>1, <2>2
<1>4. ASSUME NEW n \in Node, \A i \in 1..z : s[i] # n  PROVE W[n] = <<n>>
  BY <1>4, NullAssumption
<1>5. DOMAIN W = S
  OBVIOUS
<1>. HIDE DEF W
<1>6. ASSUME NEW n \in Node  PROVE W[n] = <<n>> \o W[nx[n]]
  <2>1. CASE \A i \in 1..z : s[i] # n
    <3>1. <<n>> \o <<>> = <<n>>
      OBVIOUS
    <3>. QED
      BY <1>1, <1>2, <1>4, <2>1, <3>1
  <2>2. ASSUME NEW i \in 1..z, s[i] = n  PROVE W[n] = <<n>> \o W[nx[n]]
    <3>1. W[n] = Rest(s, z, i) /\ s \in [1..z -> Node]
      BY <1>1, <1>3, <2>2
    <3>2. CASE i = z
      <4>1. nx[n] = NULL
        BY <1>1, <2>2, <3>2
      <4>. QED
        BY <1>2, <2>2, <3>1, <3>2, <4>1, RestIs
    <3>3. CASE i # z
      <4>1. nx[n] = s[i + 1] /\ i + 1 \in 1..z
        BY <1>1, <2>2, <3>3
      <4>2. W[nx[n]] = Rest(s, z, i + 1)
        BY <1>3, <4>1
      <4>. QED
        BY <2>2, <3>1, <3>3, <4>2, RestIs
    <3>. QED
      BY <3>2, <3>3
  <2>. QED
    BY <2>1, <2>2
<1>. DEFINE Eq(f) == f = [n \in S |-> IF n = NULL THEN <<>> ELSE <<n>> \o f[nx[n]]]
<1>7. Eq(W)
  <2>. DEFINE V == [n \in S |-> IF n = NULL THEN <<>> ELSE <<n>> \o W[nx[n]]]
  <2>1. \A n \in S : V[n] = W[n]
    BY <1>2, <1>6
  <2>2. DOMAIN W = S /\ W = [n \in S |-> W[n]]
    BY <1>5 DEF W
  <2>. QED
    BY <2>1, <2>2
<1>8. Eq(From(nx))
  <2>1. From(nx) = CHOOSE f : Eq(f)
    BY DEF From
  <2>2. \E f : Eq(f)
    BY <1>7
  <2>. HIDE DEF Eq
  <2>. QED
    BY <2>1, <2>2
<1>9. PICK f : f = From(nx)
  OBVIOUS
<1>10. Eq(f)
  BY <1>8, <1>9
<1>11. f[NULL] = <<>> /\ \A n \in Node : f[n] = <<n>> \o f[nx[n]]
  <2>1. PICK g : g = [n \in S |-> IF n = NULL THEN <<>> ELSE <<n>> \o f[nx[n]]]
    OBVIOUS
  <2>2. g[NULL] = <<>> /\ \A n \in Node : g[n] = <<n>> \o f[nx[n]]
    BY <2>1, NullAssumption
  <2>3. f = g
    BY <1>10, <2>1
  <2>. QED
    BY <2>2, <2>3
<1>. QED
  BY <1>9, <1>11

\* A set of numbers has a least one.
LEMMA LeastOf ==
  ASSUME NEW I \in SUBSET Nat, I # {}
  PROVE  \E k \in I : \A x \in I : k <= x
<1>. DEFINE R == OpToRel(<, Nat)
<1>1. IsWellFoundedOn(R, Nat)
  BY NatLessThanWellFounded
<1>2. \A x, y \in Nat : y < x => <<y, x>> \in R
  BY DEF OpToRel
<1>. HIDE DEF R
<1>3. PICK x \in I : \A y \in I : ~(<<y, x>> \in R)
  BY <1>1, WFMin
<1>4. \A y \in I : ~(y < x)
  BY <1>2, <1>3
<1>. QED
  BY <1>4

\* What the queue holds when its list is s.
Listed(s, z, dt) == [i \in 1..z |-> dt[s[i]]]

\* It is a sequence of the items of its nodes.
LEMMA ListedIs ==
  ASSUME NEW S, NEW z \in Nat, NEW s, NEW dt, \A i \in 1..z : dt[s[i]] \in S
  PROVE  /\ Listed(s, z, dt) \in Seq(S) /\ Len(Listed(s, z, dt)) = z
         /\ \A i \in 1..z : Listed(s, z, dt)[i] = dt[s[i]]
<1>1. PICK c : c = Listed(s, z, dt)
  OBVIOUS
<1>2. c = [i \in 1..z |-> dt[s[i]]]
  BY <1>1 DEF Listed
<1>3. c \in Seq(S) /\ Len(c) = z /\ \A i \in 1..z : c[i] = dt[s[i]]
  BY <1>2
<1>. QED
  BY <1>1, <1>3

\* From the first node on, the walk meets the nodes of the list, in order.
LEMMA WalkIs ==
  ASSUME NEW nx, NEW z \in Nat, NEW s, Linked(nx, s, z), z # 0
  PROVE  From(nx)[s[1]] = Rest(s, z, 1)
<1>1. PICK f : /\ f = From(nx) /\ f[NULL] = <<>>
               /\ \A n \in Node : f[n] = <<n>> \o f[nx[n]]
  BY Walk
<1>2. s \in [1..z -> Node] /\ \A i \in 1..z : nx[s[i]] = IF i = z THEN NULL ELSE s[i + 1]
  BY DEF Linked
<1>. DEFINE Bad == { k \in 0..(z - 1) : f[s[z - k]] # Rest(s, z, z - k) }
<1>3. ASSUME NEW i \in 1..z, i # z => f[s[i + 1]] = Rest(s, z, i + 1)
      PROVE  f[s[i]] = Rest(s, z, i)
  <2>1. f[s[i]] = <<s[i]>> \o f[nx[s[i]]]
    BY <1>1, <1>2
  <2>2. CASE i = z
    BY <1>1, <1>2, <2>1, <2>2, RestIs
  <2>3. CASE i # z
    <3>1. nx[s[i]] = s[i + 1]
      BY <1>2, <2>3
    <3>. QED
      BY <1>2, <1>3, <2>1, <2>3, <3>1, RestIs
  <2>. QED
    BY <2>2, <2>3
<1>4. Bad = {}
  <2>. SUFFICES ASSUME Bad # {}  PROVE FALSE
    OBVIOUS
  <2>1. Bad \in SUBSET Nat
    OBVIOUS
  <2>2. PICK k \in Bad : \A x \in Bad : k <= x
    <3>. HIDE DEF Bad
    <3>. QED
      BY <2>1, LeastOf
  <2>3. k \in 0..(z - 1) /\ z - k \in 1..z
    OBVIOUS
  <2>4. k - 1 \notin Bad
    BY <2>1, <2>2, <2>3
  <2>5. z - k # z => f[s[(z - k) + 1]] = Rest(s, z, (z - k) + 1)
    <3>1. z - k # z => k - 1 \in 0..(z - 1) /\ z - (k - 1) = (z - k) + 1
      BY <2>3
    <3>. QED
      BY <2>4, <3>1
  <2>6. f[s[z - k]] = Rest(s, z, z - k)
    BY <1>3, <2>3, <2>5
  <2>. QED
    BY <2>6
<1>5. z - 1 \in 0..(z - 1) /\ z - (z - 1) = 1
  OBVIOUS
<1>. QED
  BY <1>1, <1>4, <1>5

\* The items met on a walk from hd.
Values(nx, hd, dt) == [i \in 1..Len(From(nx)[hd]) |-> dt[From(nx)[hd][i]]]

\* What the queue holds is what a walk from its head meets.
LEMMA ContentsIs == Contents = Values(next, head, data)
BY ChainIs DEF Contents, Values

\* The same of the queue as a step leaves it.
LEMMA ContentsNext == Contents' = Values(next', head', data')
BY ChainNext DEF Contents, Values

\* When the fields spell the list s, the walk meets the items of s, in order.
LEMMA ValuesAre ==
  ASSUME NEW nx, NEW z \in Nat, NEW s, Linked(nx, s, z), NEW dt,
         NEW hd, hd = IF z = 0 THEN NULL ELSE s[1]
  PROVE  Values(nx, hd, dt) = Listed(s, z, dt)
<1>1. CASE z = 0
  <2>1. From(nx)[hd] = <<>>
    BY <1>1, Walk
  <2>2. Len(From(nx)[hd]) = 0
    BY <2>1
  <2>. QED
    BY <1>1, <2>2 DEF Values, Listed
<1>2. CASE z # 0
  <2>1. From(nx)[hd] = Rest(s, z, 1)
    BY <1>2, WalkIs
  <2>2. PICK r : r = From(nx)[hd]
    OBVIOUS
  <2>3. s \in [1..z -> Node]
    BY DEF Linked
  <2>4. Len(r) = z /\ \A i \in 1..z : r[i] = s[i]
    <3>1. r = [k \in 1..z |-> s[k]]
      <4>1. z - 1 + 1 = z /\ \A k \in 1..z : 1 + k - 1 = k
        OBVIOUS
      <4>. QED
        BY <2>1, <2>2, <4>1 DEF Rest
    <3>2. r \in [1..z -> Node]
      BY <2>3, <3>1
    <3>. QED
      BY <3>1, <3>2
  <2>5. Values(nx, hd, dt) = [i \in 1..Len(r) |-> dt[r[i]]]
    BY <2>2 DEF Values
  <2>. QED
    BY <2>4, <2>5 DEF Listed
<1>. QED
  BY <1>1, <1>2

-----------------------------------------------------------------------------
\* The queue.

QueueHolding == {"push_test", "push_link", "pull_test", "pull_unlink", "unlock"}

\* A thread holds the mutex exactly while it is between lock and unlock, and
\* not inside pthread_cond_wait.
QueueMutexOK == \A t \in Thread : owner = t <=> pc[t] \in QueueHolding

\* Only threads inside pthread_cond_wait are on the condition variable.
QueueAsleepOK == \A t \in asleep : pc[t] \in {"push_sleep", "pull_sleep"}

\* What a thread saw in its while test still holds when it acts on it.
QueueTestedOK == \A t \in Thread : /\ pc[t] = "push_link"   => ~Full
                                   /\ pc[t] = "pull_unlink" => ~Empty

\* Nothing moves after queue_destroy.
QuietOK == destroyed => QueueAllDone

QueueIInv == /\ QueueTypeOK /\ QueueMutexOK /\ QueueAsleepOK /\ QueueTestedOK /\ QuietOK
             /\ ListOK /\ Capacity /\ NoLostWakeup

USE NoThreadAssumption, NullAssumption, MaxSizeAssumption, QueueWorkloadAssumption

\* queue_create leaves an empty list, a free mutex and no waiter.
LEMMA QueueInitOK == QueueInit => QueueIInv
<1> SUFFICES ASSUME QueueInit PROVE QueueIInv
  OBVIOUS
<1> USE DEF QueueInit, MonitorInit
<1>1. QueueTypeOK
  BY DEF QueueTypeOK, MonitorTypeOK, QueuePC
<1>2. ListOK
  <2>1. Spells([i \in 1..size |-> NULL])
    BY DEF Spells
  <2> QED
    BY <2>1 DEF ListOK, Spells
<1> QED
  BY <1>1, <1>2 DEF QueueIInv, QueueMutexOK, QueueAsleepOK, QueueTestedOK, QuietOK, Capacity,
                    NoLostWakeup, QueueHolding

\* One step keeps every variable in its type.  The size stays natural because
\* a node is unlinked only from a list that has one.
LEMMA TypeStep == ASSUME QueueIInv, [QueueNext]_queueVars PROVE QueueTypeOK'
<1> USE DEF QueueIInv, QueueTypeOK, MonitorTypeOK, Goto, QueuePC, list, monitor, queueCallers
<1>1. CASE UNCHANGED queueVars
  BY <1>1 DEF queueVars
<1>2. ASSUME NEW t \in Thread, EnterPush(t) \/ EnterPull(t) PROVE QueueTypeOK'
  BY <1>2 DEF EnterPush, EnterPull, Lock
<1>3. ASSUME NEW t \in Thread, PushWaits(t) \/ PullWaits(t) PROVE QueueTypeOK'
  BY <1>3 DEF PushWaits, PullWaits, CondWait, Unlock
<1>4. ASSUME NEW t \in Thread, PushGoesOn(t) \/ PullGoesOn(t) PROVE QueueTypeOK'
  BY <1>4 DEF PushGoesOn, PullGoesOn
<1>5. ASSUME NEW t \in Thread, PushResumes(t) \/ PullResumes(t) PROVE QueueTypeOK'
  BY <1>5 DEF PushResumes, PullResumes, CondReturn, Lock
<1>6. ASSUME NEW t \in Thread, Link(t) PROVE QueueTypeOK'
  BY <1>6 DEF Link, Insert, Broadcast
<1>7. ASSUME NEW t \in Thread, Unlink(t) PROVE QueueTypeOK'
  <2>1. ~destroyed
    BY <1>7 DEF Unlink, Remove, QuietOK, QueueAllDone
  <2>2. PICK s \in [1..size -> Node] : Spells(s)
    BY <2>1 DEF ListOK
  <2>3. head # NULL
    BY <1>7 DEF Unlink, Remove, QueueTestedOK, Empty
  <2>4. size - 1 \in Nat /\ head \in Node
    BY <2>2, <2>3 DEF Spells
  <2> QED
    BY <1>7, <2>4 DEF Unlink, Remove, Broadcast
<1>8. ASSUME NEW t \in Thread, QueueLeave(t) PROVE QueueTypeOK'
  BY <1>8 DEF QueueLeave, Unlock
<1>9. ASSUME NEW t \in Thread, CallPush(t) PROVE QueueTypeOK'
  BY <1>9 DEF CallPush
<1>10. ASSUME NEW t \in Thread, CallPull(t) PROVE QueueTypeOK'
  BY <1>10 DEF CallPull
<1>11. ASSUME NEW t \in Thread, QueueWake(t) PROVE QueueTypeOK'
  BY <1>11 DEF QueueWake, SpuriousWake
<1>12. CASE Destroy
  BY <1>12 DEF Destroy
<1> QED
  BY <1>1, <1>2, <1>3, <1>4, <1>5, <1>6, <1>7, <1>8, <1>9, <1>10, <1>11, <1>12
  DEF QueueNext, QueueStep

\* The mutex is held by at most the thread whose pc says so, and only waiters
\* are on the condition variable.
LEMMA MonitorStep == ASSUME QueueIInv, [QueueNext]_queueVars PROVE QueueMutexOK' /\ QueueAsleepOK'
<1> USE DEF QueueIInv, QueueTypeOK, MonitorTypeOK, Goto, monitor, QueueMutexOK, QueueAsleepOK, QueueHolding
<1>1. CASE UNCHANGED queueVars
  BY <1>1 DEF queueVars
<1>2. ASSUME NEW t \in Thread, EnterPush(t) \/ EnterPull(t)
      PROVE QueueMutexOK' /\ QueueAsleepOK'
  BY <1>2 DEF EnterPush, EnterPull, Lock
<1>3. ASSUME NEW t \in Thread, PushWaits(t) \/ PullWaits(t)
      PROVE QueueMutexOK' /\ QueueAsleepOK'
  BY <1>3 DEF PushWaits, PullWaits, CondWait, Unlock
<1>4. ASSUME NEW t \in Thread, PushGoesOn(t) \/ PullGoesOn(t)
      PROVE QueueMutexOK' /\ QueueAsleepOK'
  BY <1>4 DEF PushGoesOn, PullGoesOn
<1>5. ASSUME NEW t \in Thread, PushResumes(t) \/ PullResumes(t)
      PROVE QueueMutexOK' /\ QueueAsleepOK'
  BY <1>5 DEF PushResumes, PullResumes, CondReturn, Lock
<1>6. ASSUME NEW t \in Thread, Link(t) \/ Unlink(t)
      PROVE QueueMutexOK' /\ QueueAsleepOK'
  BY <1>6 DEF Link, Insert, Unlink, Remove, Broadcast
<1>7. ASSUME NEW t \in Thread, QueueLeave(t) PROVE QueueMutexOK' /\ QueueAsleepOK'
  BY <1>7 DEF QueueLeave, Unlock
<1>8. ASSUME NEW t \in Thread, CallPush(t) \/ CallPull(t)
      PROVE QueueMutexOK' /\ QueueAsleepOK'
  BY <1>8 DEF CallPush, CallPull
<1>9. ASSUME NEW t \in Thread, QueueWake(t) PROVE QueueMutexOK' /\ QueueAsleepOK'
  BY <1>9 DEF QueueWake, SpuriousWake
<1>10. CASE Destroy
  BY <1>10 DEF Destroy
<1> QED
  BY <1>1, <1>2, <1>3, <1>4, <1>5, <1>6, <1>7, <1>8, <1>9, <1>10 DEF QueueNext, QueueStep

\* What a waiter or a thread past its while test knows about the queue stays
\* true: only the holder of the mutex changes the queue, and it wakes everyone
\* when it does.
LEMMA WaitStep ==
  ASSUME QueueIInv, [QueueNext]_queueVars
  PROVE  QueueTestedOK' /\ NoLostWakeup' /\ Capacity' /\ QuietOK'
<1> DEFINE Goal == QueueTestedOK' /\ NoLostWakeup' /\ Capacity' /\ QuietOK'
<1> USE DEF QueueIInv, QueueTypeOK, MonitorTypeOK, Goto, QueueMutexOK, QueueAsleepOK,
            QueueHolding, QueueTestedOK, NoLostWakeup, Capacity, QuietOK, QueueAllDone, Full, Empty,
            list, monitor, queueCallers
<1>1. CASE UNCHANGED queueVars
  BY <1>1 DEF queueVars
<1>2. ASSUME NEW t \in Thread, EnterPush(t) \/ EnterPull(t) PROVE Goal
  BY <1>2 DEF EnterPush, EnterPull, Lock
<1>3. ASSUME NEW t \in Thread, PushWaits(t) \/ PullWaits(t) PROVE Goal
  BY <1>3 DEF PushWaits, PullWaits, CondWait, Unlock
<1>4. ASSUME NEW t \in Thread, PushGoesOn(t) \/ PullGoesOn(t) PROVE Goal
  BY <1>4 DEF PushGoesOn, PullGoesOn
<1>5. ASSUME NEW t \in Thread, PushResumes(t) \/ PullResumes(t) PROVE Goal
  BY <1>5 DEF PushResumes, PullResumes, CondReturn, Lock
<1>6. ASSUME NEW t \in Thread, Link(t) PROVE Goal
  <2>1. ~Full /\ asleep' = {} /\ size' = size + 1 /\ max_size' = max_size
    BY <1>6 DEF Link, Insert, Broadcast
  <2>2. \A u \in Thread : pc'[u] \notin {"push_link", "pull_unlink"}
    BY <1>6 DEF Link, Insert
  <2> QED
    BY <1>6, <2>1, <2>2 DEF Link, Insert
<1>7. ASSUME NEW t \in Thread, Unlink(t) PROVE Goal
  <2>1. asleep' = {} /\ size' = size - 1 /\ max_size' = max_size
    BY <1>7 DEF Unlink, Remove, Broadcast
  <2>2. \A u \in Thread : pc'[u] \notin {"push_link", "pull_unlink"}
    BY <1>7 DEF Unlink, Remove
  <2> QED
    BY <1>7, <2>1, <2>2 DEF Unlink, Remove
<1>8. ASSUME NEW t \in Thread, QueueLeave(t) PROVE Goal
  BY <1>8 DEF QueueLeave, Unlock
<1>9. ASSUME NEW t \in Thread, CallPush(t) PROVE Goal
  BY <1>9 DEF CallPush
<1>10. ASSUME NEW t \in Thread, CallPull(t) PROVE Goal
  BY <1>10 DEF CallPull
<1>11. ASSUME NEW t \in Thread, QueueWake(t) PROVE Goal
  BY <1>11 DEF QueueWake, SpuriousWake
<1>12. CASE Destroy
  BY <1>12 DEF Destroy
<1> QED
  BY <1>1, <1>2, <1>3, <1>4, <1>5, <1>6, <1>7, <1>8, <1>9, <1>10, <1>11, <1>12
  DEF QueueNext, QueueStep

\* Linking a fresh node behind the tail spells the old list and then the node.
LEMMA LinkSpells ==
  ASSUME QueueIInv, NEW t \in Thread, Link(t), NEW s \in [1..size -> Node]
  PROVE  Spells(s) =>
         \E n \in Node \ live, z \in [1..size' -> Node] :
            /\ data' = [data EXCEPT ![n] = item[t]]
            /\ z = [i \in 1..(size + 1) |-> IF i <= size THEN s[i] ELSE n]
            /\ Spells(z)'
<1> USE DEF QueueIInv, QueueTypeOK
<1>2. SUFFICES ASSUME Spells(s)
      PROVE  \E n \in Node \ live, z \in [1..size' -> Node] :
                /\ data' = [data EXCEPT ![n] = item[t]]
                /\ z = [i \in 1..(size + 1) |-> IF i <= size THEN s[i] ELSE n]
                /\ Spells(z)'
  OBVIOUS
<1>3. PICK n \in Node \ live :
         /\ data' = [data EXCEPT ![n] = item[t]]
         /\ live' = live \cup {n}
         /\ next' = [m \in Node |-> IF m = n THEN NULL
                                    ELSE IF m = tail THEN n ELSE next[m]]
         /\ head' = IF tail = NULL THEN n ELSE head
         /\ tail' = n
  BY DEF Link, Insert
<1>4. size' = size + 1
  BY DEF Link, Insert
<1>5. PICK z \in [1..size' -> Node] :
         z = [i \in 1..(size + 1) |-> IF i <= size THEN s[i] ELSE n]
  <2>1. [i \in 1..(size + 1) |-> IF i <= size THEN s[i] ELSE n]
           \in [1..size' -> Node]
    BY <1>4
  <2> QED
    BY <2>1
<1>6. \A i \in 1..size : s[i] # n /\ s[i] \in live
  BY <1>2 DEF Spells
<1>7. \A i, j \in 1..size' : z[i] = z[j] => i = j
  BY <1>2, <1>4, <1>5, <1>6 DEF Spells
<1>8. live' = {z[i] : i \in 1..size'}
  <2>1. live = {s[i] : i \in 1..size}
    BY <1>2 DEF Spells
  <2>2. z[size + 1] = n /\ \A i \in 1..size : z[i] = s[i]
    BY <1>5
  <2>3. ASSUME NEW x \in live' PROVE \E i \in 1..size' : x = z[i]
    <3>1. CASE x = n
      BY <3>1, <2>2, <1>4
    <3>2. CASE x \in live
      BY <3>2, <2>1, <2>2, <1>4
    <3> QED
      BY <3>1, <3>2, <1>3
  <2>4. ASSUME NEW i \in 1..size' PROVE z[i] \in live'
    <3>1. CASE i = size + 1
      BY <3>1, <2>2, <1>3
    <3>2. CASE i # size + 1
      <4>1. i \in 1..size
        BY <3>2, <1>4
      <4> QED
        BY <4>1, <2>2, <1>3, <1>6
    <3> QED
      BY <3>1, <3>2
  <2> QED
    BY <2>3, <2>4
<1>9. head' = z[1] /\ tail' = z[size']
  BY <1>2, <1>3, <1>4, <1>5 DEF Spells
<1>10. \A i \in 1..size' : next'[z[i]] = IF i = size' THEN NULL ELSE z[i + 1]
  <2> SUFFICES ASSUME NEW i \in 1..size'
               PROVE next'[z[i]] = IF i = size' THEN NULL ELSE z[i + 1]
    OBVIOUS
  <2>1. CASE i = size'
    BY <2>1, <1>3, <1>4, <1>5
  <2>2. CASE i = size
    <3>1. z[i] = tail /\ z[i + 1] = n /\ z[i] # n
      BY <2>2, <1>2, <1>4, <1>5, <1>6 DEF Spells
    <3> QED
      BY <3>1, <2>2, <1>3, <1>4
  <2>3. CASE i < size
    <3>1. z[i] = s[i] /\ z[i + 1] = s[i + 1] /\ s[i] # n /\ s[i] # tail
      BY <2>3, <1>2, <1>4, <1>5, <1>6 DEF Spells
    <3>2. next[s[i]] = s[i + 1] /\ s[i] \in Node
      BY <2>3, <1>2 DEF Spells
    <3> QED
      BY <3>1, <3>2, <2>3, <1>3, <1>4
  <2> QED
    BY <2>1, <2>2, <2>3, <1>4
<1>11. Spells(z)'
  BY <1>4, <1>5, <1>7, <1>8, <1>9, <1>10 DEF Spells
<1> QED
  BY <1>3, <1>5, <1>11

\* Unlinking the head spells the list without its first node; the tail is
\* reset exactly when that node was the last one.
LEMMA UnlinkSpells ==
  ASSUME QueueIInv, NEW t \in Thread, Unlink(t), NEW s \in [1..size -> Node], Spells(s)
  PROVE  /\ size > 0 /\ head = s[1]
         /\ \E z \in [1..size' -> Node] : /\ z = [i \in 1..(size - 1) |-> s[i + 1]]
                                          /\ Spells(z)'
<1> USE DEF QueueIInv, QueueTypeOK
<1>2. Spells(s)
  OBVIOUS
<1>3. size > 0 /\ head = s[1] /\ head \in Node
  BY <1>2 DEF Unlink, Remove, Goto, QueueTestedOK, Empty, Spells
<1>4. /\ size' = size - 1
      /\ head' = next[head]
      /\ tail' = IF next[head] = NULL THEN NULL ELSE tail
      /\ live' = live \ {head}
      /\ next' = [next EXCEPT ![head] = NULL]
  BY DEF Unlink, Remove
<1>5. PICK z \in [1..size' -> Node] : z = [i \in 1..(size - 1) |-> s[i + 1]]
  <2>1. [i \in 1..(size - 1) |-> s[i + 1]] \in [1..size' -> Node]
    BY <1>3, <1>4
  <2> QED
    BY <2>1
<1>6. \A i \in 1..size' : z[i] # head
  BY <1>2, <1>3, <1>4, <1>5 DEF Spells
<1>7. \A i, j \in 1..size' : z[i] = z[j] => i = j
  BY <1>2, <1>4, <1>5 DEF Spells
<1>8. live' = {z[i] : i \in 1..size'}
  <2>1. live = {s[i] : i \in 1..size}
    BY <1>2 DEF Spells
  <2>2. ASSUME NEW x \in live' PROVE x \in {z[i] : i \in 1..size'}
    <3>1. PICK i \in 1..size : x = s[i] /\ i # 1
      BY <2>1, <1>3, <1>4
    <3>2. i - 1 \in 1..size' /\ z[i - 1] = x
      BY <3>1, <1>4, <1>5
    <3> QED
      BY <3>2
  <2>3. ASSUME NEW i \in 1..size' PROVE z[i] \in live'
    BY <2>1, <1>4, <1>5, <1>6
  <2> QED
    BY <2>2, <2>3
<1>9. /\ head' = IF size' = 0 THEN NULL ELSE z[1]
      /\ tail' = IF size' = 0 THEN NULL ELSE z[size']
  <2>1. next[head] = IF size = 1 THEN NULL ELSE s[2]
    BY <1>2, <1>3 DEF Spells
  <2>2. tail = s[size]
    BY <1>2, <1>3 DEF Spells
  <2>3. size # 1 => s[2] \in Node /\ z[1] = s[2] /\ z[size - 1] = s[size]
    BY <1>3, <1>5
  <2> QED
    BY <2>1, <2>2, <2>3, <1>3, <1>4
<1>10. \A i \in 1..size' : next'[z[i]] = IF i = size' THEN NULL ELSE z[i + 1]
  BY <1>2, <1>4, <1>5, <1>6 DEF Spells
<1>11. Spells(z)'
  BY <1>4, <1>5, <1>7, <1>8, <1>9, <1>10 DEF Spells
<1> QED
  BY <1>3, <1>5, <1>11

\* Every other step leaves the list as it is.
LEMMA ListStep == ASSUME QueueIInv, [QueueNext]_queueVars PROVE ListOK'
<1> USE DEF list
<1>1. CASE UNCHANGED queueVars
  BY <1>1 DEF queueVars, QueueIInv, ListOK, Spells
<1>2. ASSUME NEW t \in Thread, Link(t) \/ Unlink(t) PROVE ListOK'
  <2>1. ~destroyed
    BY <1>2 DEF Link, Unlink, Goto, QueueIInv, QueueTypeOK, QuietOK, QueueAllDone
  <2>2. PICK s \in [1..size -> Node] : Spells(s)
    BY <2>1 DEF QueueIInv, ListOK
  <2>. QED
    BY <1>2, <2>2, LinkSpells, UnlinkSpells DEF ListOK
<1>3. CASE Destroy
  BY <1>3 DEF Destroy, ListOK
<1>4. ASSUME UNCHANGED list PROVE ListOK'
  BY <1>4 DEF QueueIInv, ListOK, Spells
<1>5. ASSUME NEW t \in Thread,
             \/ EnterPush(t) \/ PushWaits(t) \/ PushGoesOn(t) \/ PushResumes(t)
             \/ EnterPull(t) \/ PullWaits(t) \/ PullGoesOn(t) \/ PullResumes(t)
             \/ QueueLeave(t) \/ CallPush(t) \/ CallPull(t) \/ QueueWake(t)
      PROVE UNCHANGED list
  BY <1>5 DEF EnterPush, PushWaits, PushGoesOn, PushResumes, EnterPull,
              PullWaits, PullGoesOn, PullResumes, QueueLeave, CallPush, CallPull, QueueWake
<1> QED
  BY <1>1, <1>2, <1>3, <1>4, <1>5 DEF QueueNext, QueueStep

\* The invariant is inductive.
LEMMA QueueInductive == QueueSpec => []QueueIInv
<1>1. QueueIInv /\ [QueueNext]_queueVars => QueueIInv'
  BY TypeStep, MonitorStep, WaitStep, ListStep DEF QueueIInv
<1> QED
  BY QueueInitOK, <1>1, PTL DEF QueueSpec

\* Every variable keeps its type; in particular size never goes below zero.
THEOREM QueueTypeCorrect == QueueSpec => []QueueTypeOK
<1>1. QueueIInv => QueueTypeOK
  BY DEF QueueIInv
<1> QED
  BY QueueInductive, <1>1, PTL

\* At every moment the struct spells one list of exactly the live nodes.
THEOREM ListCorrect == QueueSpec => []ListOK
<1>1. QueueIInv => ListOK
  BY DEF QueueIInv
<1> QED
  BY QueueInductive, <1>1, PTL

\* No interleaving of pushes overfills a bounded queue.
THEOREM NeverOverfull == QueueSpec => []Capacity
<1>1. QueueIInv => Capacity
  BY DEF QueueIInv
<1> QED
  BY QueueInductive, <1>1, PTL

\* A thread that sleeps in queue_push or queue_pull really cannot go on.
THEOREM NoWakeupLost == QueueSpec => []NoLostWakeup
<1>1. QueueIInv => NoLostWakeup
  BY DEF QueueIInv
<1> QED
  BY QueueInductive, <1>1, PTL

-----------------------------------------------------------------------------
\* The refinement of the bounded queue.

\* Nodes that are not in use point nowhere; and once the queue is destroyed no
\* node is reached any more.
FreedOK == /\ ~destroyed => \A n \in Node \ live : next[n] = NULL
           /\ destroyed => head = NULL /\ \E z \in Nat : \E s \in [1..z -> Node] : Linked(next, s, z)

QueueRefInv == QueueIInv /\ FreedOK

\* The list of the struct, with the fields of all nodes.
LEMMA SpellsLinked ==
  ASSUME QueueRefInv, ~destroyed, NEW s, Spells(s)
  PROVE  Linked(next, s, size)
<1>1. /\ size \in Nat /\ next \in [Node -> Node \cup {NULL}] /\ s \in [1..size -> Node]
      /\ \A i, j \in 1..size : s[i] = s[j] => i = j
      /\ \A i \in 1..size : next[s[i]] = IF i = size THEN NULL ELSE s[i + 1]
      /\ live = {s[i] : i \in 1..size}
  BY DEF QueueRefInv, QueueIInv, QueueTypeOK, Spells
<1>2. \A n \in Node : (\A i \in 1..size : s[i] # n) => next[n] = NULL
  BY <1>1 DEF QueueRefInv, FreedOK
<1>. QED
  BY <1>1, <1>2 DEF Linked

\* What the queue holds, read along its list.
LEMMA ContentsAre ==
  ASSUME QueueRefInv, ~destroyed, NEW s, Spells(s)
  PROVE  Contents = Listed(s, size, data)
<1>1. size \in Nat
  BY DEF QueueRefInv, QueueIInv, QueueTypeOK
<1>2. head = IF size = 0 THEN NULL ELSE s[1]
  BY DEF Spells
<1>. QED
  BY <1>1, <1>2, SpellsLinked, ValuesAre, ContentsIs

\* It is a sequence of values, one per node.
LEMMA ContentsListed ==
  ASSUME QueueRefInv, ~destroyed, NEW s, Spells(s)
  PROVE  /\ Contents \in Seq(Value \cup {NULL}) /\ Len(Contents) = size
         /\ \A i \in 1..size : Contents[i] = data[s[i]]
<1>1. size \in Nat /\ data \in [Node -> Value \cup {NULL}]
  BY DEF QueueRefInv, QueueIInv, QueueTypeOK
<1>2. \A i \in 1..size : s[i] \in Node
  BY DEF Spells
<1>3. \A i \in 1..size : data[s[i]] \in Value \cup {NULL}
  BY <1>1, <1>2
<1>4. /\ Listed(s, size, data) \in Seq(Value \cup {NULL})
      /\ Len(Listed(s, size, data)) = size
      /\ \A i \in 1..size : Listed(s, size, data)[i] = data[s[i]]
  BY ONLY <1>1, <1>3, ListedIs
<1>. QED
  BY <1>4, ContentsAre

\* The same of the queue as a step leaves it.
LEMMA ContentsAreNext ==
  ASSUME QueueRefInv', ~destroyed', NEW s, Spells(s)'
  PROVE  Contents' = Listed(s, size', data')
<1>1. /\ size' \in Nat /\ next' \in [Node -> Node \cup {NULL}] /\ s \in [1..size' -> Node]
      /\ \A i, j \in 1..size' : s[i] = s[j] => i = j
      /\ \A i \in 1..size' : next'[s[i]] = IF i = size' THEN NULL ELSE s[i + 1]
      /\ live' = {s[i] : i \in 1..size'}
      /\ head' = IF size' = 0 THEN NULL ELSE s[1]
  BY DEF QueueRefInv, QueueIInv, QueueTypeOK, Spells
<1>2. \A n \in Node : (\A i \in 1..size' : s[i] # n) => next'[n] = NULL
  BY <1>1 DEF QueueRefInv, FreedOK
<1>3. Linked(next', s, size')
  BY <1>1, <1>2 DEF Linked
<1>. QED
  BY <1>1, <1>3, ValuesAre, ContentsNext

\* A node is freed with its fields cleared, and only the tail is linked to it.
LEMMA FreedStep ==
  ASSUME QueueRefInv, [QueueNext]_queueVars, QueueIInv'
  PROVE  QueueRefInv'
<1>. SUFFICES FreedOK'
  BY DEF QueueRefInv
<1>1. ASSUME UNCHANGED list  PROVE FreedOK'
  BY <1>1 DEF QueueRefInv, FreedOK, list
<1>2. ASSUME NEW t \in Thread, Link(t) \/ Unlink(t)  PROVE ~destroyed /\ ~destroyed'
  BY <1>2 DEF Link, Insert, Unlink, Remove, Goto, QueueRefInv, QueueIInv, QueueTypeOK, QuietOK,
              QueueAllDone
<1>3. ASSUME NEW t \in Thread, Link(t)  PROVE FreedOK'
  <2>1. PICK s \in [1..size -> Node] : Spells(s)
    BY <1>2, <1>3 DEF QueueRefInv, QueueIInv, ListOK
  <2>2. tail = NULL \/ tail \in live
    BY <2>1 DEF Spells, QueueRefInv, QueueIInv, QueueTypeOK
  <2>3. PICK n \in Node \ live :
           /\ live' = live \cup {n}
           /\ next' = [m \in Node |-> IF m = n THEN NULL ELSE IF m = tail THEN n ELSE next[m]]
    BY <1>3 DEF Link, Insert
  <2>4. \A m \in Node \ live' : next'[m] = NULL
    BY <1>2, <1>3, <2>2, <2>3, NullAssumption DEF QueueRefInv, FreedOK
  <2>. QED
    BY <1>2, <1>3, <2>4 DEF FreedOK
<1>4. ASSUME NEW t \in Thread, Unlink(t)  PROVE FreedOK'
  <2>1. next' = [next EXCEPT ![head] = NULL] /\ live' = live \ {head}
    BY <1>4 DEF Unlink, Remove
  <2>2. next \in [Node -> Node \cup {NULL}]
    BY DEF QueueRefInv, QueueIInv, QueueTypeOK
  <2>3. \A m \in Node \ live' : next'[m] = NULL
    BY <1>2, <1>4, <2>1, <2>2 DEF QueueRefInv, FreedOK
  <2>. QED
    BY <1>2, <1>4, <2>3 DEF FreedOK
<1>5. CASE Destroy
  <2>1. ~destroyed /\ destroyed' /\ head' = NULL /\ next' = next
    BY <1>5 DEF Destroy
  <2>2. PICK s \in [1..size -> Node] : Spells(s)
    BY <2>1 DEF QueueRefInv, QueueIInv, ListOK
  <2>3. Linked(next, s, size) /\ size \in Nat
    BY <2>1, <2>2, SpellsLinked DEF QueueRefInv, QueueIInv, QueueTypeOK
  <2>4. \E z \in Nat : \E r \in [1..z -> Node] : Linked(next, r, z)
    BY <2>3
  <2>. QED
    BY <2>1, <2>4 DEF FreedOK
<1>6. ASSUME NEW t \in Thread,
             \/ EnterPush(t) \/ PushWaits(t) \/ PushGoesOn(t) \/ PushResumes(t)
             \/ EnterPull(t) \/ PullWaits(t) \/ PullGoesOn(t) \/ PullResumes(t)
             \/ QueueLeave(t) \/ CallPush(t) \/ CallPull(t) \/ QueueWake(t)
      PROVE UNCHANGED list
  BY <1>6 DEF EnterPush, PushWaits, PushGoesOn, PushResumes, EnterPull,
              PullWaits, PullGoesOn, PullResumes, QueueLeave, CallPush, CallPull, QueueWake
<1>7. UNCHANGED queueVars => UNCHANGED list
  BY DEF queueVars
<1>. QED
  BY <1>1, <1>3, <1>4, <1>5, <1>6, <1>7 DEF QueueNext, QueueStep

\* An empty struct holds nothing, and no node points anywhere.
LEMMA QueueRefStart == QueueInit => QueueRefInv /\ Fifo!Init
<1>. SUFFICES ASSUME QueueInit  PROVE QueueRefInv /\ Fifo!Init
  OBVIOUS
<1>1. QueueIInv
  BY QueueInitOK
<1>2. ~destroyed /\ size = 0 /\ \A n \in Node : next[n] = NULL
  BY DEF QueueInit
<1>3. QueueRefInv
  BY <1>1, <1>2 DEF QueueRefInv, FreedOK
<1>4. PICK s : Spells(s)
  BY <1>1, <1>2 DEF QueueIInv, ListOK
<1>5. Contents = Listed(s, 0, data)
  BY <1>2, <1>3, <1>4, ContentsAre
<1>6. Contents = <<>>
  BY <1>5 DEF Listed
<1>. QED
  BY <1>3, <1>6 DEF QueueInit, Fifo!Init

\* push links its item behind all others.
LEMMA LinkPuts ==
  ASSUME QueueRefInv, QueueRefInv', NEW t \in Thread, Link(t)
  PROVE  Fifo!Put(t) /\ max_size' = max_size
<1>1. ~destroyed /\ ~destroyed' /\ destroyed' = destroyed
  BY DEF Link, Insert, Goto, QueueRefInv, QueueIInv, QueueTypeOK, QuietOK, QueueAllDone
<1>2. PICK s \in [1..size -> Node] : Spells(s)
  BY <1>1 DEF QueueRefInv, QueueIInv, ListOK
<1>3. PICK n \in Node \ live, z \in [1..size' -> Node] :
         /\ data' = [data EXCEPT ![n] = item[t]]
         /\ z = [i \in 1..(size + 1) |-> IF i <= size THEN s[i] ELSE n]
         /\ Spells(z)'
  BY <1>2, LinkSpells DEF QueueRefInv
<1>4. /\ size \in Nat /\ size' = size + 1 /\ item' = item /\ max_size' = max_size
      /\ data \in [Node -> Value \cup {NULL}] /\ item[t] \in Value \cup {NULL}
  BY DEF Link, Insert, QueueRefInv, QueueIInv, QueueTypeOK, queueCallers
<1>5. ~Full
  BY DEF Link, Goto, QueueRefInv, QueueIInv, QueueTypeOK, QueueTestedOK
<1>6. Contents = Listed(s, size, data) /\ Contents' = Listed(z, size', data')
  BY <1>1, <1>2, <1>3, ContentsAre, ContentsAreNext
<1>7. \A i \in 1..size : s[i] \in Node /\ s[i] # n
  BY <1>2, <1>3 DEF Spells
<1>8. PICK c, d : c = Listed(s, size, data) /\ d = Listed(z, size', data')
  OBVIOUS
<1>9. c \in Seq(Value \cup {NULL}) /\ Len(c) = size /\ \A i \in 1..size : c[i] = data[s[i]]
  BY <1>1, <1>2, <1>6, <1>8, ContentsListed
<1>10. \A i \in 1..(size + 1) : data'[z[i]] = IF i <= size THEN c[i] ELSE item[t]
  <2>. TAKE i \in 1..(size + 1)
  <2>1. CASE i <= size
    BY <1>3, <1>4, <1>7, <1>9, <2>1
  <2>2. CASE ~(i <= size)
    BY <1>3, <1>4, <2>2
  <2>. QED
    BY <2>1, <2>2
<1>11. d = [i \in 1..(size + 1) |-> IF i <= size THEN c[i] ELSE item[t]]
  BY <1>4, <1>8, <1>10 DEF Listed
<1>12. d = Append(c, item[t])
  <2>1. PICK v \in Value \cup {NULL} : v = item[t]
    BY <1>4
  <2>2. PICK e : e = Append(c, v)
    OBVIOUS
  <2>3. e \in Seq(Value \cup {NULL}) /\ Len(e) = size + 1 /\ e[size + 1] = v
        /\ \A i \in 1..size : e[i] = c[i]
    BY <1>4, <1>9, <2>2
  <2>4. e = [i \in 1..(size + 1) |-> IF i <= size THEN c[i] ELSE v]
    BY <1>4, <2>3
  <2>. QED
    BY <1>11, <2>1, <2>2, <2>4
<1>13. Contents' = Append(Contents, item[t])
  BY <1>6, <1>8, <1>12
<1>14. max_size > 0 => Len(Contents) < max_size
  BY <1>4, <1>5, <1>6, <1>8, <1>9 DEF Full, QueueRefInv, QueueIInv, QueueTypeOK
<1>. QED
  BY <1>1, <1>4, <1>13, <1>14 DEF Fifo!Put, Fifo!Room

\* pull takes the item of the first node.
LEMMA UnlinkGets ==
  ASSUME QueueRefInv, QueueRefInv', NEW t \in Thread, Unlink(t)
  PROVE  Fifo!Get(t) /\ max_size' = max_size
<1>1. ~destroyed /\ ~destroyed' /\ destroyed' = destroyed
  BY DEF Unlink, Remove, Goto, QueueRefInv, QueueIInv, QueueTypeOK, QuietOK, QueueAllDone
<1>2. PICK s \in [1..size -> Node] : Spells(s)
  BY <1>1 DEF QueueRefInv, QueueIInv, ListOK
<1>3. PICK z \in [1..size' -> Node] : /\ z = [i \in 1..(size - 1) |-> s[i + 1]]
                                      /\ Spells(z)'
  BY <1>2, UnlinkSpells DEF QueueRefInv
<1>4. size > 0 /\ head = s[1]
  BY <1>2, UnlinkSpells DEF QueueRefInv
<1>5. /\ size \in Nat /\ size' = size - 1 /\ max_size' = max_size
      /\ data \in [Node -> Value \cup {NULL}]
  BY DEF Unlink, Remove, QueueRefInv, QueueIInv, QueueTypeOK
<1>6. data' = [data EXCEPT ![head] = NULL] /\ item' = [item EXCEPT ![t] = data[head]]
  BY DEF Unlink, Remove
<1>7. Contents = Listed(s, size, data) /\ Contents' = Listed(z, size', data')
  BY <1>1, <1>2, <1>3, ContentsAre, ContentsAreNext
<1>8. PICK c, d : c = Listed(s, size, data) /\ d = Listed(z, size', data')
  OBVIOUS
<1>9. c \in Seq(Value \cup {NULL}) /\ Len(c) = size /\ \A i \in 1..size : c[i] = data[s[i]]
  BY <1>1, <1>2, <1>7, <1>8, ContentsListed
<1>10. c # <<>> /\ Head(c) = data[head]
  BY <1>4, <1>5, <1>9
<1>11. \A i \in 1..(size - 1) : data'[z[i]] = c[i + 1]
  <2>. TAKE i \in 1..(size - 1)
  <2>1. i + 1 \in 1..size /\ 1 \in 1..size /\ i + 1 # 1
    BY <1>4, <1>5
  <2>2. s[i + 1] \in Node /\ s[i + 1] # head
    BY <1>2, <1>4, <2>1 DEF Spells
  <2>3. z[i] = s[i + 1]
    BY <1>3
  <2>4. data'[s[i + 1]] = data[s[i + 1]]
    BY <1>5, <1>6, <2>2
  <2>. QED
    BY <1>9, <2>1, <2>3, <2>4
<1>12. d = [i \in 1..(size - 1) |-> c[i + 1]]
  BY <1>5, <1>8, <1>11 DEF Listed
<1>13. d = Tail(c)
  <2>1. PICK e : e = Tail(c)
    OBVIOUS
  <2>2. e \in Seq(Value \cup {NULL}) /\ Len(e) = size - 1 /\ \A i \in 1..(size - 1) : e[i] = c[i + 1]
    BY <1>4, <1>5, <1>9, <1>10, <2>1
  <2>3. e = [i \in 1..(size - 1) |-> c[i + 1]]
    BY <1>5, <2>2
  <2>. QED
    BY <1>12, <2>1, <2>3
<1>. QED
  BY <1>1, <1>5, <1>6, <1>7, <1>8, <1>10, <1>13 DEF Fifo!Get

\* queue_destroy drops what is left.
LEMMA DestroyDiscards ==
  ASSUME QueueRefInv', Destroy
  PROVE  Fifo!Discard /\ max_size' = max_size
<1>1. /\ ~destroyed /\ destroyed' /\ item' = item /\ max_size' = max_size /\ destroyed' = TRUE
  BY DEF Destroy, queueCallers
<1>2. PICK z \in Nat : \E s \in [1..z -> Node] : head' = NULL /\ Linked(next', s, z)
  BY <1>1 DEF QueueRefInv, FreedOK
<1>3. From(next')[NULL] = <<>>
  BY <1>2, Walk
<1>4. Contents' = <<>>
  <2>1. Len(From(next')[head']) = 0
    BY <1>2, <1>3
  <2>2. Contents' = [i \in 1..0 |-> data'[From(next')[head'][i]]]
    BY <2>1, ContentsNext DEF Values
  <2>. QED
    BY <2>2
<1>. QED
  BY <1>1, <1>4 DEF Fifo!Discard

\* What leaves the struct and its nodes alone leaves the queue as it is.
LEMMA ContentsStay ==
  ASSUME UNCHANGED list
  PROVE  Contents' = Contents /\ UNCHANGED <<destroyed, max_size>>
<1>1. head' = head /\ next' = next /\ data' = data /\ UNCHANGED <<destroyed, max_size>>
  BY DEF list
<1>. QED
  BY <1>1, ContentsIs, ContentsNext

\* Linking a node is Put, unlinking one is Get, a call of push is Offer,
\* queue_destroy is Discard; no other step changes what the queue holds.
LEMMA QueueRefStep ==
  ASSUME QueueRefInv, QueueRefInv', [QueueNext]_queueVars
  PROVE  [Fifo!Next]_<<Contents, item, destroyed, max_size>>
<1>1. ASSUME NEW t \in Thread, Link(t)  PROVE Fifo!Next
  BY <1>1, LinkPuts DEF Fifo!Next
<1>2. ASSUME NEW t \in Thread, Unlink(t)  PROVE Fifo!Next
  BY <1>2, UnlinkGets DEF Fifo!Next
<1>3. CASE Destroy
  BY <1>3, DestroyDiscards DEF Fifo!Next
<1>4. ASSUME NEW t \in Thread, CallPush(t)  PROVE Fifo!Next
  <2>1. UNCHANGED list /\ \E v \in Value : item' = [item EXCEPT ![t] = v]
    BY <1>4 DEF CallPush
  <2>2. Fifo!Offer(t) /\ UNCHANGED max_size
    BY <2>1, ContentsStay DEF Fifo!Offer
  <2>. QED
    BY <2>2 DEF Fifo!Next
<1>5. ASSUME UNCHANGED list, UNCHANGED item
      PROVE  UNCHANGED <<Contents, item, destroyed, max_size>>
  BY <1>5, ContentsStay
<1>6. ASSUME NEW t \in Thread,
             \/ EnterPush(t) \/ PushWaits(t) \/ PushGoesOn(t) \/ PushResumes(t)
             \/ EnterPull(t) \/ PullWaits(t) \/ PullGoesOn(t) \/ PullResumes(t)
             \/ QueueLeave(t) \/ CallPull(t) \/ QueueWake(t)
      PROVE UNCHANGED list /\ UNCHANGED item
  BY <1>6 DEF EnterPush, PushWaits, PushGoesOn, PushResumes, EnterPull, PullWaits, PullGoesOn,
              PullResumes, QueueLeave, CallPull, QueueWake, queueCallers
<1>7. UNCHANGED queueVars => UNCHANGED list /\ UNCHANGED item
  BY DEF queueVars, queueCallers
<1>. QED
  BY <1>1, <1>2, <1>3, <1>4, <1>5, <1>6, <1>7 DEF QueueNext, QueueStep

\* The list implements the abstract bounded queue: pulls return the pushed
\* values, in the order of the links, each exactly once.
THEOREM QueueImplements == QueueSpec => FifoSpec
<1>1. QueueIInv /\ QueueIInv' /\ QueueRefInv /\ [QueueNext]_queueVars => QueueRefInv'
  BY FreedStep
<1>2. QueueIInv /\ FreedOK <=> QueueRefInv
  BY DEF QueueRefInv
<1>3. QueueSpec => []QueueRefInv
  BY QueueInductive, QueueRefStart, <1>1, PTL DEF QueueSpec
<1>4. QueueRefInv /\ QueueRefInv' /\ [QueueNext]_queueVars
         => [Fifo!Next]_<<Contents, item, destroyed, max_size>>
  BY QueueRefStep
<1>. QED
  BY QueueRefStart, <1>3, <1>4, PTL DEF QueueSpec, FifoSpec, Fifo!Spec

-----------------------------------------------------------------------------
\* The semaphore, and the refinement of the atomic counter.

SemmHolding == {"test", "change", "unlock"}

\* A thread holds the mutex exactly between lock and unlock, and not inside
\* pthread_cond_wait.
SemmMutexOK == \A t \in Thread : owner = t <=> pc[t] \in SemmHolding

\* Only threads inside pthread_cond_wait are on the condition variable.
SemmAsleepOK == \A t \in asleep : pc[t] = "sleep"

\* The while test still fails when the thread changes the counter.
SemmTestedOK == \A t \in Thread : pc[t] = "change" => ~Blocked(t)

SemmIInv == SemmTypeOK /\ SemmMutexOK /\ SemmAsleepOK /\ SemmTestedOK /\ InRange /\ OneKindAsleep

USE NoThreadAssumption, SemaphoresAssumption, SemmWorkloadAssumption

\* semm_init leaves a value in range, a free mutex and no waiter.
LEMMA SemmInitOK == SemmInit => SemmIInv
BY DEF SemmInit, MonitorInit, SemmIInv, SemmTypeOK, MonitorTypeOK, SemmMutexOK, SemmAsleepOK,
       SemmTestedOK, InRange, OneKindAsleep, SemmHolding, Op, SemmPC

\* Every step keeps the invariant: what a thread tested cannot change before
\* it acts, and whoever changes the counter wakes all those who tested it.
LEMMA SemmInductiveStep == ASSUME SemmIInv, [SemmNext]_semmVars PROVE SemmIInv'
<1> USE DEF SemmIInv, SemmTypeOK, MonitorTypeOK, SemmMutexOK, SemmAsleepOK, SemmTestedOK, InRange,
            OneKindAsleep, Blocked, SemmHolding, Op, SemmPC, Goto, sem, monitor, semmCallers
<1>1. CASE UNCHANGED semmVars
  BY <1>1 DEF semmVars
<1>2. ASSUME NEW t \in Thread, SemmCall(t) PROVE SemmIInv'
  BY <1>2 DEF SemmCall
<1>3. ASSUME NEW t \in Thread, SemmEnter(t) PROVE SemmIInv'
  BY <1>3 DEF SemmEnter, Lock
<1>4. ASSUME NEW t \in Thread, Waits(t) PROVE SemmIInv'
  BY <1>4 DEF Waits, CondWait, Unlock
<1>5. ASSUME NEW t \in Thread, SemmResumes(t) PROVE SemmIInv'
  BY <1>5 DEF SemmResumes, CondReturn, Lock
<1>6. ASSUME NEW t \in Thread, GoesOn(t) PROVE SemmIInv'
  BY <1>6 DEF GoesOn
<1>7. ASSUME NEW t \in Thread, Change(t) PROVE SemmIInv'
  BY <1>7 DEF Change, Broadcast
<1>8. ASSUME NEW t \in Thread, SemmLeave(t) PROVE SemmIInv'
  BY <1>8 DEF SemmLeave, Unlock
<1>9. ASSUME NEW t \in Thread, SemmWake(t) PROVE SemmIInv'
  BY <1>9 DEF SemmWake, SpuriousWake
<1> QED
  BY <1>1, <1>2, <1>3, <1>4, <1>5, <1>6, <1>7, <1>8, <1>9 DEF SemmNext, SemmStep

\* The invariant is inductive.
LEMMA SemmInductive == SemmSpec => []SemmIInv
BY SemmInitOK, SemmInductiveStep, PTL DEF SemmSpec

\* Every variable keeps its type.
THEOREM SemmTypeCorrect == SemmSpec => []SemmTypeOK
<1>1. SemmIInv => SemmTypeOK
  BY DEF SemmIInv
<1> QED
  BY SemmInductive, <1>1, PTL

\* The counter stays in 0..max_val.
THEOREM NeverOutOfRange == SemmSpec => []InRange
<1>1. SemmIInv => InRange
  BY DEF SemmIInv
<1> QED
  BY SemmInductive, <1>1, PTL

\* Sleepers are blocked in fact, and all by the same limit.
THEOREM SleepersBlocked == SemmSpec => []OneKindAsleep
<1>1. SemmIInv => OneKindAsleep
  BY DEF SemmIInv
<1> QED
  BY SemmInductive, <1>1, PTL

\* Each critical section acts on the counter as one Acquire or one Release,
\* and every other step leaves it alone.
THEOREM SemmImplements == SemmSpec => CounterSpec
<1>1. SemmInit => Counter!Init
  BY DEF SemmInit, Counter!Init
<1>2. ASSUME SemmIInv, [SemmNext]_semmVars PROVE [Counter!Next]_<<value, max_val>>
  <2> USE DEF sem
  <2>1. ASSUME NEW t \in Thread, Change(t) PROVE Counter!Next
    <3> USE DEF SemmIInv, SemmTypeOK, SemmTestedOK, InRange, Blocked, Goto, Op
    <3>1. CASE op[t] = "wait"
      BY <1>2, <2>1, <3>1 DEF Change, Counter!Next, Counter!Acquire
    <3>2. CASE op[t] = "post"
      BY <1>2, <2>1, <3>2 DEF Change, Counter!Next, Counter!Release
    <3> QED
      BY <1>2, <3>1, <3>2
  <2>2. ASSUME NEW t \in Thread,
               \/ SemmCall(t) \/ SemmEnter(t) \/ Waits(t) \/ SemmResumes(t)
               \/ GoesOn(t) \/ SemmLeave(t) \/ SemmWake(t)
        PROVE UNCHANGED <<value, max_val>>
    BY <2>2 DEF SemmCall, SemmEnter, Waits, SemmResumes, GoesOn, SemmLeave, SemmWake
  <2> QED
    BY <1>2, <2>1, <2>2 DEF SemmNext, SemmStep, semmVars
<1> QED
  BY SemmInductive, <1>1, <1>2, PTL DEF SemmSpec, CounterSpec, Counter!Spec

-----------------------------------------------------------------------------
\* The barrier, as long as no waiter has woken spuriously.

\* A thread holds the mutex exactly between lock and unlock, and not inside
\* pthread_cond_wait.
BarrierMutexOK == \A t \in Thread : owner = t <=> pc[t] \in {"arrive", "unlock"}

\* Only threads inside pthread_cond_wait are on the condition variable.
BarrierAsleepOK == \A t \in asleep : pc[t] = "sleep"

\* Thread t is outside the barrier, waits for the current round, or has been
\* released from the one just completed.
Outside(t)  == /\ pc[t] \in {"idle", "call", "arrive"}
               /\ arrivals[t] = times_used /\ passes[t] = times_used
Waiting(t)  == /\ t \in asleep
               /\ arrivals[t] = times_used + 1 /\ passes[t] = times_used
Released(t) == /\ pc[t] \in {"sleep", "unlock"} /\ t \notin asleep
               /\ arrivals[t] = times_used /\ passes[t] + 1 = times_used

\* Undisturbed, the count is the number of threads that wait, and every thread
\* is in the current round or on its way out of the previous one.
RoundOK == \/ disturbed
           \/ /\ count = Cardinality(asleep)
              /\ \A t \in Thread : Outside(t) \/ Waiting(t) \/ Released(t)

BarrierIInv == BarrierTypeOK /\ BarrierMutexOK /\ BarrierAsleepOK /\ RoundOK

USE NoThreadAssumption, ThreadAssumption, RoundsAssumption

\* barrier_init: everyone is outside and nobody waits.
LEMMA BarrierInitOK == BarrierInit => BarrierIInv
<1> SUFFICES ASSUME BarrierInit PROVE BarrierIInv
  OBVIOUS
<1> USE DEF BarrierInit, MonitorInit
<1>1. Cardinality(asleep) = 0
  BY FS_EmptySet
<1>2. BarrierTypeOK
  BY DEF BarrierTypeOK, MonitorTypeOK, BarrierPC
<1>3. BarrierMutexOK /\ BarrierAsleepOK
  BY DEF BarrierMutexOK, BarrierAsleepOK
<1>4. RoundOK
  BY <1>1 DEF RoundOK, Outside
<1> QED
  BY <1>2, <1>3, <1>4 DEF BarrierIInv

\* When the count reaches n_threads, every other thread waits in this round.
LEMMA LastIsLast ==
  ASSUME BarrierIInv, ~disturbed, NEW t \in Thread, ArriveLast(t)
  PROVE  \A u \in Thread \ {t} : Waiting(u)
<1> USE DEF BarrierIInv, BarrierTypeOK, MonitorTypeOK
<1>1. pc[t] = "arrive" /\ count + 1 >= Cardinality(Thread)
  BY DEF ArriveLast, Goto, n_threads
<1>2. t \notin asleep
  BY <1>1 DEF BarrierAsleepOK
<1>3. IsFiniteSet(asleep)
  BY FS_Subset
<1>4. Cardinality(asleep \cup {t}) = count + 1 /\ count \in Nat
  BY <1>2, <1>3, FS_AddElement DEF RoundOK
<1>5. asleep \cup {t} \in SUBSET Thread
  OBVIOUS
<1>6. Cardinality(asleep \cup {t}) <= Cardinality(Thread)
  BY <1>5, FS_Subset
<1>7. Cardinality(Thread) = Cardinality(asleep \cup {t})
  <2>1. Cardinality(Thread) \in Nat
    BY FS_CardinalityType
  <2> QED
    BY <2>1, <1>1, <1>4, <1>6
<1>8. asleep \cup {t} = Thread
  BY <1>5, <1>7, FS_Subset
<1> QED
  BY <1>8 DEF RoundOK, Outside, Waiting, Released, BarrierAsleepOK

\* A thread that waits adds one to the count and one to the sleepers.
LEMMA EarlyCounts ==
  ASSUME BarrierIInv, ~disturbed, NEW t \in Thread, ArriveEarly(t)
  PROVE  count' = Cardinality(asleep')
<1>1. t \notin asleep /\ IsFiniteSet(asleep)
  BY FS_Subset DEF BarrierIInv, BarrierTypeOK, MonitorTypeOK, BarrierAsleepOK, ArriveEarly, Goto
<1>2. asleep' = asleep \cup {t} /\ count' = count + 1
  BY DEF ArriveEarly, CondWait
<1> QED
  BY <1>1, <1>2, FS_AddElement DEF BarrierIInv, RoundOK

\* Every step keeps the invariant.
LEMMA BarrierInductiveStep == ASSUME BarrierIInv, [BarrierNext]_barrierVars PROVE BarrierIInv'
<1> USE DEF BarrierIInv, BarrierTypeOK, MonitorTypeOK, BarrierMutexOK, BarrierAsleepOK, RoundOK, Outside,
            Waiting, Released, BarrierPC, Goto, barrier, monitor, barrierHistory
<1>1. CASE UNCHANGED barrierVars
  BY <1>1 DEF barrierVars
<1>2. ASSUME NEW t \in Thread, BarrierCall(t) PROVE BarrierIInv'
  BY <1>2 DEF BarrierCall
<1>3. ASSUME NEW t \in Thread, BarrierEnter(t) PROVE BarrierIInv'
  BY <1>3 DEF BarrierEnter, Lock
<1>4. ASSUME NEW t \in Thread, ArriveEarly(t) PROVE BarrierIInv'
  <2>1. (BarrierTypeOK /\ BarrierMutexOK /\ BarrierAsleepOK)'
    BY <1>4 DEF ArriveEarly, CondWait, Unlock
  <2>2. CASE disturbed
    BY <2>1, <2>2, <1>4 DEF ArriveEarly
  <2>3. CASE ~disturbed
    <3>1. Outside(t)
      BY <2>3, <1>4 DEF ArriveEarly
    <3>2. \A u \in Thread : (Outside(u) \/ Waiting(u) \/ Released(u))'
      BY <2>3, <3>1, <1>4 DEF ArriveEarly, CondWait
    <3> QED
      BY <2>1, <2>3, <3>2, <1>4, EarlyCounts
  <2> QED
    BY <2>2, <2>3
<1>5. ASSUME NEW t \in Thread, ArriveLast(t) PROVE BarrierIInv'
  <2>1. (BarrierTypeOK /\ BarrierMutexOK /\ BarrierAsleepOK)'
    BY <1>5 DEF ArriveLast, Broadcast
  <2>2. CASE disturbed
    BY <2>1, <2>2, <1>5 DEF ArriveLast
  <2>3. CASE ~disturbed
    <3>1. \A u \in Thread \ {t} : Waiting(u)
      BY <2>3, <1>5, LastIsLast
    <3>2. Outside(t)
      BY <2>3, <1>5 DEF ArriveLast
    <3>3. \A u \in Thread : Released(u)'
      BY <3>1, <3>2, <1>5 DEF ArriveLast, Broadcast
    <3>4. count' = Cardinality(asleep')
      BY <1>5, FS_EmptySet DEF ArriveLast, Broadcast
    <3> QED
      BY <2>1, <3>3, <3>4
  <2> QED
    BY <2>2, <2>3
<1>6. ASSUME NEW t \in Thread, BarrierResume(t) PROVE BarrierIInv'
  BY <1>6 DEF BarrierResume, CondReturn, Lock
<1>7. ASSUME NEW t \in Thread, BarrierLeave(t) PROVE BarrierIInv'
  BY <1>7 DEF BarrierLeave, Unlock
<1>8. ASSUME NEW t \in Thread, BarrierWake(t) PROVE BarrierIInv'
  BY <1>8 DEF BarrierWake, SpuriousWake
<1> QED
  BY <1>1, <1>2, <1>3, <1>4, <1>5, <1>6, <1>7, <1>8 DEF BarrierNext, BarrierStep

\* The invariant is inductive.
LEMMA BarrierInductive == BarrierSpec => []BarrierIInv
BY BarrierInitOK, BarrierInductiveStep, PTL DEF BarrierSpec

\* Every variable keeps its type.
THEOREM BarrierTypeCorrect == BarrierSpec => []BarrierTypeOK
<1>1. BarrierIInv => BarrierTypeOK
  BY DEF BarrierIInv
<1> QED
  BY BarrierInductive, <1>1, PTL

\* Without spurious wake-ups no thread passes a barrier before all arrived.
THEOREM BarrierHolds == BarrierSpec => []TogetherUndisturbed
<1>1. BarrierIInv => TogetherUndisturbed
  BY DEF BarrierIInv, BarrierTypeOK, RoundOK, Outside, Waiting, Released,
         TogetherUndisturbed, Together
<1> QED
  BY BarrierInductive, <1>1, PTL

\* Without spurious wake-ups times_used counts the completed rounds.
THEOREM RoundsAreCounted == BarrierSpec => []RoundsCounted
<1>1. BarrierIInv => RoundsCounted
  BY DEF BarrierIInv, BarrierTypeOK, RoundOK, Outside, Waiting, Released, RoundsCounted
<1> QED
  BY BarrierInductive, <1>1, PTL
=============================================================================
