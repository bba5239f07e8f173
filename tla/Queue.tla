-------------------------------- MODULE Queue --------------------------------
(***************************************************************************)
(* critical_concurrency/queue.c: a linked list guarded by one mutex and    *)
(* one condition variable, which producers waiting for room and consumers  *)
(* waiting for an item share.                                              *)
(*                                                                         *)
(* Every step of a call that another thread could observe is an action of  *)
(* its own: taking the mutex, evaluating the while test, parking, linking  *)
(* or unlinking the node (with the broadcast that follows it), releasing   *)
(* the mutex.  malloc hands out any free node and never fails.             *)
(***************************************************************************)
EXTENDS Monitor, Integers, Sequences

CONSTANTS Value,      \* what callers push
          Node,       \* the addresses malloc hands out
          NULL,
          MaxSizes,   \* arguments of queue_create: no bound unless positive
          QueueWorkloads  \* how many calls each thread makes

ASSUME NullAssumption    == NULL \notin Node
ASSUME MaxSizeAssumption == MaxSizes \subseteq Int
ASSUME QueueWorkloadAssumption ==
          QueueWorkloads \subseteq [Thread -> [push : Nat, pull : Nat]]

VARIABLES head, tail, size, max_size,     \* the struct queue
          next, data,                     \* the fields of each node
          live,                           \* nodes malloc'ed and not freed
          destroyed,                      \* queue_destroy has run
          item,                           \* per thread: argument or result
          calls                           \* per thread: calls left to make

list         == <<head, tail, size, max_size, next, data, live, destroyed>>
queueCallers == <<item, calls>>
queueVars    == <<list, monitor, queueCallers, pc>>

Full  == max_size > 0 /\ size >= max_size
Empty == head = NULL

QueueInit == /\ MonitorInit
             /\ head = NULL /\ tail = NULL /\ size = 0 /\ live = {}
             /\ max_size \in MaxSizes
             /\ next = [n \in Node |-> NULL]
             /\ data = [n \in Node |-> NULL]
             /\ destroyed = FALSE
             /\ item = [t \in Thread |-> NULL]
             /\ calls \in QueueWorkloads
             /\ pc = [t \in Thread |-> "idle"]

-----------------------------------------------------------------------------
CallPush(t) == /\ Goto(t, "idle", "push")
               /\ calls[t].push > 0
               /\ calls' = [calls EXCEPT ![t].push = @ - 1]
               /\ \E v \in Value : item' = [item EXCEPT ![t] = v]
               /\ UNCHANGED <<list, monitor>>

CallPull(t) == /\ Goto(t, "idle", "pull")
               /\ calls[t].pull > 0
               /\ calls' = [calls EXCEPT ![t].pull = @ - 1]
               /\ UNCHANGED <<list, monitor, item>>

EnterPush(t) == /\ Goto(t, "push", "push_test")
                /\ Lock(t)
                /\ UNCHANGED <<list, asleep, queueCallers>>

EnterPull(t) == /\ Goto(t, "pull", "pull_test")
                /\ Lock(t)
                /\ UNCHANGED <<list, asleep, queueCallers>>

\* while (max_size > 0 && size >= max_size) pthread_cond_wait
PushWaits(t) == /\ Goto(t, "push_test", "push_sleep")
                /\ Full
                /\ CondWait(t)
                /\ UNCHANGED <<list, queueCallers>>

PushGoesOn(t) == /\ Goto(t, "push_test", "push_link")
                 /\ ~Full
                 /\ UNCHANGED <<list, monitor, queueCallers>>

\* while (head == NULL) pthread_cond_wait
PullWaits(t) == /\ Goto(t, "pull_test", "pull_sleep")
                /\ Empty
                /\ CondWait(t)
                /\ UNCHANGED <<list, queueCallers>>

PullGoesOn(t) == /\ Goto(t, "pull_test", "pull_unlink")
                 /\ ~Empty
                 /\ UNCHANGED <<list, monitor, queueCallers>>

\* Fault: push tests with an if, so a woken thread does not look again.
PushDoesNotLook(t) == /\ Goto(t, "push_sleep", "push_link")
                      /\ CondReturn(t)
                      /\ UNCHANGED <<list, asleep, queueCallers>>

\* Back from pthread_cond_wait, a thread evaluates its while test again.
PushResumes(t) == /\ Goto(t, "push_sleep", "push_test")
                  /\ CondReturn(t)
                  /\ UNCHANGED <<list, asleep, queueCallers>>

PullResumes(t) == /\ Goto(t, "pull_sleep", "pull_test")
                  /\ CondReturn(t)
                  /\ UNCHANGED <<list, asleep, queueCallers>>

\* The new node's next is NULL; it goes behind the tail, or becomes the head.
Insert(v) == /\ \E n \in Node \ live :
                   /\ live' = live \cup {n}
                   /\ data' = [data EXCEPT ![n] = v]
                   /\ next' = [m \in Node |-> IF m = n THEN NULL
                                              ELSE IF m = tail THEN n
                                              ELSE next[m]]
                   /\ head' = IF tail = NULL THEN n ELSE head
                   /\ tail' = n
             /\ size' = size + 1
             /\ UNCHANGED <<max_size, destroyed>>

\* Fault: pull empties the list and the tail still names the freed node.
RemoveKeepingTail == /\ head' = next[head]
                     /\ live' = live \ {head}
                     /\ next' = [next EXCEPT ![head] = NULL]
                     /\ data' = [data EXCEPT ![head] = NULL]
                     /\ size' = size - 1
                     /\ UNCHANGED <<tail, max_size, destroyed>>

\* The fields of a freed node are cleared: nothing may read them any more.
Remove == /\ head' = next[head]
          /\ tail' = IF next[head] = NULL THEN NULL ELSE tail
          /\ live' = live \ {head}
          /\ next' = [next EXCEPT ![head] = NULL]
          /\ data' = [data EXCEPT ![head] = NULL]
          /\ size' = size - 1
          /\ UNCHANGED <<max_size, destroyed>>

\* Fault: push does not broadcast.
LinkQuietly(t) == /\ Goto(t, "push_link", "unlock")
                  /\ Insert(item[t])
                  /\ UNCHANGED <<monitor, queueCallers>>

Link(t) == /\ Goto(t, "push_link", "unlock")
           /\ Insert(item[t])
           /\ Broadcast
           /\ UNCHANGED <<owner, queueCallers>>

\* Fault: pull does not broadcast.
UnlinkQuietly(t) == /\ Goto(t, "pull_unlink", "unlock")
                    /\ item' = [item EXCEPT ![t] = data[head]]
                    /\ Remove
                    /\ UNCHANGED <<monitor, calls>>

Unlink(t) == /\ Goto(t, "pull_unlink", "unlock")
             /\ item' = [item EXCEPT ![t] = data[head]]
             /\ Remove
             /\ Broadcast
             /\ UNCHANGED <<owner, calls>>

QueueLeave(t) == /\ Goto(t, "unlock", "idle")
                 /\ Unlock(t)
                 /\ UNCHANGED <<list, asleep, queueCallers>>

QueueWake(t) == SpuriousWake(t) /\ UNCHANGED <<list, owner, queueCallers, pc>>

-----------------------------------------------------------------------------
QueueAllDone == \A t \in Thread : /\ pc[t] = "idle"
                                  /\ calls[t].push = 0
                                  /\ calls[t].pull = 0

\* The nodes that the loop of queue_destroy frees, in its order.
Chain == LET from[n \in Node \cup {NULL}] ==
               IF n = NULL THEN <<>> ELSE <<n>> \o from[next[n]]
         IN  from[head]

\* queue_destroy: its caller must know that nobody uses the queue any more.
Destroy == /\ QueueAllDone /\ ~destroyed
           /\ destroyed' = TRUE
           /\ head' = NULL
           /\ live' = live \ {Chain[i] : i \in DOMAIN Chain}
           /\ UNCHANGED <<tail, size, max_size, next, data, monitor, queueCallers, pc>>

QueueStep(t) == \/ EnterPush(t) \/ PushWaits(t) \/ PushGoesOn(t) \/ PushResumes(t)
                \/ EnterPull(t) \/ PullWaits(t) \/ PullGoesOn(t) \/ PullResumes(t)
                \/ Link(t) \/ Unlink(t) \/ QueueLeave(t)
                \/ CallPush(t) \/ CallPull(t)

QueueNext == (\E t \in Thread : QueueStep(t) \/ QueueWake(t)) \/ Destroy

QueueSpec == QueueInit /\ [][QueueNext]_queueVars

\* Every thread keeps running, and the queue's user destroys it in the end; the
\* system may or may not wake a thread spuriously.
QueueFairSpec == /\ QueueSpec /\ WF_queueVars(Destroy)
                 /\ \A t \in Thread : WF_queueVars(QueueStep(t))

-----------------------------------------------------------------------------
QueuePC == {"idle", "push", "push_test", "push_sleep", "push_link", "pull",
            "pull_test", "pull_sleep", "pull_unlink", "unlock"}

\* Types of the struct, the nodes, the monitor and the callers' state.
QueueTypeOK == /\ MonitorTypeOK
               /\ head \in Node \cup {NULL} /\ tail \in Node \cup {NULL}
               /\ next \in [Node -> Node \cup {NULL}]
               /\ data \in [Node -> Value \cup {NULL}]
               /\ size \in Nat /\ max_size \in Int /\ live \subseteq Node
               /\ destroyed \in BOOLEAN
               /\ item \in [Thread -> Value \cup {NULL}]
               /\ calls \in [Thread -> [push : Nat, pull : Nat]]
               /\ pc \in [Thread -> QueuePC]

\* Sequence s of nodes is the list that head, tail and the next fields spell.
Spells(s) ==
  /\ s \in [1..size -> Node]
  /\ \A i, j \in 1..size : s[i] = s[j] => i = j
  /\ live = {s[i] : i \in 1..size}
  /\ head = IF size = 0 THEN NULL ELSE s[1]
  /\ tail = IF size = 0 THEN NULL ELSE s[size]
  /\ \A i \in 1..size : next[s[i]] = IF i = size THEN NULL ELSE s[i + 1]

\* Until queue_destroy, size, head, tail and the next fields agree on one
\* acyclic list that holds exactly the nodes malloc'ed and not yet freed: no
\* node leaks, none is used after free, and a pull that empties the list
\* resets the tail that the next push looks at.
ListOK == ~destroyed => \E s \in [1..size -> Node] : Spells(s)

\* Whatever the order in which waiting threads retake the mutex, a bounded
\* queue never holds more than max_size items: the while test is repeated
\* after every wake-up.
Capacity == max_size > 0 => size <= max_size

\* No wake-up is lost: a thread asleep with nobody awake to broadcast later
\* is one that really cannot be served (every wait test still holds).
NoLostWakeup ==
  \A t \in asleep : /\ pc[t] = "push_sleep" => Full
                    /\ pc[t] = "pull_sleep" => Empty

\* Provided that spurious wake-ups stop, every call of a workload that can
\* be served is served, although one condition variable carries both kinds
\* of waiters, and queue_destroy then frees every node that is left.
QueueServed ==
  (<>[][\A t \in Thread : ~QueueWake(t)]_queueVars)
     => <>(QueueAllDone /\ destroyed /\ live = {})

-----------------------------------------------------------------------------
Contents == [i \in 1..Len(Chain) |-> data[Chain[i]]]

Fifo == INSTANCE BoundedFifo WITH fifo <- Contents, closed <- destroyed

\* The list implements the abstract bounded queue: pulls return the pushed
\* values, in the order of the links, each exactly once.
FifoSpec == Fifo!Spec
=============================================================================
