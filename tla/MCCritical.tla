------------------------------ MODULE MCCritical ------------------------------
(* The queue, the semaphore and the barrier of critical_concurrency, side by *)
(* side: in every behaviour four threads share one of them, with the mutex   *)
(* and the condition variable in it, and the others stay where they start.   *)
EXTENDS Queue, Semamore, Barrier

CONSTANTS t1, t2, t3, t4

Pushes(n) == [push |-> n, pull |-> 0]
Pulls(n)  == [push |-> 0, pull |-> n]
MCIdle    == [t \in Thread |-> Pushes(0)]

\* Producers against consumers; each workload can be served whatever the order,
\* and leaves at most one item.
MCQueueWorkloads ==
  { MCIdle, [MCIdle EXCEPT ![t1] = Pushes(2), ![t2] = Pushes(1),
                           ![t3] = Pulls(1),  ![t4] = Pulls(1)],
            [MCIdle EXCEPT ![t1] = Pushes(2), ![t2] = Pushes(2), ![t3] = Pulls(3)] }

Requests(waits, posts) == [wait |-> waits, post |-> posts]
MCNone                 == [t \in Thread |-> Requests(0, 0)]

\* Two waiters against two posters, with as many waits as posts.
MCSemmWorkloads ==
  { MCNone, [MCNone EXCEPT ![t1] = Requests(2, 0), ![t2] = Requests(1, 0),
                           ![t3] = Requests(0, 2), ![t4] = Requests(0, 1)] }

\* Empty, in between and full, with room for one unit or for two.
MCSemaphores == { s \in (0..2) \X (1..2) : s[1] <= s[2] }

VARIABLE system

\* The mutex and the condition variable are those of the system that runs.
Init == /\ system \in {"queue", "semamore", "barrier"}
        /\ QueueInit /\ SemmInit /\ BarrierInit
        /\ system # "queue"    => max_size = 0 /\ calls = MCIdle
        /\ system # "semamore" => value = 0 /\ max_val = 1 /\ requests = MCNone

queueOnly   == <<list, queueCallers>>
semmOnly    == <<sem, semmCallers>>
barrierOnly == <<barrier, barrierHistory>>

allVars == <<owner, asleep, pc, queueOnly, semmOnly, barrierOnly, system>>

\* The step of the system that runs.
Queues(step)   == system = "queue" /\ step /\ UNCHANGED <<semmOnly, barrierOnly, system>>
Semms(step)    == system = "semamore" /\ step /\ UNCHANGED <<queueOnly, barrierOnly, system>>
Barriers(step) == system = "barrier" /\ step /\ UNCHANGED <<queueOnly, semmOnly, system>>

Next == Queues(QueueNext) \/ Semms(SemmNext) \/ Barriers(BarrierNext)

Spec == Init /\ [][Next]_allVars

\* As QueueFairSpec, SemmFairSpec and BarrierFairSpec say: one of them runs.
FairSpec == /\ Spec /\ WF_allVars(Queues(Destroy))
            /\ \A t \in Thread : WF_allVars(\/ Queues(QueueStep(t))
                                            \/ Semms(SemmStep(t))
                                            \/ Barriers(BarrierStep(t)))

QueueCompletes   == system = "queue" => QueueServed
SemmCompletes    == system = "semamore" => SemmServed
BarrierCompletes == system = "barrier" => NobodyLeftBehind
=============================================================================
