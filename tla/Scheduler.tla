------------------------------- MODULE Scheduler -------------------------------
(***************************************************************************)
(* savvy_scheduler/libscheduler.c, driven as its tests drive it: at every  *)
(* instant the jobs that arrive are announced, a job that has run for its  *)
(* whole running time is reported as finished, and then the quantum        *)
(* expires: whatever scheduler_quantum_expired returns runs for one unit   *)
(* of time.  The priority queue is a library: poll returns the smallest    *)
(* job by the scheme's comparer, of equal ones that offered first.         *)
(***************************************************************************)
EXTENDS Integers, Sequences, SequencesExt, FiniteSetsExt

CONSTANTS Schemes,      \* out of FCFS, SJF, PRI, PPRI, PSRTF, RR
          Job,
          Workloads     \* functions from jobs to [arrival, running_time, priority]

ASSUME WorkloadsAssumption ==
  \A w \in Workloads : \A j \in Job : /\ w[j].arrival \in Nat /\ w[j].priority \in Int
                                      /\ w[j].running_time \in Nat \ {0}

VARIABLES pqueue_scheme,
          pqueue,       \* the jobs offered, in that order
          info,         \* per job: its job_info
          count, total_waiting, total_turnaround, total_response,
          time, workload,
          running,      \* the job that runs, as a set of at most one
          finished,
          first,        \* history: when each job first ran
          ran, waited,  \* history: for how long it ran, and was in the queue
          passed        \* history: [j][k] turns of k since j last ran

totals        == <<total_waiting, total_turnaround, total_response>>
history       == <<first, ran, waited, passed>>
schedulerVars == <<pqueue_scheme, pqueue, info, count, totals, time, workload,
                   running, finished, history>>

NoInfo == [arrival |-> 0, priority |-> 0, start_time |-> -1,
           running_time |-> 0, remaining_time |-> 0, rr_time |-> -1]

SchedulerInit == /\ pqueue_scheme \in Schemes /\ pqueue = <<>>
                 /\ info = [j \in Job |-> NoInfo]
                 /\ count = 0
                 /\ total_waiting = 0 /\ total_turnaround = 0 /\ total_response = 0
                 /\ time = 0
                 /\ workload \in Workloads
                 /\ running = {} /\ finished = {}
                 /\ first = [j \in Job |-> -1]
                 /\ ran = [j \in Job |-> 0] /\ waited = [j \in Job |-> 0]
                 /\ passed = [j \in Job |-> [k \in Job |-> 0]]

\* The comparers: what jobs are ordered by, before break_tie looks at arrival.
Key(i) == CASE pqueue_scheme = "FCFS"            -> 0
            [] pqueue_scheme = "SJF"             -> i.running_time
            [] pqueue_scheme \in {"PRI", "PPRI"} -> i.priority
            [] pqueue_scheme = "PSRTF"           -> i.remaining_time
            [] pqueue_scheme = "RR"              -> i.rr_time

Precedes(i, k) == \/ Key(i) < Key(k)
                  \/ Key(i) = Key(k) /\ i.arrival < k.arrival

\* priqueue_poll: as a set, which is empty when the queue is.
Poll(queue, inf) ==
  LET best(n) ==
        /\ \A m \in DOMAIN queue : ~Precedes(inf[queue[m]], inf[queue[n]])
        /\ \A m \in 1..(n-1) : Precedes(inf[queue[n]], inf[queue[m]])
  IN  { queue[n] : n \in { m \in DOMAIN queue : best(m) } }

-----------------------------------------------------------------------------
Arriving == { j \in Job : workload[j].arrival = time
                          /\ j \notin ToSet(pqueue) \cup running \cup finished }

NewJob(j) ==
  /\ j \in Arriving
  /\ info' = [info EXCEPT ![j] =
                [arrival |-> time, priority |-> workload[j].priority, start_time |-> -1,
                 running_time |-> workload[j].running_time,
                 remaining_time |-> workload[j].running_time, rr_time |-> -1]]
  /\ pqueue' = Append(pqueue, j)
  /\ count' = count + 1
  /\ UNCHANGED <<pqueue_scheme, totals, time, workload, running, finished, history>>

Complete == { j \in running : ran[j] = workload[j].running_time }

JobFinished(j) ==
  /\ j \in Complete
  /\ total_turnaround' = total_turnaround + time - info[j].arrival
  /\ total_waiting' = total_waiting + time - info[j].arrival - info[j].running_time
  /\ total_response' = total_response + info[j].start_time - info[j].arrival
  /\ running' = {} /\ finished' = finished \cup {j}
  /\ UNCHANGED <<pqueue_scheme, pqueue, info, count, time, workload, history>>

\* Fault: start_time is set at every quantum.
ExpiredAlwaysStarts(i) == [i EXCEPT !.remaining_time = @ - (time - i.start_time),
                                    !.rr_time = time, !.start_time = time - 1]

\* Fault: rr_time is left alone.
ExpiredKeepsTurn(i) ==
  [i EXCEPT !.remaining_time = @ - (time - i.start_time),
            !.start_time = IF @ = -1 THEN time - 1 ELSE @]

\* The job_info of an evicted job.  start_time still has its old value when
\* remaining_time is reduced: -1 the first time.
Expired(i) == [i EXCEPT !.remaining_time = @ - (time - i.start_time),
                        !.rr_time = time,
                        !.start_time = IF @ = -1 THEN time - 1 ELSE @]

Preemptive == pqueue_scheme \in {"PPRI", "PSRTF", "RR"}

\* The job that is polled leaves the queue; one that goes on running is not in it.
Polled(queue, next) == IF next \cap ToSet(queue) = {} THEN queue
                       ELSE RemoveFirst(queue, CHOOSE j \in next : TRUE)

\* The job in next, if any, runs until the next instant.
Run(next, queue) ==
  /\ running' = next
  /\ pqueue' = Polled(queue, next)
  /\ time' = time + 1
  /\ first' = [j \in Job |-> IF j \in next /\ ran[j] = 0 THEN time ELSE first[j]]
  /\ ran' = [j \in Job |-> IF j \in next THEN ran[j] + 1 ELSE ran[j]]
  /\ waited' = [j \in Job |-> IF j \in ToSet(queue) \ next THEN waited[j] + 1
                              ELSE waited[j]]
  /\ passed' = [j \in Job |-> [k \in Job |->
                  IF j \in next \/ j \notin ToSet(queue) THEN 0
                  ELSE IF k \in next THEN passed[j][k] + 1 ELSE passed[j][k]]]

QuantumExpired ==
  /\ Arriving = {} /\ Complete = {} /\ finished # Job
  /\ info' = [j \in Job |-> IF j \in running THEN Expired(info[j]) ELSE info[j]]
  /\ LET queue == IF Preemptive THEN pqueue \o SetToSeq(running) ELSE pqueue
     IN  Run(IF running = {} \/ Preemptive THEN Poll(queue, info') ELSE running, queue)
  /\ UNCHANGED <<pqueue_scheme, count, totals, workload, finished>>

SchedulerNext == \/ \E j \in Job : NewJob(j) \/ JobFinished(j)
                 \/ QuantumExpired

SchedulerSpec == SchedulerInit /\ [][SchedulerNext]_schedulerVars

-----------------------------------------------------------------------------
Sum(f, S) == MapThenSumSet(LAMBDA j : f[j], S)

\* Through evictions, arrivals and idle times the sums agree with what really
\* happened to the finished jobs: how long each was in the queue, and when it
\* first ran.  A job that ends with its first quantum counts as started at -1.
StatisticsExact ==
  LET arrival  == [j \in Job |-> workload[j].arrival]
      started  == [j \in Job |-> IF ran[j] = 1 THEN -1 ELSE first[j]]
  IN  /\ total_waiting = Sum(waited, finished)
      /\ total_turnaround = Sum(waited, finished) + Sum(ran, finished)
      /\ total_response = Sum(started, finished) - Sum(arrival, finished)

\* FCFS, SJF and PRI never set aside a job that has begun.  With PPRI no job
\* that was there when the quantum began has precedence over the one that runs.
\* With RR nobody gets a second turn while a job waits for its next one, and a
\* new job does not wait for its first turn while others get their second.
SchemeKept ==
  LET waiting == ToSet(pqueue) IN
  /\ ~Preemptive => \A j \in waiting : ran[j] = 0
  /\ pqueue_scheme = "PPRI" =>
        \A j \in waiting, k \in running :
           info[j].arrival < time => ~Precedes(info[j], info[k])
  /\ pqueue_scheme = "RR" => \A j \in waiting, k \in Job : passed[j][k] <= 1

\* A comment of the tests on a job of 10 that has run for 1: "now job1 has
\* remaining_time (updated to) 9".
RemainingExact == \A j \in ToSet(pqueue) :
                     info[j].remaining_time = info[j].running_time - ran[j]
=============================================================================
