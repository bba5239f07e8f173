---------------------------- MODULE LibrariesProofs ----------------------------
(***************************************************************************)
(* What is proved of systems that one caller drives:                       *)
(*   - shell/shell.c, for any processes, lines and histories: how it ends; *)
(*   - savvy_scheduler/libscheduler.c, for any jobs and times: the order   *)
(*     of each scheme, and its statistics;                                 *)
(*   - finding_filesystems/minixfs.c, for any disk, names and lengths:     *)
(*     what is read of a file is what was written to it;                   *)
(*   - malloc/alloc.c, for all sizes of headers, marks and requests: the   *)
(*     bookkeeping of the heap, and that it is an allocator.               *)
(***************************************************************************)
EXTENDS Shell, Scheduler, Heap, Minixfs, SequenceLemmas

-----------------------------------------------------------------------------
(* The shell. *)

States == {"none", "born", "writing", "running", "ok", "failed", "killed"}

\* A process that the shell has forked and not yet reaped or killed is in
\* vec_information, which ps rewrites and processes_kill goes through; only
\* between fork and write_information it is not.
AllListed == pc \notin {"crashed", "killed"} =>
                Alive \subseteq listed \cup (IF pc = "forked" THEN {child} ELSE {})

\* Nobody is left once processes_kill has run, so nobody writes the history
\* file after shell_destroy.
NobodyLeft == pc \in {"destroy", "exited"} => Alive = {}
Saved      == pc = "exited" /\ saves => file = history_command

IInv == /\ proc \in [Process -> States]
        /\ AllListed /\ NobodyLeft /\ Saved

\* shell_init: no process yet.
LEMMA InitOK == ShellInit => IInv
  BY DEF ShellInit, States, IInv, AllListed, NobodyLeft, Saved, Alive

\* While the shell works on a line, a step that starts no process and leaves the
\* list alone keeps the invariant: at most processes end, are reaped or killed.
LEMMA WorkStep ==
  ASSUME IInv, pc \notin {"destroy", "exited", "forked"}, pc' \notin {"destroy", "exited"},
         UNCHANGED listed, Alive' \subseteq Alive,
         pc \in {"crashed", "killed"} => pc' \in {"crashed", "killed"},
         proc' \in [Process -> States]
  PROVE  IInv'
  BY DEF IInv, AllListed, NobodyLeft, Saved

\* The steps of command_exec and of the prompt that concern no process.
LEMMA CommandStep ==
  ASSUME IInv,
         \/ EndOfInput \/ LineDone \/ Open \/ OpenFails \/ Keep \/ Store \/ Forget
         \/ Skip \/ Cd \/ Nothing \/ Exit \/ NoMatch \/ ShellCrashes \/ ForkFails
         \/ \E i \in DOMAIN history_command : Recall(i)
         \/ BuildForeP \/ Built \/ FreeForeground \/ Freed
  PROVE  IInv'
<1>1. /\ pc \notin {"destroy", "exited", "forked", "crashed", "killed"}
      /\ pc' \notin {"destroy", "exited"}
      /\ UNCHANGED <<listed, proc>>
  BY DEF EndOfInput, LineDone, Open, OpenFails, Keep, Store, Forget, Skip, Cd,
     Nothing, Exit, NoMatch, ShellCrashes, ForkFails, Recall, BuildForeP, Built,
     FreeForeground, Freed, At, Rest, Runs, Chosen, tracked, children
<1>2. Alive' = Alive
  BY <1>1 DEF Alive
<1> QED
  BY <1>1, <1>2, WorkStep DEF IInv

\* The shell reaps zombies at the prompt, with WNOHANG and in waitpid.
LEMMA ReapStep ==
  ASSUME IInv, (\E l \in Lines : ReadLine(l)) \/ LeaveRunning \/ Wait
  PROVE  IInv'
<1>1. /\ pc \notin {"destroy", "exited", "forked", "crashed", "killed"}
      /\ pc' \notin {"destroy", "exited"}
      /\ UNCHANGED listed
  BY DEF ReadLine, LeaveRunning, Wait, tracked
<1>2. \E P \in SUBSET Process : proc' = Reaped(P)
  <2>1. ASSUME NEW l \in Lines, ReadLine(l) PROVE \E P \in SUBSET Process : proc' = Reaped(P)
    BY <2>1 DEF ReadLine, Zombie
  <2>2. CASE LeaveRunning
    <3>1. {child} \cap Zombie \in SUBSET Process
      BY DEF Zombie
    <3> QED
      BY <2>2, <3>1 DEF LeaveRunning
  <2>3. CASE Wait
    BY <2>3 DEF Wait, Zombie
  <2> QED
    BY <2>1, <2>2, <2>3
<1>3. /\ Alive' \subseteq Alive
      /\ proc' \in [Process -> States]
  BY <1>2 DEF Alive, Reaped, States, IInv
<1> QED
  BY <1>1, <1>3, WorkStep

\* ps drops from the list those that /proc does not know any more.
LEMMA PsStep ==
  ASSUME IInv, Ps
  PROVE  IInv'
<1> USE DEF Ps, Runs, Chosen, At, children, RewriteInformation
<1>1. pc = "exec" /\ pc' = pc /\ Alive' = Alive
  BY DEF Alive
<1>2. Alive \cap listed \subseteq listed'
  BY DEF Alive
<1> QED
  BY <1>1, <1>2 DEF IInv, AllListed, NobodyLeft, Saved

\* From fork to write_information the child is the one that is not listed.
LEMMA ForkStep ==
  ASSUME IInv, (\E p \in Process : Fork(p)) \/ WriteInformation
  PROVE  IInv'
<1>1. CASE WriteInformation
  <2>1. Alive' = Alive /\ UNCHANGED proc
    BY <1>1 DEF WriteInformation, Alive, children
  <2> QED
    BY <1>1, <2>1 DEF WriteInformation, IInv, AllListed, NobodyLeft, Saved
<1>2. ASSUME NEW p \in Process, Fork(p) PROVE IInv'
  <2>1. Alive' = Alive \cup {p}
    BY <1>2 DEF Fork, Alive, States, IInv
  <2>2. pc = "exec" /\ pc' = "forked" /\ child' = p /\ UNCHANGED listed
    BY <1>2 DEF Fork, Runs, Chosen, At
  <2>3. proc' \in [Process -> States]
    BY <1>2 DEF Fork, States, IInv
  <2> QED
    BY <2>1, <2>2, <2>3 DEF IInv, AllListed, NobodyLeft, Saved
<1> QED
  BY <1>1, <1>2

\* A SIGINT to the shell kills at most, and may crash it.
LEMMA InterruptStep ==
  ASSUME IInv, Interrupt
  PROVE  IInv'
<1>1. \E P \in SUBSET Process : proc' = Killed(P)
  <2>1. CASE pc \in {"building", "freeing"}
    BY <2>1 DEF Interrupt
  <2>2. CASE pc \notin {"building", "freeing"}
    <3>1. proc' = Killed({p \in {new_fore_p} : proc[p] = "running"})
      BY <2>2 DEF Interrupt
    <3>2. Killed({p \in {new_fore_p} : proc[p] = "running"})
             = Killed({p \in {new_fore_p} \cap Process : proc[p] = "running"})
      BY DEF Killed
    <3> QED
      BY <3>1, <3>2
  <2> QED
    BY <2>1, <2>2
<1>2. /\ Alive' \subseteq Alive
      /\ proc' \in [Process -> States]
  BY <1>1 DEF Alive, Killed, States, IInv
<1>3. /\ pc' \in {pc, "crashed"} /\ pc # "exited"
      /\ UNCHANGED <<listed, child>>
  BY DEF Interrupt, Up
<1> QED
  BY <1>2, <1>3 DEF IInv, AllListed, NobodyLeft, Saved

-----------------------------------------------------------------------------
\* processes_kill reaches everyone.
LEMMA ProcessesKillStep ==
  ASSUME IInv, ProcessesKill
  PROVE  IInv'
<1>1. Alive \subseteq listed
  BY DEF ProcessesKill, IInv, AllListed
<1>2. /\ Alive' = {}
      /\ proc' \in [Process -> States]
  BY <1>1 DEF ProcessesKill, Alive, Killed, States, IInv
<1> QED
  BY <1>2 DEF ProcessesKill, IInv, AllListed, NobodyLeft, Saved

\* shell_destroy writes the history while nobody else lives.
LEMMA ShellDestroyStep ==
  ASSUME IInv, ShellDestroy
  PROVE  IInv'
<1>1. Alive' = Alive /\ Alive = {}
  BY DEF ShellDestroy, children, Alive, IInv, NobodyLeft
<1> QED
  BY <1>1 DEF ShellDestroy, children, remembered, Written, IInv, AllListed, NobodyLeft, Saved

\* A child that is alive, or dies: whatever it does, it does not start another
\* one.  It may kill the shell.
LEMMA ChildStep ==
  ASSUME IInv, NEW p \in Process,
         \/ Exec(p) \/ ExecFails(p) \/ SetpgidFails(p) \/ WriteCopy(p) \/ Ends(p)
  PROVE  IInv'
<1> USE DEF Exec, ExecFails, SetpgidFails, WriteCopy, Ends
<1>1. p \in Alive
  BY DEF Alive
<1>2. pc \notin {"destroy", "exited"}
  BY <1>1 DEF IInv, NobodyLeft
<1>3. /\ Alive' \subseteq Alive
      /\ proc' \in [Process -> States]
  BY <1>1 DEF Alive, Killed, States, IInv
<1>4. pc' \in {pc, "killed"} /\ UNCHANGED <<listed, child>>
  BY DEF tracked
<1> QED
  BY <1>2, <1>3, <1>4 DEF IInv, AllListed, NobodyLeft, Saved, Up

\* Every step of the shell and its children keeps the invariant.
LEMMA InductiveStep ==
  ASSUME IInv, [ShellNext]_shellVars
  PROVE  IInv'
<1>1. CASE ShellNext
  BY <1>1, CommandStep, ReapStep, PsStep, ForkStep, InterruptStep,
     ProcessesKillStep, ShellDestroyStep, ChildStep DEF ShellNext
<1>2. CASE UNCHANGED shellVars
  BY <1>2 DEF shellVars, command, remembered, tracked, children, disk, IInv,
     AllListed, NobodyLeft, Saved, Alive
<1> QED
  BY <1>1, <1>2

\* The invariant holds in every state of every behaviour.
LEMMA Inductive == ShellSpec => []IInv
  BY InitOK, InductiveStep, PTL DEF ShellSpec

\* When the shell has ended, no process that it started is left, and with -h
\* the history file holds what the shell remembers.
THEOREM ShellEndsClean == ShellSpec => []EndsClean
<1>1. IInv => EndsClean
  BY DEF IInv, NobodyLeft, Saved, EndsClean
<1> QED
  BY Inductive, <1>1, PTL
-----------------------------------------------------------------------------
(* The scheduler. *)

\* The jobs that are in the queue.
Queued == ToSet(pqueue)

\* A job_info.
JobInfo == [arrival : Int, priority : Int, start_time : Int,
            running_time : Int, remaining_time : Int, rr_time : Int]

\* A job is in one place; one runs at most.  Of what the comparers look at,
\* these are numbers.
JobsOK == /\ pqueue \in Seq(Job) /\ IsInjective(pqueue)
          /\ running \subseteq Job /\ finished \subseteq Job
          /\ Queued \cap running = {} /\ Queued \cap finished = {} /\ running \cap finished = {}
          /\ \A j, k \in running : j = k
          /\ time \in Nat /\ workload \in Workloads
          /\ info \in [Job -> JobInfo]
          /\ ran \in [Job -> Nat] /\ passed \in [Job -> [Job -> Nat]]

\* Without preemption a job begins once.
NoneBegun == ~Preemptive => \A j \in Job \ (running \cup finished) : ran[j] = 0

\* The job that runs was polled when all others that were there were queued.
PriorityKept == pqueue_scheme = "PPRI" =>
                  \A j \in Queued, k \in running :
                     info[j].arrival < time => ~Precedes(info[j], info[k])

\* A job that another one waits for a second time to pass has been evicted
\* later, and so does not come before it.
TurnsKept == pqueue_scheme = "RR" =>
   /\ \A j \in Job \ Queued, k \in Job : passed[j][k] = 0
   /\ \A j \in Queued : info[j].rr_time < time
   /\ \A j \in Queued, k \in Job : passed[j][k] # 0 =>
         /\ passed[j][k] = 1
         /\ k \in Queued \cup running \cup finished
         /\ k \in Queued => info[j].rr_time < info[k].rr_time

SchedulerInv == JobsOK /\ NoneBegun /\ PriorityKept /\ TurnsKept

-----------------------------------------------------------------------------
\* poll returns one job at most, and none of the others comes before it.
LEMMA PollIs ==
  ASSUME NEW queue \in Seq(Job), NEW inf, NEW x \in Poll(queue, inf)
  PROVE  /\ x \in ToSet(queue) /\ \A y \in ToSet(queue) : ~Precedes(inf[y], inf[x])
         /\ \A y \in Poll(queue, inf) : x = y
<1>. DEFINE best(n) ==
        /\ \A m \in DOMAIN queue : ~Precedes(inf[queue[m]], inf[queue[n]])
        /\ \A m \in 1..(n-1) : Precedes(inf[queue[n]], inf[queue[m]])
<1>1. Poll(queue, inf) = { queue[n] : n \in { m \in DOMAIN queue : best(m) } }
  BY DEF Poll
<1>2. DOMAIN queue = 1..Len(queue) /\ Len(queue) \in Nat
  OBVIOUS
<1>3. PICK n \in DOMAIN queue : best(n) /\ x = queue[n]
  BY <1>1
<1>4. x \in ToSet(queue) /\ \A y \in ToSet(queue) : ~Precedes(inf[y], inf[x])
  BY <1>3 DEF ToSet
<1>5. ASSUME NEW y \in Poll(queue, inf)  PROVE x = y
  <2>1. PICK m \in DOMAIN queue : best(m) /\ y = queue[m]
    BY <1>1
  <2>2. ~(m < n)
    <3>1. m < n => m \in 1..(n - 1)
      BY <1>2
    <3>. QED
      BY <1>3, <2>1, <3>1
  <2>3. ~(n < m)
    <3>1. n < m => n \in 1..(m - 1)
      BY <1>2
    <3>. QED
      BY <1>3, <2>1, <3>1
  <2>4. n = m
    BY <1>2, <2>2, <2>3
  <2>. QED
    BY <1>3, <2>1, <2>4
<1>. QED
  BY <1>4, <1>5

\* What is left of the queue is what is not polled.
LEMMA PolledIs ==
  ASSUME NEW queue \in Seq(Job), IsInjective(queue), NEW next, \A j, k \in next : j = k
  PROVE  /\ Polled(queue, next) \in Seq(Job) /\ IsInjective(Polled(queue, next))
         /\ ToSet(Polled(queue, next)) = ToSet(queue) \ next
<1>1. CASE next \cap ToSet(queue) = {}
  BY <1>1 DEF Polled
<1>2. CASE next \cap ToSet(queue) # {}
  <2>1. PICK x : x \in next /\ x \in ToSet(queue)
    BY <1>2
  <2>2. next = {x} /\ (CHOOSE j \in next : TRUE) = x
    BY <2>1
  <2>3. Polled(queue, next) = RemoveFirst(queue, x)
    BY <1>2, <2>2 DEF Polled
  <2>4. PICK r : r = RemoveFirst(queue, x)
    OBVIOUS
  <2>5. /\ r \in Seq(Job) /\ IsInjective(r) /\ x \notin ToSet(r)
        /\ ToSet(queue) \ {x} \subseteq ToSet(r) /\ ToSet(r) \subseteq ToSet(queue)
    BY <2>1, <2>4, RemoveFirstElements
  <2>6. ToSet(r) = ToSet(queue) \ next
    BY <2>2, <2>5
  <2>. QED
    BY <2>3, <2>4, <2>5, <2>6
<1>. QED
  BY <1>1, <1>2

\* The evicted job is offered behind the others.
LEMMA OfferedIs ==
  ASSUME JobsOK
  PROVE  /\ pqueue \o SetToSeq(running) \in Seq(Job) /\ IsInjective(pqueue \o SetToSeq(running))
         /\ ToSet(pqueue \o SetToSeq(running)) = Queued \cup running
<1>1. pqueue \in Seq(Job) /\ IsInjective(pqueue)
  BY DEF JobsOK
<1>2. CASE running = {}
  <2>1. pqueue \o SetToSeq(running) = pqueue
    BY <1>1, <1>2, SetToSeqNone, ConcatEmptySeq
  <2>. QED
    BY <1>1, <1>2, <2>1 DEF Queued
<1>3. CASE running # {}
  <2>1. PICK x \in running : x \in Job
    BY <1>3 DEF JobsOK
  <2>2. running = {x} /\ x \notin ToSet(pqueue)
    BY <2>1 DEF JobsOK, Queued
  <2>3. SetToSeq(running) = <<x>>
    BY <2>2, SetToSeqOne
  <2>4. pqueue \o SetToSeq(running) = Append(pqueue, x)
    BY <1>1, <2>1, <2>3, AppendIsConcat
  <2>5. /\ Append(pqueue, x) \in Seq(Job) /\ IsInjective(Append(pqueue, x))
        /\ ToSet(Append(pqueue, x)) = ToSet(pqueue) \cup {x}
    BY <1>1, <2>1, <2>2, AppendElements
  <2>. QED
    BY <2>2, <2>4, <2>5 DEF Queued
<1>. QED
  BY <1>2, <1>3

\* What the queue and the job that runs are after a quantum.
LEMMA QuantumIs ==
  ASSUME JobsOK, QuantumExpired
  PROVE  /\ pqueue' \in Seq(Job) /\ IsInjective(pqueue')
         /\ \A j : j \in Queued' \cup running' <=> j \in Queued \cup running
         /\ Queued' \cap running' = {} /\ \A j, k \in running' : j = k
         /\ ~Preemptive => running \subseteq running'
         /\ ~Preemptive /\ running # {} => running' = running
         /\ Preemptive => \A k \in running', j \in Queued' : ~Precedes(info'[j], info'[k])
         /\ passed' = [j \in Job |-> [k \in Job |->
                  IF j \notin Queued' THEN 0
                  ELSE IF k \in running' THEN passed[j][k] + 1 ELSE passed[j][k]]]
<1>. DEFINE queue == IF Preemptive THEN pqueue \o SetToSeq(running) ELSE pqueue
            next  == IF running = {} \/ Preemptive THEN Poll(queue, info') ELSE running
<1>1. Run(next, queue)
  BY DEF QuantumExpired
<1>2. /\ queue \in Seq(Job) /\ IsInjective(queue)
      /\ ToSet(queue) = Queued \cup (IF Preemptive THEN running ELSE {})
  BY OfferedIs DEF JobsOK, Queued
<1>. HIDE DEF queue
<1>3. /\ \A j, k \in next : j = k
      /\ running # {} /\ ~Preemptive => next = running
      /\ Preemptive => \A k \in next, j \in ToSet(queue) : ~Precedes(info'[j], info'[k])
      /\ next \subseteq Queued \cup running
  <2>1. CASE running = {} \/ Preemptive
    BY <1>2, <2>1, PollIs
  <2>2. CASE running # {} /\ ~Preemptive
    BY <2>2 DEF JobsOK
  <2>. QED
    BY <2>1, <2>2
<1>. HIDE DEF next
<1>4. running' = next /\ pqueue' = Polled(queue, next)
  BY <1>1 DEF Run
<1>5. /\ pqueue' \in Seq(Job) /\ IsInjective(pqueue')
      /\ ToSet(pqueue') = ToSet(queue) \ next
  BY <1>2, <1>3, <1>4, PolledIs
<1>6. Queued' = ToSet(queue) \ running'
  BY <1>4, <1>5 DEF Queued
<1>7. \A j : j \in Queued' \cup running' <=> j \in Queued \cup running
  BY <1>2, <1>3, <1>4, <1>6
<1>8. passed' = [j \in Job |-> [k \in Job |->
                  IF j \notin Queued' THEN 0
                  ELSE IF k \in running' THEN passed[j][k] + 1 ELSE passed[j][k]]]
  BY <1>1, <1>4, <1>6 DEF Run
<1>. QED
  BY <1>3, <1>4, <1>5, <1>6, <1>7, <1>8

\* What scheduler_quantum_expired leaves of an evicted job's record.
LEMMA ExpiredIs ==
  ASSUME NEW i \in JobInfo, time \in Nat
  PROVE  Expired(i) \in JobInfo /\ Expired(i).rr_time = time
<1>1. PICK remaining \in Int, start \in Int :
         /\ remaining = i.remaining_time - (time - i.start_time)
         /\ start = IF i.start_time = -1 THEN time - 1 ELSE i.start_time
  BY DEF JobInfo
<1>2. PICK r : r = Expired(i)
  OBVIOUS
<1>3. r = [i EXCEPT !.remaining_time = remaining, !.rr_time = time, !.start_time = start]
  BY <1>1, <1>2 DEF Expired, JobInfo
<1>4. remaining \in Int /\ start \in Int /\ time \in Int
  BY DEF JobInfo
<1>5. r \in JobInfo
  BY <1>3, <1>4 DEF JobInfo
<1>6. r.rr_time = time
  BY <1>3, <1>4 DEF JobInfo
<1>. QED
  BY <1>2, <1>5, <1>6

\* A quantum keeps the types, and sets rr_time of the evicted job only.
LEMMA QuantumJobs ==
  ASSUME JobsOK, QuantumExpired
  PROVE  JobsOK' /\ \A j \in Job : info'[j].rr_time = IF j \in running THEN time ELSE info[j].rr_time
<1>1. info' = [j \in Job |-> IF j \in running THEN Expired(info[j]) ELSE info[j]]
  BY DEF QuantumExpired
<1>2. ASSUME NEW j \in Job
      PROVE  /\ info'[j] \in JobInfo
             /\ info'[j].rr_time = IF j \in running THEN time ELSE info[j].rr_time
  <2>1. info[j] \in JobInfo /\ time \in Nat
    BY DEF JobsOK
  <2>. QED
    BY <1>1, <2>1, ExpiredIs
<1>3. info' \in [Job -> JobInfo]
  BY <1>1, <1>2
<1>4. /\ finished' = finished /\ workload' = workload /\ time' = time + 1
      /\ ran' = [j \in Job |-> IF j \in running' THEN ran[j] + 1 ELSE ran[j]]
  BY DEF QuantumExpired, Run
<1>5. time' \in Nat /\ workload' \in Workloads
  BY <1>4 DEF JobsOK
<1>6. /\ \A j : j \in Queued' \cup running' <=> j \in Queued \cup running
      /\ pqueue' \in Seq(Job) /\ IsInjective(pqueue')
      /\ Queued' \cap running' = {} /\ \A j, k \in running' : j = k
  BY QuantumIs
<1>7. Queued \subseteq Job
  BY DEF JobsOK, Queued, ToSet
<1>8. /\ running' \subseteq Job /\ finished' \subseteq Job
      /\ Queued' \cap finished' = {} /\ running' \cap finished' = {}
  BY <1>4, <1>6, <1>7 DEF JobsOK
<1>9. passed' \in [Job -> [Job -> Nat]]
  <2>1. passed' = [j \in Job |-> [k \in Job |->
                  IF j \notin Queued' THEN 0
                  ELSE IF k \in running' THEN passed[j][k] + 1 ELSE passed[j][k]]]
    BY QuantumIs
  <2>2. passed \in [Job -> [Job -> Nat]]
    BY DEF JobsOK
  <2>. QED
    BY <2>1, <2>2
<1>10. ran' \in [Job -> Nat]
  BY <1>4 DEF JobsOK
<1>. QED
  BY <1>2, <1>3, <1>5, <1>6, <1>8, <1>9, <1>10 DEF JobsOK

\* scheduler_quantum_expired.
LEMMA QuantumStep ==
  ASSUME SchedulerInv, QuantumExpired
  PROVE  SchedulerInv'
<1>1. JobsOK /\ NoneBegun /\ PriorityKept /\ TurnsKept
  BY DEF SchedulerInv
<1>2. JobsOK' /\ \A j \in Job : info'[j].rr_time = IF j \in running THEN time ELSE info[j].rr_time
  BY <1>1, QuantumJobs
<1>3. /\ finished' = finished /\ time' = time + 1 /\ pqueue_scheme' = pqueue_scheme
      /\ ran' = [j \in Job |-> IF j \in running' THEN ran[j] + 1 ELSE ran[j]]
  BY DEF QuantumExpired, Run
<1>4. \A j : j \in Queued' \cup running' <=> j \in Queued \cup running
  BY <1>1, QuantumIs
<1>5. Preemptive' = Preemptive
  BY <1>3 DEF Preemptive
<1>6. NoneBegun'
  <2>1. ~Preemptive => running \subseteq running'
    BY <1>1, QuantumIs
  <2>. QED
    BY <1>1, <1>3, <1>5, <2>1 DEF NoneBegun
<1>7. Preemptive => \A k \in running', j \in Queued' : ~Precedes(info'[j], info'[k])
  BY <1>1, QuantumIs
<1>8. PriorityKept'
  BY <1>3, <1>7 DEF PriorityKept, Preemptive, Precedes, Key
<1>9. TurnsKept'
  <2>. SUFFICES ASSUME pqueue_scheme = "RR"  PROVE TurnsKept'
    BY <1>3 DEF TurnsKept
  <2>1. /\ \A j \in Job \ Queued, k \in Job : passed[j][k] = 0
        /\ \A j \in Queued : info[j].rr_time < time
        /\ \A j \in Queued, k \in Job : passed[j][k] # 0 =>
                /\ passed[j][k] = 1
                /\ k \in Queued \cup running \cup finished
                /\ k \in Queued => info[j].rr_time < info[k].rr_time
    BY <1>1 DEF TurnsKept
  <2>2. passed' = [j \in Job |-> [k \in Job |->
                  IF j \notin Queued' THEN 0
                  ELSE IF k \in running' THEN passed[j][k] + 1 ELSE passed[j][k]]]
    BY <1>1, QuantumIs
  <2>3. Queued' \subseteq Job /\ Queued \subseteq Job /\ running \subseteq Job /\ running' \subseteq Job
    BY <1>1, <1>2 DEF JobsOK, Queued, ToSet
  <2>4. /\ \A j \in Job : info[j].rr_time \in Int /\ info'[j].rr_time \in Int
        /\ time \in Nat /\ \A j, k \in Job : passed[j][k] \in Nat
        /\ Queued \cap running = {} /\ Queued' \cap running' = {}
    <3>1. info \in [Job -> JobInfo] /\ info' \in [Job -> JobInfo]
      BY <1>1, <1>2 DEF JobsOK
    <3>2. \A j \in Job : info[j].rr_time \in Int /\ info'[j].rr_time \in Int
      BY <3>1 DEF JobInfo
    <3>. QED
      BY <1>1, <1>2, <3>2 DEF JobsOK
  <2>5. \A k \in running', j \in Queued' : ~(info'[j].rr_time < info'[k].rr_time)
    BY <1>7 DEF Preemptive, Precedes, Key
  <2>6. \A j \in Job \ Queued', k \in Job : passed'[j][k] = 0
    BY <2>2
  <2>7. \A j \in Queued' : info'[j].rr_time < time'
    BY <1>2, <1>3, <1>4, <2>1, <2>3, <2>4
  <2>8. ASSUME NEW j \in Queued', NEW k \in Job, passed'[j][k] # 0
        PROVE  /\ passed'[j][k] = 1
               /\ k \in Queued' \cup running' \cup finished'
               /\ k \in Queued' => info'[j].rr_time < info'[k].rr_time
    <3>1. j \in Job /\ j \in Queued \cup running
      BY <1>4, <2>3
    <3>2. CASE passed[j][k] = 0
      <4>1. k \in running' /\ passed'[j][k] = 1
        BY <2>2, <2>8, <3>1, <3>2
      <4>. QED
        BY <2>4, <4>1
    <3>3. CASE passed[j][k] # 0
      <4>1. /\ j \in Queued /\ passed[j][k] = 1 /\ k \in Queued \cup running \cup finished
            /\ k \in Queued => info[j].rr_time < info[k].rr_time
        BY <2>1, <3>1, <3>3
      <4>2. j \notin running /\ info'[j].rr_time = info[j].rr_time /\ info[j].rr_time < time
        BY <1>2, <2>1, <2>4, <3>1, <4>1
      <4>3. k \in Queued \cup running => info'[j].rr_time < info'[k].rr_time
        <5>1. CASE k \in running
          BY <1>2, <4>2, <5>1
        <5>2. CASE k \in Queued
          BY <1>2, <2>4, <4>1, <4>2, <5>2
        <5>. QED
          BY <5>1, <5>2
      <4>4. k \notin running'
        BY <1>4, <2>5, <4>3
      <4>5. passed'[j][k] = 1
        BY <2>2, <3>1, <4>1, <4>4
      <4>6. k \in Queued' \cup running' \cup finished'
        BY <1>3, <1>4, <4>1
      <4>7. k \in Queued' => info'[j].rr_time < info'[k].rr_time
        BY <1>4, <4>3
      <4>. QED
        BY <4>5, <4>6, <4>7
    <3>. QED
      BY <3>2, <3>3
  <2>. QED
    BY <2>6, <2>7, <2>8 DEF TurnsKept
<1>. QED
  BY <1>2, <1>6, <1>8, <1>9 DEF SchedulerInv

-----------------------------------------------------------------------------
\* scheduler_new_job.
LEMMA NewJobStep ==
  ASSUME SchedulerInv, NEW j \in Job, NewJob(j)
  PROVE  SchedulerInv'
<1>1. JobsOK /\ NoneBegun /\ PriorityKept /\ TurnsKept
  BY DEF SchedulerInv
<1>2. j \notin Queued /\ j \notin running /\ j \notin finished
  BY DEF NewJob, Arriving, Queued
<1>3. /\ running' = running /\ finished' = finished /\ time' = time /\ workload' = workload
      /\ ran' = ran /\ passed' = passed /\ pqueue_scheme' = pqueue_scheme
      /\ pqueue' = Append(pqueue, j)
  BY DEF NewJob, history
<1>4. /\ pqueue' \in Seq(Job) /\ IsInjective(pqueue') /\ Queued' = Queued \cup {j}
  BY <1>1, <1>2, <1>3, AppendElements DEF JobsOK, Queued
<1>5. /\ info' \in [Job -> JobInfo] /\ info'[j].arrival = time /\ info'[j].rr_time = -1
      /\ \A k \in Job \ {j} : info'[k] = info[k]
  <2>1. PICK priority \in Int, length \in Int :
          priority = workload[j].priority /\ length = workload[j].running_time
    <3>1. workload \in Workloads
      BY <1>1 DEF JobsOK
    <3>2. workload[j].priority \in Int /\ workload[j].running_time \in Nat
      BY <3>1, WorkloadsAssumption
    <3>. QED
      BY <3>2
  <2>. DEFINE i == [arrival |-> time, priority |-> priority, start_time |-> -1,
                    running_time |-> length, remaining_time |-> length, rr_time |-> -1]
  <2>2. i \in JobInfo /\ i.arrival = time /\ i.rr_time = -1
    BY <1>1, <2>1 DEF JobInfo, JobsOK
  <2>3. info' = [info EXCEPT ![j] = i]
    BY <2>1 DEF NewJob
  <2>. HIDE DEF i
  <2>. QED
    BY <1>1, <2>2, <2>3 DEF JobsOK
<1>6. JobsOK'
  BY <1>1, <1>2, <1>3, <1>4, <1>5 DEF JobsOK
<1>7. NoneBegun'
  BY <1>1, <1>3 DEF NoneBegun, Preemptive
<1>8. PriorityKept'
  <2>. SUFFICES ASSUME pqueue_scheme = "PPRI", NEW i \in Queued', NEW k \in running,
                       info'[i].arrival < time
                PROVE  ~Precedes(info'[i], info'[k])
    BY <1>3 DEF PriorityKept, Precedes, Key
  <2>1. i # j
    BY <1>1, <1>5 DEF JobsOK
  <2>2. i \in Queued /\ i \in Job /\ k \in Job /\ k # j
    <3>1. Queued \subseteq Job
      BY <1>1 DEF JobsOK, Queued, ToSet
    <3>. QED
      BY <1>1, <1>2, <1>4, <2>1, <3>1 DEF JobsOK
  <2>3. info'[i] = info[i] /\ info'[k] = info[k]
    BY <1>5, <2>1, <2>2
  <2>. QED
    BY <1>1, <2>2, <2>3 DEF PriorityKept
<1>9. TurnsKept'
  <2>. SUFFICES ASSUME pqueue_scheme = "RR"  PROVE TurnsKept'
    BY <1>3 DEF TurnsKept
  <2>1. /\ \A i \in Job \ Queued, k \in Job : passed[i][k] = 0
        /\ \A i \in Queued : info[i].rr_time < time
        /\ \A i \in Queued, k \in Job : passed[i][k] # 0 =>
                /\ passed[i][k] = 1
                /\ k \in Queued \cup running \cup finished
                /\ k \in Queued => info[i].rr_time < info[k].rr_time
    BY <1>1 DEF TurnsKept
  <2>2. Queued \subseteq Job /\ time \in Nat
    BY <1>1 DEF JobsOK, Queued, ToSet
  <2>3. \A i \in Job \ Queued', k \in Job : passed'[i][k] = 0
    BY <1>3, <1>4, <2>1
  <2>4. \A i \in Queued' : info'[i].rr_time < time'
    BY <1>3, <1>4, <1>5, <2>1, <2>2
  <2>5. ASSUME NEW i \in Queued', NEW k \in Job, passed'[i][k] # 0
        PROVE  /\ passed'[i][k] = 1
               /\ k \in Queued' \cup running' \cup finished'
               /\ k \in Queued' => info'[i].rr_time < info'[k].rr_time
    <3>1. i \in Queued
      BY <1>2, <1>3, <1>4, <2>1, <2>5
    <3>2. /\ passed[i][k] = 1 /\ k \in Queued \cup running \cup finished
          /\ k \in Queued => info[i].rr_time < info[k].rr_time
      BY <1>3, <2>1, <2>5, <3>1
    <3>3. k # j /\ i # j
      BY <1>2, <3>1, <3>2
    <3>. QED
      BY <1>3, <1>4, <1>5, <2>2, <3>1, <3>2, <3>3
  <2>. QED
    BY <2>3, <2>4, <2>5 DEF TurnsKept
<1>. QED
  BY <1>6, <1>7, <1>8, <1>9 DEF SchedulerInv

\* scheduler_job_finished.
LEMMA JobFinishedStep ==
  ASSUME SchedulerInv, NEW j \in Job, JobFinished(j)
  PROVE  SchedulerInv'
<1>1. JobsOK /\ NoneBegun /\ PriorityKept /\ TurnsKept
  BY DEF SchedulerInv
<1>2. /\ j \in running /\ running' = {} /\ finished' = finished \cup {j}
      /\ time' = time /\ workload' = workload /\ info' = info
      /\ ran' = ran /\ passed' = passed /\ pqueue_scheme' = pqueue_scheme
      /\ pqueue' = pqueue /\ Queued' = Queued
  BY DEF JobFinished, Complete, history, Queued
<1>3. running = {j} /\ j \notin Queued
  BY <1>1, <1>2 DEF JobsOK
<1>4. JobsOK'
  BY <1>1, <1>2, <1>3 DEF JobsOK
<1>5. NoneBegun' /\ PriorityKept'
  BY <1>1, <1>2, <1>3 DEF NoneBegun, PriorityKept, Preemptive
<1>6. TurnsKept'
  BY <1>1, <1>2, <1>3 DEF TurnsKept
<1>. QED
  BY <1>4, <1>5, <1>6 DEF SchedulerInv

\* scheduler_start_up.
LEMMA SchedulerStarts == SchedulerInit => SchedulerInv
<1>. SUFFICES ASSUME SchedulerInit  PROVE SchedulerInv
  OBVIOUS
<1>1. /\ pqueue = <<>> /\ running = {} /\ finished = {} /\ time = 0 /\ workload \in Workloads
      /\ ran = [i \in Job |-> 0] /\ passed = [i \in Job |-> [k \in Job |-> 0]]
      /\ info = [i \in Job |-> NoInfo]
  BY DEF SchedulerInit
<1>2. pqueue \in Seq(Job) /\ IsInjective(pqueue) /\ Queued = {}
  BY <1>1 DEF IsInjective, Queued, ToSet
<1>3. NoInfo \in JobInfo
  BY DEF NoInfo, JobInfo
<1>4. JobsOK
  BY <1>1, <1>2, <1>3 DEF JobsOK
<1>5. NoneBegun /\ PriorityKept /\ TurnsKept
  BY <1>1, <1>2 DEF NoneBegun, PriorityKept, TurnsKept
<1>. QED
  BY <1>4, <1>5 DEF SchedulerInv

\* Every step of the scheduler and of its caller keeps the invariant.
LEMMA SchedulerSteps == SchedulerInv /\ [SchedulerNext]_schedulerVars => SchedulerInv'
<1>. SUFFICES ASSUME SchedulerInv, [SchedulerNext]_schedulerVars  PROVE SchedulerInv'
  OBVIOUS
<1>1. CASE UNCHANGED schedulerVars
  <2>1. /\ pqueue' = pqueue /\ running' = running /\ finished' = finished /\ time' = time
        /\ workload' = workload /\ info' = info /\ ran' = ran /\ passed' = passed
        /\ pqueue_scheme' = pqueue_scheme
    BY <1>1 DEF schedulerVars, history
  <2>. QED
    BY <2>1 DEF SchedulerInv, JobsOK, NoneBegun, PriorityKept, TurnsKept, Queued,
       Preemptive, Precedes, Key
<1>. QED
  BY <1>1, NewJobStep, JobFinishedStep, QuantumStep DEF SchedulerNext

\* The jobs run in the order of the scheme, for any jobs, arrivals, priorities
\* and running times: without preemption a job that has begun is not set aside,
\* the priority of the one that runs is not exceeded, and with round robin
\* nobody waits while another job runs twice.
THEOREM SchedulerKeepsScheme == SchedulerSpec => []SchemeKept
<1>1. SchedulerInv => SchemeKept
  <2>. SUFFICES ASSUME SchedulerInv  PROVE SchemeKept
    OBVIOUS
  <2>1. JobsOK /\ NoneBegun /\ PriorityKept /\ TurnsKept
    BY DEF SchedulerInv
  <2>2. Queued \subseteq Job /\ Queued \cap (running \cup finished) = {}
    BY <2>1 DEF JobsOK, Queued, ToSet
  <2>3. \A i, k \in Job : passed[i][k] \in Nat
    BY <2>1 DEF JobsOK
  <2>4. ~Preemptive => \A i \in Queued : ran[i] = 0
    BY <2>1, <2>2 DEF NoneBegun
  <2>5. pqueue_scheme = "RR" => \A i \in Queued, k \in Job : passed[i][k] <= 1
    BY <2>1, <2>2, <2>3 DEF TurnsKept
  <2>. QED
    BY <2>1, <2>4, <2>5 DEF SchemeKept, PriorityKept, Queued
<1>. QED
  BY <1>1, SchedulerStarts, SchedulerSteps, PTL DEF SchedulerSpec

-----------------------------------------------------------------------------
\* The sums of Scheduler add up in some order.
LEMMA SumAdds ==
  ASSUME NEW S, IsFiniteSet(S), NEW f, \A x \in S : f[x] \in Int
  PROVE  \E g : Adds(g, f, S) /\ Sum(f, S) = g[S]
<1>. DEFINE E(g) == g = [s \in SUBSET S |-> IF s = {} THEN 0
                            ELSE f[CHOOSE x \in s : TRUE] + g[s \ {CHOOSE x \in s : TRUE}]]
            g    == CHOOSE g : E(g)
<1>1. PICK F \in [S -> [Int -> Int]] : \A x \in S : \A y \in Int : F[x][y] = f[x] + y
  <2>1. [x \in S |-> [y \in Int |-> f[x] + y]] \in [S -> [Int -> Int]]
    OBVIOUS
  <2>. QED
    BY <2>1
<1>2. PICK ch : \A s \in SUBSET S : ch[s] = CHOOSE x \in s : TRUE
  <2>1. \A s \in SUBSET S : [t \in SUBSET S |-> CHOOSE x \in t : TRUE][s] = CHOOSE x \in s : TRUE
    OBVIOUS
  <2>. QED
    BY <2>1
<1>3. Chooses(ch, S)
  BY <1>2 DEF Chooses
<1>4. PICK h \in [SUBSET S -> Int] : FoldsBy(h, F, ch, S)
  BY <1>3, FoldExists
<1>5. \A s \in SUBSET S : s # {} =>
         F[ch[s]][h[s \ {ch[s]}]] = f[ch[s]] + h[s \ {ch[s]}]
  BY <1>1, <1>3, <1>4 DEF Chooses
<1>6. E(h)
  <2>1. DOMAIN h = SUBSET S /\ h = [s \in SUBSET S |-> h[s]]
    BY <1>4
  <2>2. ASSUME NEW s \in SUBSET S
        PROVE  h[s] = IF s = {} THEN 0
                      ELSE f[CHOOSE x \in s : TRUE] + h[s \ {CHOOSE x \in s : TRUE}]
    <3>1. h[s] = IF s = {} THEN 0 ELSE F[ch[s]][h[s \ {ch[s]}]]
      BY <1>4 DEF FoldsBy
    <3>2. h[s] = IF s = {} THEN 0 ELSE f[ch[s]] + h[s \ {ch[s]}]
      BY ONLY <1>5, <2>2, <3>1
    <3>3. ch[s] = CHOOSE x \in s : TRUE
      BY ONLY <1>2, <2>2
    <3>. QED
      BY ONLY <3>2, <3>3
  <2>. QED
    BY ONLY <2>1, <2>2
<1>. HIDE DEF E
<1>7. E(g)
  BY <1>6
<1>8. Sum(f, S) = g[S]
  BY DEF Sum, MapThenSumSet, MapThenFoldSet, E
<1>. HIDE DEF g
<1>9. Adds(g, f, S)
  <2>. SUFFICES ASSUME NEW s \in SUBSET S
       PROVE IF s = {} THEN g[s] = 0 ELSE \E x \in s : g[s] = f[x] + g[s \ {x}]
    BY DEF Adds
  <2>1. g[s] = IF s = {} THEN 0 ELSE f[CHOOSE x \in s : TRUE] + g[s \ {CHOOSE x \in s : TRUE}]
    BY <1>7 DEF E
  <2>. QED
    BY <2>1
<1>. QED
  BY <1>8, <1>9

\* What a sum is, one element apart from the others.
LEMMA SumIs ==
  ASSUME NEW S, IsFiniteSet(S), NEW f, \A x \in S : f[x] \in Int, NEW x \in S
  PROVE  Sum(f, S) = f[x] + Sum(f, S \ {x})
<1>1. PICK g : Adds(g, f, S) /\ Sum(f, S) = g[S]
  BY SumAdds
<1>2. IsFiniteSet(S \ {x})
  BY FS_Subset
<1>3. PICK h : Adds(h, f, S \ {x}) /\ Sum(f, S \ {x}) = h[S \ {x}]
  BY <1>2, SumAdds
<1>4. g[S] = f[x] + g[S \ {x}]
  BY <1>1, AddsAnyOrder
<1>5. g[S \ {x}] = h[S \ {x}]
  BY <1>1, <1>2, <1>3, AddsSame
<1>. QED
  BY <1>1, <1>3, <1>4, <1>5

\* It is a number, and depends on nothing but the values of the members.
LEMMA SumSame ==
  ASSUME NEW S, IsFiniteSet(S), NEW f, \A x \in S : f[x] \in Int,
         NEW e, \A x \in S : e[x] = f[x]
  PROVE  Sum(e, S) = Sum(f, S) /\ Sum(f, S) \in Int /\ Sum(f, {}) = 0
<1>1. PICK g : Adds(g, f, S) /\ Sum(f, S) = g[S]
  BY SumAdds
<1>2. PICK h : Adds(h, e, S) /\ Sum(e, S) = h[S]
  BY SumAdds
<1>3. g[S] = h[S]
  BY <1>1, <1>2, AddsSame
<1>4. g[S] \in Int
  BY <1>1, AddsAnyOrder
<1>5. PICK n : Adds(n, f, {}) /\ Sum(f, {}) = n[{}]
  BY SumAdds, FS_EmptySet
<1>6. n[{}] = 0
  BY <1>5 DEF Adds
<1>. QED
  BY <1>1, <1>2, <1>3, <1>4, <1>5, <1>6

-----------------------------------------------------------------------------
\* What the statistics are taken from: a job has been in the queue or running
\* since it arrived, and start_time is when it first ran, once its first
\* quantum is over.
TimesKept ==
  /\ waited \in [Job -> Nat] /\ first \in [Job -> Int]
  /\ \A j \in running : ran[j] > 0
  /\ \A j \in Job \ (Queued \cup running \cup finished) : ran[j] = 0 /\ waited[j] = 0
  /\ \A j \in Queued \cup running :
        /\ info[j].arrival = workload[j].arrival
        /\ info[j].running_time = workload[j].running_time
        /\ ran[j] + waited[j] = time - info[j].arrival
        /\ ran[j] > 0 => first[j] \in Nat
        /\ ran[j] = 1 /\ j \in running => first[j] = time - 1
        /\ info[j].start_time = IF ran[j] = 0 \/ (ran[j] = 1 /\ j \in running)
                                THEN -1 ELSE first[j]

\* When the statistics say a job began, and when it came.
Started == [j \in Job |-> IF ran[j] = 1 THEN -1 ELSE first[j]]
Came    == [j \in Job |-> workload[j].arrival]

TotalsExact ==
  /\ IsFiniteSet(finished)
  /\ total_waiting = Sum(waited, finished)
  /\ total_turnaround = Sum(waited, finished) + Sum(ran, finished)
  /\ total_response = Sum(Started, finished) - Sum(Came, finished)

StatisticsInv == SchedulerInv /\ TimesKept /\ TotalsExact

\* The arrivals of the workload are numbers.
LEMMA WorkloadIs ==
  ASSUME JobsOK
  PROVE  \A j \in Job : workload[j].arrival \in Nat /\ workload[j].running_time \in Nat
<1>1. workload \in Workloads
  BY DEF JobsOK
<1>. QED
  BY <1>1, WorkloadsAssumption

\* Who waits in a quantum: the jobs that are in the queue during it.
LEMMA QuantumWaits ==
  ASSUME JobsOK, QuantumExpired
  PROVE  waited' = [j \in Job |-> IF j \in Queued' THEN waited[j] + 1 ELSE waited[j]]
<1>. DEFINE queue == IF Preemptive THEN pqueue \o SetToSeq(running) ELSE pqueue
            next  == IF running = {} \/ Preemptive THEN Poll(queue, info') ELSE running
<1>1. Run(next, queue)
  BY DEF QuantumExpired
<1>2. queue \in Seq(Job) /\ IsInjective(queue)
  BY OfferedIs DEF JobsOK
<1>. HIDE DEF queue
<1>3. \A j, k \in next : j = k
  BY <1>2, PollIs DEF JobsOK
<1>. HIDE DEF next
<1>4. ToSet(pqueue') = ToSet(queue) \ next
  BY <1>1, <1>2, <1>3, PolledIs DEF Run
<1>. QED
  BY <1>1, <1>4 DEF Run, Queued

\* Of the times of an evicted job, only start_time is set, and only once.
LEMMA ExpiredTimes ==
  ASSUME NEW i \in JobInfo, time \in Nat
  PROVE  /\ Expired(i).arrival = i.arrival /\ Expired(i).running_time = i.running_time
         /\ Expired(i).start_time = IF i.start_time = -1 THEN time - 1 ELSE i.start_time
<1>1. PICK remaining, start :
         /\ remaining = i.remaining_time - (time - i.start_time)
         /\ start = IF i.start_time = -1 THEN time - 1 ELSE i.start_time
  OBVIOUS
<1>2. PICK r : r = Expired(i)
  OBVIOUS
<1>3. r = [i EXCEPT !.remaining_time = remaining, !.rr_time = time, !.start_time = start]
  BY <1>1, <1>2 DEF Expired, JobInfo
<1>4. r.arrival = i.arrival /\ r.running_time = i.running_time /\ r.start_time = start
  BY <1>3 DEF JobInfo
<1>. QED
  BY <1>1, <1>2, <1>4

\* What scheduler_quantum_expired does to the times of a job.
LEMMA QuantumTimes ==
  ASSUME JobsOK, TimesKept, QuantumExpired
  PROVE  TimesKept'
<1>1. /\ \A j : j \in Queued' \cup running' <=> j \in Queued \cup running
      /\ Queued' \cap running' = {} /\ JobsOK'
  BY QuantumIs, QuantumJobs
<1>2. /\ finished' = finished /\ workload' = workload /\ time' = time + 1 /\ time \in Nat
      /\ ran \in [Job -> Nat] /\ waited \in [Job -> Nat] /\ first \in [Job -> Int]
      /\ ran' = [j \in Job |-> IF j \in running' THEN ran[j] + 1 ELSE ran[j]]
      /\ first' = [j \in Job |-> IF j \in running' /\ ran[j] = 0 THEN time ELSE first[j]]
  BY DEF QuantumExpired, Run, JobsOK, TimesKept
<1>3. waited' = [j \in Job |-> IF j \in Queued' THEN waited[j] + 1 ELSE waited[j]]
  BY QuantumWaits
<1>4. waited' \in [Job -> Nat] /\ first' \in [Job -> Int]
  BY <1>2, <1>3
<1>5. \A j \in Job : info'[j] = IF j \in running THEN Expired(info[j]) ELSE info[j]
  BY DEF QuantumExpired
<1>6. Queued \subseteq Job /\ running \subseteq Job /\ Queued' \subseteq Job /\ running' \subseteq Job
  BY <1>1 DEF JobsOK, Queued, ToSet
<1>7. \A j \in running' : ran'[j] > 0
  BY <1>2, <1>6
<1>8. \A j \in Job \ (Queued' \cup running' \cup finished') : ran'[j] = 0 /\ waited'[j] = 0
  BY <1>1, <1>2, <1>3 DEF TimesKept
<1>9. ASSUME NEW j \in Queued' \cup running'
      PROVE  /\ info'[j].arrival = workload'[j].arrival
             /\ info'[j].running_time = workload'[j].running_time
             /\ ran'[j] + waited'[j] = time' - info'[j].arrival
             /\ ran'[j] > 0 => first'[j] \in Nat
             /\ ran'[j] = 1 /\ j \in running' => first'[j] = time' - 1
             /\ info'[j].start_time = IF ran'[j] = 0 \/ (ran'[j] = 1 /\ j \in running')
                                      THEN -1 ELSE first'[j]
  <2>1. j \in Job /\ j \in Queued \cup running
    BY <1>1, <1>6
  <2>2. /\ info[j].arrival = workload[j].arrival
        /\ info[j].running_time = workload[j].running_time
        /\ ran[j] + waited[j] = time - info[j].arrival
        /\ ran[j] > 0 => first[j] \in Nat
        /\ ran[j] = 1 /\ j \in running => first[j] = time - 1
        /\ info[j].start_time = IF ran[j] = 0 \/ (ran[j] = 1 /\ j \in running)
                                THEN -1 ELSE first[j]
        /\ j \in running => ran[j] > 0
    BY <2>1 DEF TimesKept
  <2>3. /\ ran[j] \in Nat /\ waited[j] \in Nat /\ first[j] \in Int /\ workload[j].arrival \in Nat
        /\ info[j] \in JobInfo
    BY <1>2, <2>1, WorkloadIs DEF JobsOK
  <2>4. /\ j \in running' => ran'[j] = ran[j] + 1 /\ waited'[j] = waited[j]
        /\ j \notin running' => ran'[j] = ran[j] /\ waited'[j] = waited[j] + 1
        /\ first'[j] = IF j \in running' /\ ran[j] = 0 THEN time ELSE first[j]
    BY <1>1, <1>2, <1>3, <2>1
  <2>5. /\ info'[j].arrival = info[j].arrival
        /\ info'[j].running_time = info[j].running_time
        /\ info'[j].start_time = IF j \in running /\ info[j].start_time = -1
                                 THEN time - 1 ELSE info[j].start_time
    BY <1>2, <1>5, <2>1, <2>3, ExpiredTimes
  <2>6. ran'[j] + waited'[j] = time' - info'[j].arrival
    BY <1>2, <2>2, <2>3, <2>4, <2>5
  <2>7. ran'[j] > 0 => first'[j] \in Nat
    BY <1>2, <2>2, <2>3, <2>4
  <2>8. ran'[j] = 1 /\ j \in running' => first'[j] = time' - 1
    BY <1>2, <2>2, <2>3, <2>4
  <2>9. info'[j].start_time = IF ran'[j] = 0 \/ (ran'[j] = 1 /\ j \in running')
                              THEN -1 ELSE first'[j]
    <3>1. CASE ran[j] = 0
      <4>1. j \notin running /\ info'[j].start_time = -1
        BY <2>2, <2>5, <3>1
      <4>. QED
        BY <2>3, <2>4, <3>1, <4>1
    <3>2. CASE ran[j] # 0
      <4>1. info'[j].start_time = first[j] /\ first'[j] = first[j] /\ ran[j] > 0
        BY <1>2, <2>2, <2>3, <2>4, <2>5, <3>2
      <4>2. ~(ran'[j] = 0 \/ (ran'[j] = 1 /\ j \in running'))
        BY <2>3, <2>4, <3>2
      <4>. QED
        BY <4>1, <4>2
    <3>. QED
      BY <3>1, <3>2
  <2>. QED
    BY <1>2, <2>2, <2>5, <2>6, <2>7, <2>8, <2>9
<1>. QED
  BY <1>4, <1>7, <1>8, <1>9 DEF TimesKept

\* Nothing that happens to other jobs changes the sums over the finished ones.
LEMMA TotalsStay ==
  ASSUME JobsOK, TimesKept, TotalsExact,
         /\ total_waiting' = total_waiting /\ total_turnaround' = total_turnaround
         /\ total_response' = total_response /\ finished' = finished /\ workload' = workload,
         \A j \in finished : ran'[j] = ran[j] /\ waited'[j] = waited[j] /\ first'[j] = first[j]
  PROVE  TotalsExact'
<1>1. /\ IsFiniteSet(finished) /\ finished \subseteq Job
      /\ \A j \in Job : waited[j] \in Int /\ ran[j] \in Int /\ first[j] \in Int
                        /\ workload[j].arrival \in Int
  BY WorkloadIs DEF JobsOK, TimesKept, TotalsExact
<1>2. \A j \in finished : Started[j] \in Int /\ Started'[j] = Started[j]
  BY <1>1 DEF Started
<1>3. \A j \in finished : Came[j] \in Int /\ Came'[j] = Came[j]
  BY <1>1 DEF Came
<1>4. Sum(waited', finished) = Sum(waited, finished)
  BY <1>1, SumSame
<1>5. Sum(ran', finished) = Sum(ran, finished)
  BY <1>1, SumSame
<1>6. Sum(Started', finished) = Sum(Started, finished)
  BY <1>1, <1>2, SumSame
<1>7. Sum(Came', finished) = Sum(Came, finished)
  BY <1>1, <1>3, SumSame
<1>8. /\ Sum(waited, finished)' = Sum(waited', finished')
      /\ Sum(ran, finished)' = Sum(ran', finished')
      /\ Sum(Started, finished)' = Sum(Started', finished')
      /\ Sum(Came, finished)' = Sum(Came', finished')
  OBVIOUS
<1>. QED
  BY <1>4, <1>5, <1>6, <1>7, <1>8 DEF TotalsExact

\* scheduler_job_finished adds what the job has to the sums.
LEMMA FinishedTotals ==
  ASSUME JobsOK, TimesKept, TotalsExact, NEW j \in Job, JobFinished(j)
  PROVE  TotalsExact'
<1>1. /\ j \in running /\ j \notin finished /\ ran[j] = workload[j].running_time
      /\ finished' = finished \cup {j} /\ ran' = ran /\ waited' = waited
      /\ first' = first /\ workload' = workload
      /\ total_turnaround' = total_turnaround + time - info[j].arrival
      /\ total_waiting' = total_waiting + time - info[j].arrival - info[j].running_time
      /\ total_response' = total_response + info[j].start_time - info[j].arrival
  BY DEF JobFinished, Complete, history, JobsOK
<1>2. /\ IsFiniteSet(finished) /\ finished \subseteq Job
      /\ \A k \in Job : waited[k] \in Int /\ ran[k] \in Int /\ first[k] \in Int
                        /\ workload[k].arrival \in Int
  <2>1. IsFiniteSet(finished) /\ finished \subseteq Job
    BY DEF JobsOK, TotalsExact
  <2>2. ran \in [Job -> Nat]
    BY DEF JobsOK
  <2>3. waited \in [Job -> Nat] /\ first \in [Job -> Int]
    BY DEF TimesKept
  <2>4. \A k \in Job : workload[k].arrival \in Nat
    BY WorkloadIs
  <2>. QED
    BY ONLY <2>1, <2>2, <2>3, <2>4
<1>3. \A k \in Job : Started[k] \in Int /\ Came[k] \in Int
  BY <1>2 DEF Started, Came
<1>4. /\ IsFiniteSet(finished \cup {j}) /\ (finished \cup {j}) \ {j} = finished
      /\ finished \cup {j} \subseteq Job
  BY <1>1, <1>2, FS_AddElement
<1>5. /\ Sum(waited, finished \cup {j}) = waited[j] + Sum(waited, finished)
      /\ Sum(ran, finished \cup {j}) = ran[j] + Sum(ran, finished)
  BY <1>2, <1>4, SumIs
<1>6. /\ Sum(Started, finished \cup {j}) = Started[j] + Sum(Started, finished)
      /\ Sum(Came, finished \cup {j}) = Came[j] + Sum(Came, finished)
  BY <1>3, <1>4, SumIs
<1>7. /\ Sum(waited, finished) \in Int /\ Sum(ran, finished) \in Int
      /\ Sum(Started, finished) \in Int /\ Sum(Came, finished) \in Int
  BY <1>2, <1>3, SumSame
<1>8. /\ info[j].arrival = workload[j].arrival /\ info[j].running_time = workload[j].running_time
      /\ ran[j] + waited[j] = time - info[j].arrival
      /\ info[j].start_time = IF ran[j] = 1 THEN -1 ELSE first[j]
      /\ time \in Nat
  BY <1>1 DEF TimesKept, JobsOK
<1>9. Started[j] = info[j].start_time /\ Came[j] = info[j].arrival
  BY <1>8 DEF Started, Came
<1>10. /\ total_waiting = Sum(waited, finished)
       /\ total_turnaround = Sum(waited, finished) + Sum(ran, finished)
       /\ total_response = Sum(Started, finished) - Sum(Came, finished)
  BY DEF TotalsExact
<1>11. total_waiting' = Sum(waited, finished \cup {j})
  BY <1>1, <1>2, <1>5, <1>7, <1>8, <1>10
<1>12. total_turnaround' = Sum(waited, finished \cup {j}) + Sum(ran, finished \cup {j})
  BY <1>1, <1>2, <1>5, <1>7, <1>8, <1>10
<1>13. total_response' = Sum(Started, finished \cup {j}) - Sum(Came, finished \cup {j})
  BY <1>1, <1>2, <1>3, <1>6, <1>7, <1>8, <1>9, <1>10
<1>14. Started' = Started /\ Came' = Came
  BY <1>1 DEF Started, Came
<1>15. /\ Sum(waited, finished)' = Sum(waited', finished')
       /\ Sum(ran, finished)' = Sum(ran', finished')
       /\ Sum(Started, finished)' = Sum(Started', finished')
       /\ Sum(Came, finished)' = Sum(Came', finished')
  OBVIOUS
<1>. QED
  BY <1>1, <1>4, <1>11, <1>12, <1>13, <1>14, <1>15 DEF TotalsExact

\* The times of the other jobs, when one arrives or is finished.
LEMMA NewJobTimes ==
  ASSUME JobsOK, TimesKept, NEW j \in Job, NewJob(j)
  PROVE  TimesKept'
<1>1. /\ j \notin Queued /\ j \notin running /\ j \notin finished
      /\ workload[j].arrival = time
  BY DEF NewJob, Arriving, Queued
<1>2. /\ running' = running /\ finished' = finished /\ time' = time /\ workload' = workload
      /\ ran' = ran /\ waited' = waited /\ first' = first /\ pqueue' = Append(pqueue, j)
  BY DEF NewJob, history
<1>3. Queued' = Queued \cup {j}
  BY <1>1, <1>2, AppendElements DEF JobsOK, Queued
<1>4. /\ info'[j].arrival = time /\ info'[j].start_time = -1
      /\ info'[j].running_time = workload[j].running_time
      /\ \A k \in Job \ {j} : info'[k] = info[k]
  <2>. DEFINE i == [arrival |-> time, priority |-> workload[j].priority, start_time |-> -1,
                    running_time |-> workload[j].running_time,
                    remaining_time |-> workload[j].running_time, rr_time |-> -1]
  <2>1. i.arrival = time /\ i.start_time = -1 /\ i.running_time = workload[j].running_time
    OBVIOUS
  <2>2. info' = [info EXCEPT ![j] = i]
    BY DEF NewJob
  <2>. HIDE DEF i
  <2>. QED
    BY <2>1, <2>2 DEF JobsOK
<1>5. ran[j] = 0 /\ waited[j] = 0 /\ time \in Nat
  BY <1>1 DEF TimesKept, JobsOK
<1>6. ASSUME NEW k \in Queued' \cup running'
      PROVE  /\ info'[k].arrival = workload'[k].arrival
             /\ info'[k].running_time = workload'[k].running_time
             /\ ran'[k] + waited'[k] = time' - info'[k].arrival
             /\ ran'[k] > 0 => first'[k] \in Nat
             /\ ran'[k] = 1 /\ k \in running' => first'[k] = time' - 1
             /\ info'[k].start_time = IF ran'[k] = 0 \/ (ran'[k] = 1 /\ k \in running')
                                      THEN -1 ELSE first'[k]
  <2>1. CASE k = j
    BY <1>1, <1>2, <1>4, <1>5, <2>1
  <2>2. CASE k # j
    <3>0. Queued \subseteq Job /\ running \subseteq Job
      <4>1. pqueue \in Seq(Job) /\ running \subseteq Job
        BY DEF JobsOK
      <4>. QED
        BY <4>1 DEF Queued, ToSet
    <3>1. k \in Queued \cup running /\ k \in Job
      BY <1>2, <1>3, <2>2, <3>0
    <3>2. info'[k] = info[k]
      BY <1>4, <2>2, <3>1
    <3>. QED
      BY <1>2, <3>1, <3>2 DEF TimesKept
  <2>. QED
    BY <2>1, <2>2
<1>7. \A k \in Job \ (Queued' \cup running' \cup finished') : ran'[k] = 0 /\ waited'[k] = 0
  BY <1>2, <1>3 DEF TimesKept
<1>8. /\ waited' \in [Job -> Nat] /\ first' \in [Job -> Int]
      /\ \A k \in running' : ran'[k] > 0
  BY <1>2 DEF TimesKept
<1>. QED
  BY <1>6, <1>7, <1>8 DEF TimesKept

\* scheduler_job_finished leaves every time of the others, and of the job itself.
LEMMA FinishedTimes ==
  ASSUME JobsOK, TimesKept, NEW j \in Job, JobFinished(j)
  PROVE  TimesKept'
<1>1. /\ j \in running /\ running' = {} /\ finished' = finished \cup {j}
      /\ time' = time /\ workload' = workload /\ info' = info
      /\ ran' = ran /\ waited' = waited /\ first' = first /\ Queued' = Queued
  BY DEF JobFinished, Complete, history, Queued
<1>2. running = {j} /\ j \notin Queued
  BY <1>1 DEF JobsOK
<1>3. \A k \in Job \ (Queued' \cup running' \cup finished') : ran'[k] = 0 /\ waited'[k] = 0
  BY <1>1, <1>2 DEF TimesKept
<1>4. ASSUME NEW k \in Queued' \cup running'
      PROVE  /\ info'[k].arrival = workload'[k].arrival
             /\ info'[k].running_time = workload'[k].running_time
             /\ ran'[k] + waited'[k] = time' - info'[k].arrival
             /\ ran'[k] > 0 => first'[k] \in Nat
             /\ ran'[k] = 1 /\ k \in running' => first'[k] = time' - 1
             /\ info'[k].start_time = IF ran'[k] = 0 \/ (ran'[k] = 1 /\ k \in running')
                                      THEN -1 ELSE first'[k]
  <2>1. k \in Queued /\ k \notin running /\ k \notin running'
    BY <1>1, <1>2
  <2>. QED
    BY <1>1, <2>1 DEF TimesKept
<1>5. /\ waited' \in [Job -> Nat] /\ first' \in [Job -> Int]
      /\ \A k \in running' : ran'[k] > 0
  BY <1>1 DEF TimesKept
<1>. QED
  BY <1>3, <1>4, <1>5 DEF TimesKept

\* A quantum leaves the finished jobs as they are.
LEMMA QuantumTotals ==
  ASSUME JobsOK, TimesKept, TotalsExact, QuantumExpired
  PROVE  TotalsExact'
<1>1. /\ finished' = finished /\ workload' = workload
      /\ total_waiting' = total_waiting /\ total_turnaround' = total_turnaround
      /\ total_response' = total_response
      /\ ran' = [j \in Job |-> IF j \in running' THEN ran[j] + 1 ELSE ran[j]]
      /\ first' = [j \in Job |-> IF j \in running' /\ ran[j] = 0 THEN time ELSE first[j]]
  BY DEF QuantumExpired, Run, totals
<1>2. JobsOK' /\ waited' = [j \in Job |-> IF j \in Queued' THEN waited[j] + 1 ELSE waited[j]]
  BY QuantumJobs, QuantumWaits
<1>3. \A j \in finished : j \in Job /\ j \notin running' /\ j \notin Queued'
  BY <1>1, <1>2 DEF JobsOK
<1>4. \A j \in finished : ran'[j] = ran[j] /\ waited'[j] = waited[j] /\ first'[j] = first[j]
  BY <1>1, <1>2, <1>3
<1>. QED
  BY <1>1, <1>4, TotalsStay

\* scheduler_start_up: nothing has been counted, and nothing has happened.
LEMMA StatisticsStart == SchedulerInit => StatisticsInv
<1>. SUFFICES ASSUME SchedulerInit  PROVE StatisticsInv
  OBVIOUS
<1>1. SchedulerInv
  BY SchedulerStarts
<1>2. /\ pqueue = <<>> /\ running = {} /\ finished = {}
      /\ ran = [i \in Job |-> 0] /\ waited = [i \in Job |-> 0] /\ first = [i \in Job |-> -1]
      /\ total_waiting = 0 /\ total_turnaround = 0 /\ total_response = 0
  BY DEF SchedulerInit
<1>3. Queued = {}
  BY <1>2 DEF Queued, ToSet
<1>4. TimesKept
  BY <1>2, <1>3 DEF TimesKept
<1>5. IsFiniteSet({}) /\ \A f : Sum(f, {}) = 0
  BY FS_EmptySet, SumSame
<1>6. TotalsExact
  BY <1>2, <1>5 DEF TotalsExact
<1>. QED
  BY <1>1, <1>4, <1>6 DEF StatisticsInv

\* What each operation of the scheduler makes of times and totals.
LEMMA StatisticsSteps ==
  StatisticsInv /\ [SchedulerNext]_schedulerVars => StatisticsInv'
<1>. SUFFICES ASSUME StatisticsInv, [SchedulerNext]_schedulerVars  PROVE StatisticsInv'
  OBVIOUS
<1>1. SchedulerInv /\ JobsOK /\ TimesKept /\ TotalsExact
  BY DEF StatisticsInv, SchedulerInv
<1>2. SchedulerInv'
  BY <1>1, SchedulerSteps
<1>3. CASE UNCHANGED schedulerVars
  <2>1. /\ pqueue' = pqueue /\ running' = running /\ finished' = finished /\ time' = time
        /\ workload' = workload /\ info' = info /\ ran' = ran /\ waited' = waited
        /\ first' = first /\ total_waiting' = total_waiting
        /\ total_turnaround' = total_turnaround /\ total_response' = total_response
    BY <1>3 DEF schedulerVars, history, totals
  <2>2. TimesKept'
    BY <1>1, <2>1 DEF TimesKept, Queued
  <2>3. TotalsExact'
    BY <1>1, <2>1, TotalsStay
  <2>. QED
    BY <1>2, <2>2, <2>3 DEF StatisticsInv
<1>4. ASSUME NEW j \in Job, NewJob(j)  PROVE StatisticsInv'
  <2>1. TimesKept'
    BY <1>1, <1>4, NewJobTimes
  <2>2. /\ total_waiting' = total_waiting /\ total_turnaround' = total_turnaround
        /\ total_response' = total_response /\ finished' = finished /\ workload' = workload
        /\ ran' = ran /\ waited' = waited /\ first' = first
    BY <1>4 DEF NewJob, totals, history
  <2>3. TotalsExact'
    BY <1>1, <2>2, TotalsStay
  <2>. QED
    BY <1>2, <2>1, <2>3 DEF StatisticsInv
<1>5. ASSUME NEW j \in Job, JobFinished(j)  PROVE StatisticsInv'
  BY <1>1, <1>2, <1>5, FinishedTimes, FinishedTotals DEF StatisticsInv
<1>6. ASSUME QuantumExpired  PROVE StatisticsInv'
  BY <1>1, <1>2, <1>6, QuantumTimes, QuantumTotals DEF StatisticsInv
<1>. QED
  BY <1>3, <1>4, <1>5, <1>6 DEF SchedulerNext

\* The totals from which the averages are taken are the sums of what happened to
\* the finished jobs, for any scheme, jobs, arrivals and running times: evictions
\* and idle times are accounted for once, in the queue or on the processor, and
\* start_time keeps the first quantum.  The response time is that of the jobs
\* which had a second quantum only: start_time is still -1 when a job ends
\* with its first quantum, and the theorem says that such a job is counted as if
\* it had started then.
THEOREM SchedulerStatisticsExact == SchedulerSpec => []StatisticsExact
<1>1. StatisticsInv => StatisticsExact
  BY DEF StatisticsInv, TotalsExact, StatisticsExact, Started, Came
<1>. QED
  BY <1>1, StatisticsStart, StatisticsSteps, PTL DEF SchedulerSpec

-----------------------------------------------------------------------------
(* The file system. *)

InodeRecord == [size : Nat, blocks : Seq(DataBlock), indirect : BOOLEAN]

\* The inodes that are in use, the data map and the blocks of a disk.
Shaped(f) ==
  /\ DOMAIN f = {"inode", "used", "data"}
  /\ Root \in DOMAIN f.inode
  /\ \A i \in DOMAIN f.inode : f.inode[i] \in InodeRecord
  /\ f.used \subseteq DataBlock
  /\ DOMAIN f.data = DataBlock
  /\ \A b \in DataBlock : DOMAIN f.data[b] = 0 .. BlockSize - 1

\* Every block of an inode is in use, and it is the block of one place in one
\* inode.
Apart(f) ==
  \A i \in DOMAIN f.inode : \A k \in DOMAIN f.inode[i].blocks :
     /\ f.inode[i].blocks[k] \in f.used
     /\ \A j \in DOMAIN f.inode : \A l \in DOMAIN f.inode[j].blocks :
           f.inode[i].blocks[k] = f.inode[j].blocks[l] => i = j /\ k = l

Intact(f) == Shaped(f) /\ Apart(f)

RootBlocks(f) == Len(f.inode[Root].blocks)

-----------------------------------------------------------------------------
\* The free blocks are finitely many.
LEMMA FreeBlocks ==
  ASSUME NEW f, Shaped(f)
  PROVE  /\ IsFiniteSet(Unused(f)) /\ Cardinality(Unused(f)) \in Nat
         /\ Unused(f) \subseteq 0 .. DATA_NUMBER - 1
<1>1. IsFiniteSet(0 .. DATA_NUMBER - 1)
  BY MinixfsAssumption, FS_Interval
<1>2. Unused(f) \subseteq 0 .. DATA_NUMBER - 1
  BY DEF Unused, DataBlock
<1>. QED
  BY <1>1, <1>2, FS_Subset, FS_CardinalityType

\* A finite set of numbers has a greatest one.
LEMMA GreatestOf ==
  ASSUME NEW d \in Nat, NEW S \in SUBSET (0 .. d), S # {}
  PROVE  \E b \in S : \A c \in S : c <= b
<1>. DEFINE J == { d - i : i \in S }
<1>1. J \in SUBSET Nat /\ J # {}
  <2>1. \A i \in S : d - i \in Nat
    OBVIOUS
  <2>. QED
    BY <2>1
<1>2. Min(J) \in J /\ \A x \in J : Min(J) <= x
  <2>. HIDE DEF J
  <2>. QED
    BY <1>1, MinOfNat
<1>3. PICK i \in S : Min(J) = d - i
  BY <1>2
<1>4. \A k \in S : k <= i
  <2>. TAKE k \in S
  <2>1. d - i <= d - k
    BY <1>2, <1>3
  <2>. QED
    BY <2>1
<1>. QED
  BY <1>4

\* There is a member below which k others are.
LEMMA MemberAbove ==
  ASSUME NEW d \in Nat, NEW S \in SUBSET (0 .. d), NEW k \in Nat, k < Cardinality(S)
  PROVE  \E b \in S : Cardinality({ c \in S : c < b }) = k
<1>. DEFINE Below(b) == { c \in S : c < b }
            T == { b \in S : Cardinality(Below(b)) >= k }
<1>0. \A b \in S : b \in Nat
  OBVIOUS
<1>1. IsFiniteSet(S) /\ Cardinality(S) \in Nat
  <2>1. IsFiniteSet(0 .. d)
    BY FS_Interval
  <2>. QED
    BY <2>1, FS_Subset, FS_CardinalityType
<1>2. \A b \in S : IsFiniteSet(Below(b)) /\ Cardinality(Below(b)) \in Nat
  <2>. TAKE b \in S
  <2>1. Below(b) \subseteq S
    OBVIOUS
  <2>. QED
    BY <1>1, <2>1, FS_Subset, FS_CardinalityType
<1>3. T # {}
  <2>1. S # {}
    BY <1>1, FS_EmptySet
  <2>2. PICK b \in S : \A c \in S : c <= b
    BY <2>1, GreatestOf
  <2>3. Below(b) = S \ {b}
    <3>1. \A c \in S : c < b <=> c # b
      BY <1>0, <2>2
    <3>. QED
      BY <3>1
  <2>4. Cardinality(S \ {b}) = Cardinality(S) - 1
    BY <1>1, FS_RemoveElement
  <2>5. Cardinality(Below(b)) >= k
    BY <1>1, <2>3, <2>4
  <2>. QED
    BY <2>5
<1>4. PICK b \in T : \A x \in T : b <= x
  <2>1. T \in SUBSET Nat
    BY <1>0
  <2>. HIDE DEF T
  <2>. QED
    BY <1>3, <2>1, MinOfNat
<1>5. b \in S /\ Cardinality(Below(b)) >= k
  OBVIOUS
<1>6. ASSUME Cardinality(Below(b)) # k  PROVE FALSE
  <2>1. Cardinality(Below(b)) > k
    BY <1>2, <1>5, <1>6
  <2>2. Below(b) # {}
    BY <2>1, <1>2, FS_EmptySet
  <2>3. Below(b) \in SUBSET (0 .. d)
    OBVIOUS
  <2>4. PICK a \in Below(b) : \A c \in Below(b) : c <= a
    <3>. HIDE DEF Below
    <3>. QED
      BY <2>2, <2>3, GreatestOf
  <2>5. a \in S /\ a < b /\ Below(a) = Below(b) \ {a}
    <3>1. a \in S /\ a < b /\ b \in S
      BY <1>5, <2>4
    <3>2. \A c \in S : c < a <=> c < b /\ c # a
      <4>. TAKE c \in S
      <4>1. c < b => c <= a
        BY <2>4
      <4>. QED
        BY <1>0, <3>1, <4>1
    <3>. QED
      BY <3>1, <3>2
  <2>6. Cardinality(Below(b) \ {a}) = Cardinality(Below(b)) - 1
    <3>1. IsFiniteSet(Below(b)) /\ a \in Below(b)
      BY <1>2, <1>5, <2>4
    <3>. HIDE DEF Below
    <3>. QED
      BY <3>1, FS_RemoveElement
  <2>7. Cardinality(Below(a)) >= k
    <3>. HIDE DEF Below
    <3>. QED
      BY <1>2, <1>5, <2>1, <2>5, <2>6
  <2>8. a \in T
    BY <2>5, <2>7
  <2>9. b <= a
    BY <1>4, <2>8
  <2>. QED
    BY <2>5, <2>9
<1>. QED
  BY <1>5, <1>6

\* The lowest members of a set are members, and no two of them are one.
LEMMA LowestIs ==
  ASSUME NEW d \in Nat, NEW S \in SUBSET (0 .. d), NEW n \in Nat, n <= Cardinality(S)
  PROVE  /\ Lowest(S, n) \in Seq(S) /\ Len(Lowest(S, n)) = n
         /\ \A k \in 1..n : Lowest(S, n)[k] \in S
         /\ \A k, l \in 1..n : Lowest(S, n)[k] = Lowest(S, n)[l] => k = l
<1>. DEFINE Nth(k) == CHOOSE b \in S : Cardinality({ c \in S : c < b }) = k - 1
<1>1. Cardinality(S) \in Nat
  <2>1. IsFiniteSet(0 .. d)
    BY FS_Interval
  <2>. QED
    BY <2>1, FS_Subset, FS_CardinalityType
<1>2. ASSUME NEW k \in 1..n
      PROVE  Nth(k) \in S /\ Cardinality({ c \in S : c < Nth(k) }) = k - 1
  <2>1. k - 1 \in Nat /\ k - 1 < Cardinality(S)
    BY <1>1
  <2>2. \E b \in S : Cardinality({ c \in S : c < b }) = k - 1
    BY <2>1, MemberAbove
  <2>. QED
    BY <2>2
<1>3. Lowest(S, n) = [k \in 1..n |-> Nth(k)]
  BY DEF Lowest
<1>. HIDE DEF Nth
<1>4. \A k, l \in 1..n : Nth(k) = Nth(l) => k = l
  <2>. SUFFICES ASSUME NEW k \in 1..n, NEW l \in 1..n, Nth(k) = Nth(l)  PROVE k = l
    OBVIOUS
  <2>1. k - 1 = l - 1
    BY <1>2
  <2>. QED
    BY <2>1
<1>5. \A k \in 1..n : Lowest(S, n)[k] = Nth(k)
  BY <1>3
<1>6. Lowest(S, n) \in [1..n -> S]
  BY <1>2, <1>3
<1>. QED
  BY <1>2, <1>4, <1>5, <1>6

\* The first block of an empty disk.
LEMMA LowestFirst ==
  ASSUME NEW S, S \subseteq Nat, 0 \in S, NEW n \in Nat \ {0}
  PROVE  Lowest(S, n)[1] = 0
<1>0. \A b \in S : b \in Nat
  OBVIOUS
<1>1. Lowest(S, n)[1] = CHOOSE b \in S : Cardinality({ c \in S : c < b }) = 0
  <2>1. 1 \in 1..n /\ 1 - 1 = 0
    OBVIOUS
  <2>. QED
    BY <2>1 DEF Lowest
<1>2. Cardinality({ c \in S : c < 0 }) = 0
  <2>1. { c \in S : c < 0 } = {}
    <3>1. \A c \in S : ~(c < 0)
      BY <1>0
    <3>. QED
      BY <3>1
  <2>. QED
    BY <2>1, FS_EmptySet
<1>3. ASSUME NEW b \in S, Cardinality({ c \in S : c < b }) = 0, b # 0  PROVE FALSE
  <2>1. 0 \in { c \in S : c < b }
    BY <1>3
  <2>2. { c \in S : c < b } \subseteq 0 .. b /\ b \in Nat
    <3>1. \A c \in S : c < b => c \in 0 .. b
      BY <1>0
    <3>. QED
      BY <1>0, <3>1
  <2>3. IsFiniteSet({ c \in S : c < b })
    <3>1. IsFiniteSet(0 .. b)
      BY <2>2, FS_Interval
    <3>. QED
      BY <2>2, <3>1, FS_Subset
  <2>. QED
    BY <1>3, <2>1, <2>3, FS_EmptySet
<1>. QED
  BY <1>1, <1>2, <1>3

\* The parts of an inode.
LEMMA InodeIs ==
  ASSUME NEW f, Shaped(f), NEW i \in DOMAIN f.inode
  PROVE  /\ f.inode[i].size \in Nat /\ f.inode[i].indirect \in BOOLEAN
         /\ f.inode[i].blocks \in Seq(DataBlock) /\ Len(f.inode[i].blocks) \in Nat
         /\ DOMAIN f.inode[i].blocks = 1 .. Len(f.inode[i].blocks)
<1>1. f.inode[i] \in InodeRecord
  BY DEF Shaped
<1>. QED
  BY <1>1 DEF InodeRecord

\* What the blocks of an inode are when s has been added to them.
Longer(g, f, i, s) ==
  /\ DOMAIN g.inode = DOMAIN f.inode
  /\ \A j \in DOMAIN f.inode : j # i => g.inode[j] = f.inode[j]
  /\ g.inode[i].size = f.inode[i].size
  /\ g.inode[i].blocks = f.inode[i].blocks \o s
  /\ g.data = f.data
  /\ f.used \subseteq g.used

\* Blocks that are added to an inode were not in use, and no two are one.
LEMMA AddBlocksIs ==
  ASSUME NEW f, Shaped(f), NEW i \in DOMAIN f.inode, NEW n \in Nat, CanAdd(f, i, n)
  PROVE  LET g == AddBlocks(f, i, n) IN
         /\ Shaped(g)
         /\ \E s \in Seq(DataBlock) :
               /\ Longer(g, f, i, s) /\ Len(s) = n
               /\ \A k \in 1..n : s[k] \in g.used /\ s[k] \notin f.used
               /\ \A k, l \in 1..n : s[k] = s[l] => k = l
               /\ f.used = {} /\ n # 0 => s[1] = 0
<1>. DEFINE g   == AddBlocks(f, i, n)
            m   == Taken(f, i, n)
            new == Lowest(Unused(f), m)
            s   == SubSeq(new, 1, n)
<1>1. m \in Nat /\ n <= m /\ m <= Cardinality(Unused(f)) /\ (n # 0 => m # 0)
  BY DEF Taken, CanAdd
<1>2. /\ new \in Seq(Unused(f)) /\ Len(new) = m
      /\ \A k \in 1..m : new[k] \in Unused(f)
      /\ \A k, l \in 1..m : new[k] = new[l] => k = l
  <2>1. PICK d \in Nat : d = DATA_NUMBER - 1
    BY MinixfsAssumption
  <2>2. PICK S : S = Unused(f)
    OBVIOUS
  <2>3. d \in Nat /\ S \in SUBSET (0 .. d)
    BY <2>1, <2>2, FreeBlocks
  <2>. HIDE DEF m
  <2>4. m \in Nat /\ m <= Cardinality(S)
    BY <1>1, <2>2
  <2>5. /\ Lowest(S, m) \in Seq(S) /\ Len(Lowest(S, m)) = m
        /\ \A k \in 1..m : Lowest(S, m)[k] \in S
        /\ \A k, l \in 1..m : Lowest(S, m)[k] = Lowest(S, m)[l] => k = l
    <3>1. /\ Lowest(S, m) \in Seq(S) /\ Len(Lowest(S, m)) = m
          /\ \A k \in 1..m : Lowest(S, m)[k] \in S
      BY ONLY <2>3, <2>4, LowestIs
    <3>2. ASSUME NEW k \in 1..m, NEW l \in 1..m, Lowest(S, m)[k] = Lowest(S, m)[l]
          PROVE  k = l
      BY ONLY <2>3, <2>4, <3>2, LowestIs
    <3>. QED
      BY <3>1, <3>2
  <2>. QED
    BY <2>2, <2>5
<1>3. Unused(f) \subseteq DataBlock /\ Unused(f) \cap f.used = {}
  BY DEF Unused
<1>. HIDE DEF new, m
<1>4. s \in Seq(Unused(f)) /\ Len(s) = n /\ \A k \in 1..n : s[k] = new[k] /\ k \in 1..m
  <2>1. \A k \in 1..n : k \in 1..m
    BY <1>1
  <2>. QED
    BY <1>1, <1>2, <2>1
<1>5. ToSet(new) = { new[k] : k \in 1..m }
  BY <1>2 DEF ToSet
<1>. HIDE DEF s
<1>6. s \in Seq(DataBlock)
  <2>1. \A k \in 1..n : s[k] \in DataBlock
    BY <1>2, <1>3, <1>4
  <2>. QED
    BY <1>3, <1>4
<1>7. /\ DOMAIN g = {"inode", "used", "data"} /\ g.data = f.data
      /\ g.used = f.used \cup ToSet(new)
      /\ DOMAIN g.inode = DOMAIN f.inode
  BY DEF AddBlocks, Shaped, new, m
<1>8. /\ \A j \in DOMAIN f.inode : j # i => g.inode[j] = f.inode[j]
      /\ g.inode[i] = [f.inode[i] EXCEPT
            !.blocks = @ \o s, !.indirect = @ \/ NeedsIndirect(f.inode[i], n)]
  BY DEF AddBlocks, Shaped, new, m, s
<1>9. f.inode[i] \in InodeRecord
  BY DEF Shaped
<1>10. g.inode[i] \in InodeRecord /\ g.inode[i].size = f.inode[i].size
       /\ g.inode[i].blocks = f.inode[i].blocks \o s
  <2>1. (f.inode[i].indirect \/ NeedsIndirect(f.inode[i], n)) \in BOOLEAN
    OBVIOUS
  <2>2. f.inode[i].blocks \o s \in Seq(DataBlock)
    BY <1>6, <1>9 DEF InodeRecord
  <2>3. PICK b, q : /\ b \in BOOLEAN /\ q \in Seq(DataBlock) /\ q = f.inode[i].blocks \o s
                    /\ g.inode[i] = [f.inode[i] EXCEPT !.blocks = q, !.indirect = b]
    BY <1>8, <2>1, <2>2
  <2>. QED
    BY <1>9, <2>3 DEF InodeRecord
<1>11. ToSet(new) \subseteq DataBlock
  BY <1>2, <1>3, <1>5
<1>12. Shaped(g)
  <2>1. \A j \in DOMAIN g.inode : g.inode[j] \in InodeRecord
    BY <1>7, <1>8, <1>10 DEF Shaped
  <2>. HIDE DEF g
  <2>. QED
    BY <1>7, <1>11, <2>1 DEF Shaped
<1>13. Longer(g, f, i, s)
  <2>. HIDE DEF g
  <2>. QED
    BY <1>7, <1>8, <1>10 DEF Longer
<1>14. \A k \in 1..n : s[k] \in g.used /\ s[k] \notin f.used
  <2>. TAKE k \in 1..n
  <2>1. s[k] = new[k] /\ k \in 1..m /\ new[k] \in Unused(f) /\ new[k] \in ToSet(new)
    BY <1>2, <1>4, <1>5
  <2>. QED
    BY <1>3, <1>7, <2>1
<1>15. \A k, l \in 1..n : s[k] = s[l] => k = l
  BY <1>2, <1>4
<1>16. f.used = {} /\ n # 0 => s[1] = 0
  <2>. HAVE f.used = {} /\ n # 0
  <2>1. 0 \in Unused(f) /\ Unused(f) \subseteq Nat
    BY MinixfsAssumption DEF Unused, DataBlock
  <2>2. new[1] = 0
    BY <1>1, <2>1, LowestFirst DEF new
  <2>. QED
    BY <1>4, <2>2
<1>. QED
  BY <1>4, <1>6, <1>12, <1>13, <1>14, <1>15, <1>16

\* They stay apart.
LEMMA ApartGrows ==
  ASSUME NEW f, Intact(f), NEW g, NEW i \in DOMAIN f.inode, NEW s \in Seq(DataBlock),
         Longer(g, f, i, s),
         \A k \in 1..Len(s) : s[k] \in g.used /\ s[k] \notin f.used,
         \A k, l \in 1..Len(s) : s[k] = s[l] => k = l
  PROVE  Apart(g)
<1>. DEFINE B(j) == f.inode[j].blocks
            C(j) == g.inode[j].blocks
            z    == Len(B(i))
<1>1. \A j \in DOMAIN f.inode : B(j) \in Seq(DataBlock)
  BY InodeIs DEF Intact
<1>2. /\ DOMAIN g.inode = DOMAIN f.inode /\ f.used \subseteq g.used
      /\ C(i) = B(i) \o s /\ \A j \in DOMAIN f.inode : j # i => C(j) = B(j)
  BY DEF Longer
<1>3. z \in Nat /\ DOMAIN B(i) = 1..z
  BY <1>1
<1>4. ASSUME NEW k \in DOMAIN C(i)
      PROVE  \/ k \in DOMAIN B(i) /\ C(i)[k] = B(i)[k]
             \/ k - z \in 1..Len(s) /\ C(i)[k] = s[k - z] /\ k \in Nat
  BY <1>1, <1>2, <1>3
<1>5. \A j \in DOMAIN f.inode : \A k \in DOMAIN B(j) :
         /\ B(j)[k] \in f.used
         /\ \A h \in DOMAIN f.inode : \A l \in DOMAIN B(h) : B(j)[k] = B(h)[l] => j = h /\ k = l
  BY DEF Intact, Apart
<1>. HIDE DEF B, C, z
<1>6. ASSUME NEW j \in DOMAIN f.inode, NEW k \in DOMAIN C(j)
      PROVE  \/ k \in DOMAIN B(j) /\ C(j)[k] = B(j)[k] /\ C(j)[k] \in f.used
             \/ /\ j = i /\ k - z \in 1..Len(s) /\ C(j)[k] = s[k - z] /\ k \in Nat
                /\ C(j)[k] \in g.used /\ C(j)[k] \notin f.used
  <2>1. CASE j = i
    <3>1. CASE k \in DOMAIN B(i) /\ C(i)[k] = B(i)[k]
      BY <1>5, <2>1, <3>1
    <3>2. CASE k - z \in 1..Len(s) /\ C(i)[k] = s[k - z] /\ k \in Nat
      BY <2>1, <3>2
    <3>. QED
      BY <1>4, <1>6, <2>1, <3>1, <3>2
  <2>2. CASE j # i
    BY <1>2, <1>5, <1>6, <2>2
  <2>. QED
    BY <2>1, <2>2
<1>7. ASSUME NEW j \in DOMAIN f.inode, NEW k \in DOMAIN C(j),
             NEW h \in DOMAIN f.inode, NEW l \in DOMAIN C(h), C(j)[k] = C(h)[l]
      PROVE  j = h /\ k = l
  <2>1. CASE C(j)[k] \in f.used
    <3>1. k \in DOMAIN B(j) /\ B(j)[k] = C(j)[k] /\ l \in DOMAIN B(h) /\ B(h)[l] = C(h)[l]
      BY <1>6, <1>7, <2>1
    <3>. QED
      BY <1>5, <1>7, <3>1
  <2>2. CASE C(j)[k] \notin f.used
    <3>1. /\ j = i /\ k - z \in 1..Len(s) /\ C(j)[k] = s[k - z] /\ k \in Nat
          /\ h = i /\ l - z \in 1..Len(s) /\ C(h)[l] = s[l - z] /\ l \in Nat
      BY <1>6, <1>7, <2>2
    <3>2. k - z = l - z
      BY <1>7, <3>1
    <3>. QED
      BY <1>3, <3>1, <3>2
  <2>. QED
    BY <2>1, <2>2
<1>8. \A j \in DOMAIN g.inode : \A k \in DOMAIN C(j) : C(j)[k] \in g.used
  BY <1>2, <1>6
<1>. QED
  BY <1>2, <1>7, <1>8 DEF Apart, C

\* Nor do blocks come together when a disk keeps those of its inodes, and has
\* new inodes that have none.
LEMMA ApartSame ==
  ASSUME NEW f, Apart(f), NEW g, f.used \subseteq g.used,
         \A i \in DOMAIN g.inode : \/ i \in DOMAIN f.inode /\ g.inode[i].blocks = f.inode[i].blocks
                                   \/ DOMAIN g.inode[i].blocks = {}
  PROVE  Apart(g)
BY DEF Apart

\* add_data_block_to_inode and add_single_indirect_block share no block out twice.
LEMMA AddBlocksSound ==
  ASSUME NEW f, Intact(f), NEW i \in DOMAIN f.inode, NEW n \in Nat, CanAdd(f, i, n)
  PROVE  Intact(AddBlocks(f, i, n)) /\ RootBlocks(f) <= RootBlocks(AddBlocks(f, i, n))
<1>. DEFINE g == AddBlocks(f, i, n)
<1>1. PICK s \in Seq(DataBlock) :
         /\ Longer(g, f, i, s) /\ Len(s) = n /\ Shaped(g)
         /\ \A k \in 1..n : s[k] \in g.used /\ s[k] \notin f.used
         /\ \A k, l \in 1..n : s[k] = s[l] => k = l
  BY AddBlocksIs DEF Intact
<1>. HIDE DEF g
<1>2. Apart(g)
  BY <1>1, ApartGrows
<1>3. RootBlocks(f) <= RootBlocks(g)
  <2>1. /\ f.inode[Root].blocks \in Seq(DataBlock) /\ f.inode[i].blocks \in Seq(DataBlock)
        /\ Root \in DOMAIN f.inode
    BY InodeIs DEF Intact, Shaped
  <2>2. CASE i = Root
    BY <1>1, <2>1, <2>2 DEF Longer, RootBlocks
  <2>3. CASE i # Root
    BY <1>1, <2>1, <2>3 DEF Longer, RootBlocks
  <2>. QED
    BY <2>2, <2>3
<1>. QED
  BY <1>1, <1>2, <1>3 DEF Intact, g

\* Where the loop of minixfs_write comes past.
Here(f, i, off, amount, b, o) ==
  \E place \in off .. off + amount - 1 :
     /\ place % BlockSize = o
     /\ place \div BlockSize + 1 \in DOMAIN f.inode[i].blocks
     /\ f.inode[i].blocks[place \div BlockSize + 1] = b

Copied(g, f, i, off, amount, v) ==
  /\ Shaped(g)
  /\ DOMAIN g.inode = DOMAIN f.inode /\ g.used = f.used
  /\ \A j \in DOMAIN f.inode : j # i => g.inode[j] = f.inode[j]
  /\ g.inode[i].size = f.inode[i].size + amount
  /\ g.inode[i].blocks = f.inode[i].blocks
  /\ \A b \in DataBlock, o \in 0 .. BlockSize - 1 :
        g.data[b][o] = IF Here(f, i, off, amount, b, o) THEN Byte(v) ELSE f.data[b][o]

\* What is written to the blocks of an inode.
LEMMA CopyIs ==
  ASSUME NEW f, Shaped(f), NEW i \in DOMAIN f.inode, NEW off \in Nat, NEW amount \in Nat,
         NEW v \in Nat, NEW g, g = Copy(f, i, off, amount, v)
  PROVE  Copied(g, f, i, off, amount, v)
<1>. DEFINE D == [b \in DataBlock |-> [o \in 0 .. BlockSize - 1 |->
                   IF Here(f, i, off, amount, b, o) THEN Byte(v) ELSE f.data[b][o]]]
<1>1. g = [f EXCEPT !.inode[i].size = @ + amount, !.data = D]
  BY DEF Copy, Here
<1>2. \A b \in DataBlock, o \in 0 .. BlockSize - 1 :
         D[b][o] = IF Here(f, i, off, amount, b, o) THEN Byte(v) ELSE f.data[b][o]
  OBVIOUS
<1>3. DOMAIN D = DataBlock /\ \A b \in DataBlock : DOMAIN D[b] = 0 .. BlockSize - 1
  OBVIOUS
<1>. HIDE DEF D
<1>4. /\ DOMAIN g = {"inode", "used", "data"}
      /\ DOMAIN g.inode = DOMAIN f.inode /\ g.used = f.used
      /\ \A j \in DOMAIN f.inode : j # i => g.inode[j] = f.inode[j]
      /\ g.inode[i] = [f.inode[i] EXCEPT !.size = @ + amount]
      /\ g.data = D
  BY <1>1 DEF Shaped
<1>5. f.inode[i] \in InodeRecord
  BY DEF Shaped
<1>6. /\ g.inode[i] \in InodeRecord /\ g.inode[i].size = f.inode[i].size + amount
      /\ g.inode[i].blocks = f.inode[i].blocks
  <2>1. f.inode[i].size \in Nat
    BY <1>5 DEF InodeRecord
  <2>. DEFINE z == f.inode[i].size + amount
  <2>2. z \in Nat
    BY <2>1
  <2>3. g.inode[i] = [f.inode[i] EXCEPT !.size = z]
    BY <1>4
  <2>. HIDE DEF z
  <2>4. g.inode[i] \in InodeRecord /\ g.inode[i].size = z
        /\ g.inode[i].blocks = f.inode[i].blocks
    BY <1>5, <2>2, <2>3 DEF InodeRecord
  <2>. QED
    BY <2>4 DEF z
<1>7. Shaped(g)
  <2>1. \A j \in DOMAIN g.inode : g.inode[j] \in InodeRecord
    BY <1>4, <1>6 DEF Shaped
  <2>. QED
    BY <1>3, <1>4, <2>1 DEF Shaped
<1>. QED
  BY <1>2, <1>4, <1>6, <1>7 DEF Copied

\* A write to blocks that an inode has moves none.
LEMMA CopySound ==
  ASSUME NEW f, Intact(f), NEW i \in DOMAIN f.inode, NEW off \in Nat, NEW amount \in Nat,
         NEW v \in Nat
  PROVE  /\ Intact(Copy(f, i, off, amount, v))
         /\ RootBlocks(f) = RootBlocks(Copy(f, i, off, amount, v))
<1>. DEFINE g == Copy(f, i, off, amount, v)
<1>0. Shaped(f)
  BY DEF Intact
<1>2. g = Copy(f, i, off, amount, v)
  OBVIOUS
<1>. HIDE DEF g
<1>1. /\ Shaped(g) /\ DOMAIN g.inode = DOMAIN f.inode /\ g.used = f.used
      /\ \A j \in DOMAIN f.inode : j # i => g.inode[j] = f.inode[j]
      /\ g.inode[i].blocks = f.inode[i].blocks
  BY <1>0, <1>2, CopyIs DEF Copied
<1>5. \A j \in DOMAIN g.inode : j \in DOMAIN f.inode /\ g.inode[j].blocks = f.inode[j].blocks
  BY <1>1
<1>3. Apart(g)
  BY <1>1, <1>5, ApartSame DEF Intact
<1>4. RootBlocks(f) = RootBlocks(g)
  BY <1>1, <1>5 DEF RootBlocks, Intact, Shaped
<1>. QED
  BY <1>1, <1>3, <1>4 DEF Intact, g

\* The inode that create_inode_for_path takes was not in use.
LEMMA InitialisedIs ==
  ASSUME NEW f, Shaped(f), NEW n, Creatable(f, n)
  PROVE  LET g == Initialised(f)
             u == Min(UnusedInodes(f))
         IN  /\ Shaped(g)
             /\ u \in UnusedInodes(f) /\ u \notin DOMAIN f.inode
             /\ DOMAIN g.inode = DOMAIN f.inode \cup {u} /\ g.inode[u] = NewInode
             /\ \A j \in DOMAIN f.inode : g.inode[j].size = f.inode[j].size
                                          /\ g.inode[j].blocks = f.inode[j].blocks
             /\ f.used \subseteq g.used /\ (~LacksIndirect(f) => g.used = f.used)
             /\ g.data = f.data
<1>. DEFINE u == Min(UnusedInodes(f))
            h == IF LacksIndirect(f) THEN AddSingleIndirect(f, Root) ELSE f
            g == Initialised(f)
<1>1. u \in UnusedInodes(f) /\ u \notin DOMAIN f.inode
  <2>1. UnusedInodes(f) \in SUBSET Nat /\ UnusedInodes(f) # {}
    BY MinixfsAssumption DEF UnusedInodes, Creatable
  <2>2. u \in UnusedInodes(f)
    BY <2>1, MinOfNat
  <2>. QED
    BY <2>2 DEF UnusedInodes
<1>2. g = [h EXCEPT !.inode = Assign(@, u, NewInode)]
  BY DEF Initialised
<1>3. /\ DOMAIN h = {"inode", "used", "data"} /\ DOMAIN h.inode = DOMAIN f.inode
      /\ f.used \subseteq h.used /\ h.used \subseteq DataBlock
      /\ (~LacksIndirect(f) => h.used = f.used) /\ h.data = f.data
      /\ \A j \in DOMAIN f.inode : /\ h.inode[j] \in InodeRecord
                                   /\ h.inode[j].size = f.inode[j].size
                                   /\ h.inode[j].blocks = f.inode[j].blocks
  <2>1. CASE ~LacksIndirect(f)
    BY <2>1 DEF Shaped
  <2>2. CASE LacksIndirect(f)
    <3>1. Min(Unused(f)) \in DataBlock
      <4>1. Unused(f) \in SUBSET Nat /\ Unused(f) # {}
        BY <2>2, MinixfsAssumption DEF Unused, Creatable, DataBlock
      <4>2. Min(Unused(f)) \in Unused(f)
        BY <4>1, MinOfNat
      <4>. QED
        BY <4>2 DEF Unused
    <3>2. h = [f EXCEPT !.used = @ \cup {Min(Unused(f))}, !.inode[Root].indirect = TRUE]
      BY <2>2 DEF AddSingleIndirect
    <3>. HIDE DEF h
    <3>3. /\ DOMAIN h = {"inode", "used", "data"} /\ DOMAIN h.inode = DOMAIN f.inode
          /\ h.used = f.used \cup {Min(Unused(f))} /\ h.data = f.data
          /\ \A j \in DOMAIN f.inode : j # Root => h.inode[j] = f.inode[j]
          /\ h.inode[Root] = [f.inode[Root] EXCEPT !.indirect = TRUE]
      BY <3>2 DEF Shaped
    <3>4. \A j \in DOMAIN f.inode : f.inode[j] \in InodeRecord
      BY DEF Shaped
    <3>5. /\ h.inode[Root] \in InodeRecord /\ h.inode[Root].size = f.inode[Root].size
          /\ h.inode[Root].blocks = f.inode[Root].blocks
      BY <3>3, <3>4 DEF InodeRecord, Shaped
    <3>. QED
      BY <2>2, <3>1, <3>3, <3>4, <3>5 DEF Shaped
  <2>. QED
    BY <2>1, <2>2
<1>. HIDE DEF h, g, u
<1>4. /\ DOMAIN g = {"inode", "used", "data"} /\ g.used = h.used /\ g.data = h.data
      /\ DOMAIN g.inode = DOMAIN f.inode \cup {u} /\ g.inode[u] = NewInode
      /\ \A j \in DOMAIN f.inode : g.inode[j] = h.inode[j]
  BY <1>1, <1>2, <1>3 DEF Assign
<1>5. NewInode \in InodeRecord
  <2>1. <<>> \in Seq(DataBlock)
    OBVIOUS
  <2>. QED
    BY <2>1 DEF NewInode, InodeRecord
<1>6. Shaped(g)
  <2>1. \A j \in DOMAIN g.inode : g.inode[j] \in InodeRecord
    BY <1>3, <1>4, <1>5
  <2>2. Root \in DOMAIN g.inode
    BY <1>4 DEF Shaped
  <2>3. DOMAIN g.data = DataBlock /\ \A b \in DataBlock : DOMAIN g.data[b] = 0 .. BlockSize - 1
    BY <1>3, <1>4 DEF Shaped
  <2>. QED
    BY <1>3, <1>4, <2>1, <2>2, <2>3 DEF Shaped
<1>. QED
  BY <1>1, <1>3, <1>4, <1>6 DEF g, u

\* Nor does init_inode.
LEMMA InitialisedSound ==
  ASSUME NEW f, Intact(f), NEW n, Creatable(f, n)
  PROVE  Intact(Initialised(f)) /\ RootBlocks(Initialised(f)) = RootBlocks(f)
<1>1. PICK g, u : /\ g = Initialised(f) /\ Shaped(g) /\ DOMAIN g.inode = DOMAIN f.inode \cup {u}
                  /\ g.inode[u] = NewInode /\ f.used \subseteq g.used
                  /\ \A j \in DOMAIN f.inode : g.inode[j].blocks = f.inode[j].blocks
  BY InitialisedIs DEF Intact
<1>2. DOMAIN NewInode.blocks = {}
  BY DEF NewInode
<1>3. Apart(g)
  BY <1>1, <1>2, ApartSame DEF Intact
<1>. QED
  BY <1>1, <1>3 DEF Intact, RootBlocks, Shaped

\* An entry is written, and the directory is longer by one.
LEMMA EnterIs ==
  ASSUME NEW f, Shaped(f), NEW n, NEW u
  PROVE  LET root == f.inode[Root]
             o    == root.size % BlockSize
             b    == IF o = 0 THEN 0 ELSE root.blocks[root.size \div BlockSize + 1]
             g    == IF o = 0 THEN AddBlocks(f, Root, 1) ELSE f
             h    == Enter(f, n, u)
         IN  Shaped(g) =>
             /\ Shaped(h) /\ DOMAIN h.inode = DOMAIN g.inode /\ h.used = g.used
             /\ \A j \in DOMAIN g.inode : j # Root => h.inode[j] = g.inode[j]
             /\ h.inode[Root].size = g.inode[Root].size + 1
             /\ h.inode[Root].blocks = g.inode[Root].blocks
             /\ \A c \in DataBlock, p \in 0 .. BlockSize - 1 :
                   h.data[c][p] = IF c = b /\ p = o THEN Dirent(n, u) ELSE g.data[c][p]
<1>. DEFINE root == f.inode[Root]
            o    == root.size % BlockSize
            b    == IF o = 0 THEN 0 ELSE root.blocks[root.size \div BlockSize + 1]
            g    == IF o = 0 THEN AddBlocks(f, Root, 1) ELSE f
            h    == Enter(f, n, u)
<1>. SUFFICES ASSUME Shaped(g)
     PROVE   /\ Shaped(h) /\ DOMAIN h.inode = DOMAIN g.inode /\ h.used = g.used
             /\ \A j \in DOMAIN g.inode : j # Root => h.inode[j] = g.inode[j]
             /\ h.inode[Root].size = g.inode[Root].size + 1
             /\ h.inode[Root].blocks = g.inode[Root].blocks
             /\ \A c \in DataBlock, p \in 0 .. BlockSize - 1 :
                   h.data[c][p] = IF c = b /\ p = o THEN Dirent(n, u) ELSE g.data[c][p]
  OBVIOUS
<1>1. h = [g EXCEPT !.inode[Root].size = @ + 1, !.data[b][o] = Dirent(n, u)]
  BY DEF Enter
<1>. HIDE DEF g, h, b, o
<1>2. /\ DOMAIN h = {"inode", "used", "data"} /\ DOMAIN h.inode = DOMAIN g.inode
      /\ h.used = g.used
      /\ \A j \in DOMAIN g.inode : j # Root => h.inode[j] = g.inode[j]
      /\ h.inode[Root] = [g.inode[Root] EXCEPT !.size = @ + 1]
      /\ h.data = [g.data EXCEPT ![b][o] = Dirent(n, u)]
  BY <1>1 DEF Shaped
<1>3. g.inode[Root] \in InodeRecord /\ Root \in DOMAIN g.inode
  BY DEF Shaped
<1>4. /\ h.inode[Root] \in InodeRecord /\ h.inode[Root].size = g.inode[Root].size + 1
      /\ h.inode[Root].blocks = g.inode[Root].blocks
  BY <1>2, <1>3 DEF InodeRecord
<1>5. /\ DOMAIN g.data = DataBlock
      /\ \A c \in DataBlock : DOMAIN g.data[c] = 0 .. BlockSize - 1
  BY DEF Shaped
<1>6. DOMAIN h.data = DataBlock /\ \A c \in DataBlock : DOMAIN h.data[c] = 0 .. BlockSize - 1
  BY <1>2, <1>5
<1>7. \A c \in DataBlock, p \in 0 .. BlockSize - 1 :
         h.data[c][p] = IF c = b /\ p = o THEN Dirent(n, u) ELSE g.data[c][p]
  <2>. SUFFICES ASSUME NEW c \in DataBlock, NEW p \in 0 .. BlockSize - 1
       PROVE h.data[c][p] = IF c = b /\ p = o THEN Dirent(n, u) ELSE g.data[c][p]
    OBVIOUS
  <2>1. CASE c # b
    BY <1>2, <1>5, <2>1
  <2>2. CASE c = b
    <3>1. h.data[c] = [g.data[c] EXCEPT ![o] = Dirent(n, u)]
      BY <1>2, <1>5, <2>2
    <3>. QED
      BY <1>5, <2>2, <3>1
  <2>. QED
    BY <2>1, <2>2
<1>8. Shaped(h)
  <2>1. \A j \in DOMAIN h.inode : h.inode[j] \in InodeRecord
    BY <1>2, <1>4 DEF Shaped
  <2>. QED
    BY <1>2, <1>6, <2>1 DEF Shaped
<1>. QED
  BY ONLY <1>2, <1>4, <1>7, <1>8

\* Nor does an entry in the directory, or the block that it is given for it.
LEMMA EnterSound ==
  ASSUME NEW f, Intact(f), NEW n, NEW u,
         f.inode[Root].size % BlockSize = 0 => CanAdd(f, Root, 1)
  PROVE  /\ Intact(Enter(f, n, u)) /\ RootBlocks(f) <= RootBlocks(Enter(f, n, u))
<1>. DEFINE o == f.inode[Root].size % BlockSize
            g == IF o = 0 THEN AddBlocks(f, Root, 1) ELSE f
            h == Enter(f, n, u)
<1>1. Intact(g) /\ RootBlocks(f) <= RootBlocks(g)
  <2>1. Root \in DOMAIN f.inode /\ RootBlocks(f) \in Nat
    BY InodeIs DEF Intact, Shaped, RootBlocks
  <2>2. CASE o = 0
    BY <2>1, <2>2, AddBlocksSound
  <2>3. CASE o # 0
    BY <2>1, <2>3
  <2>. QED
    BY <2>2, <2>3
<1>2. /\ Shaped(h) /\ DOMAIN h.inode = DOMAIN g.inode /\ h.used = g.used
      /\ \A j \in DOMAIN g.inode : j # Root => h.inode[j] = g.inode[j]
      /\ h.inode[Root].blocks = g.inode[Root].blocks
  <2>1. Shaped(f) /\ Shaped(g)
    BY <1>1 DEF Intact
  <2>. QED
    BY ONLY <2>1, EnterIs
<1>. HIDE DEF g, h
<1>3. \A j \in DOMAIN h.inode : j \in DOMAIN g.inode /\ h.inode[j].blocks = g.inode[j].blocks
  BY <1>2
<1>4. Apart(h)
  BY <1>1, <1>2, <1>3, ApartSame DEF Intact
<1>. QED
  BY <1>1, <1>2, <1>4 DEF Intact, RootBlocks, h

\* Nor minixfs_create_inode_for_path, whether it succeeds or not.
LEMMA CreatedSound ==
  ASSUME NEW f, Intact(f), NEW n
  PROVE  /\ Intact(Created(f, n)) /\ RootBlocks(f) <= RootBlocks(Created(f, n))
<1>. DEFINE g == Initialised(f)
<1>0. RootBlocks(f) \in Nat
  BY InodeIs DEF Intact, Shaped, RootBlocks
<1>1. CASE ~Creatable(f, n)
  BY <1>0, <1>1 DEF Created
<1>2. CASE Creatable(f, n)
  <2>1. Intact(g) /\ RootBlocks(g) = RootBlocks(f)
    BY <1>2, InitialisedSound
  <2>. HIDE DEF g
  <2>2. CASE g.inode[Root].size % BlockSize = 0 /\ ~CanAdd(g, Root, 1)
    BY <1>0, <1>2, <2>1, <2>2 DEF Created, g
  <2>3. CASE ~(g.inode[Root].size % BlockSize = 0 /\ ~CanAdd(g, Root, 1))
    <3>1. Created(f, n) = Enter(g, n, Min(UnusedInodes(f)))
      BY <1>2, <2>3 DEF Created, g
    <3>2. /\ Intact(Enter(g, n, Min(UnusedInodes(f))))
          /\ RootBlocks(g) <= RootBlocks(Enter(g, n, Min(UnusedInodes(f))))
      BY <2>1, <2>3, EnterSound
    <3>. QED
      BY <2>1, <3>1, <3>2
  <2>. QED
    BY <2>2, <2>3
<1>. QED
  BY <1>1, <1>2

\* The blocks that a write asks for.
LEMMA MissingIs ==
  ASSUME NEW f, Shaped(f), NEW i \in DOMAIN f.inode, NEW off \in Nat, NEW amount \in Nat
  PROVE  /\ Missing(f, i, off, amount) \in Nat
         /\ (off + amount) \div BlockSize + 1 <= Len(f.inode[i].blocks) + Missing(f, i, off, amount)
<1>. DEFINE k == BlocksNeeded(off, amount) - Len(f.inode[i].blocks)
<1>1. Len(f.inode[i].blocks) \in Nat /\ (off + amount) \div BlockSize \in Nat
  <2>1. PICK b \in Nat \ {0}, q \in Nat : b = BlockSize /\ q = off + amount
    BY MinixfsAssumption
  <2>2. q \div b \in Nat
    OBVIOUS
  <2>3. Len(f.inode[i].blocks) \in Nat
    BY InodeIs
  <2>. QED
    BY <2>1, <2>2, <2>3
<1>2. k \in Int
  BY <1>1 DEF BlocksNeeded
<1>3. \E x \in {0, k} : \A y \in {0, k} : x >= y
  BY <1>2
<1>4. Max({0, k}) \in {0, k} /\ \A y \in {0, k} : Max({0, k}) >= y
  BY <1>3 DEF Max
<1>5. Missing(f, i, off, amount) = Max({0, k})
  BY DEF Missing
<1>. QED
  BY <1>1, <1>2, <1>4, <1>5 DEF BlocksNeeded

\* Every call leaves a disk whose blocks are apart, and no directory shrinks.
LEMMA MinixfsSound ==
  ASSUME Intact(fs), writes \in Nat, \A amount \in Lengths : amount \in Nat,
         [MinixfsNext]_minixfsVars
  PROVE  Intact(fs') /\ RootBlocks(fs) <= RootBlocks(fs') /\ writes' \in Nat
<1>0. RootBlocks(fs) \in Nat
  BY InodeIs DEF Intact, Shaped, RootBlocks
<1>1. CASE UNCHANGED minixfsVars
  BY <1>0, <1>1 DEF minixfsVars
<1>2. ASSUME NEW n \in Name, CreateInodeForPath(n)
      PROVE  Intact(fs') /\ RootBlocks(fs) <= RootBlocks(fs') /\ writes' \in Nat
  BY <1>2, CreatedSound DEF CreateInodeForPath
<1>3. ASSUME NEW n \in Name, NEW amount \in Lengths, WriteFile(n, amount)
      PROVE  Intact(fs') /\ RootBlocks(fs) <= RootBlocks(fs') /\ writes' \in Nat
  <2>. DEFINE f == Created(fs, n)
  <2>1. Intact(f) /\ RootBlocks(fs) <= RootBlocks(f) /\ amount \in Nat /\ RootBlocks(f) \in Nat
    <3>1. Intact(f) /\ RootBlocks(fs) <= RootBlocks(f)
      BY CreatedSound
    <3>. QED
      BY <3>1, InodeIs DEF Intact, Shaped, RootBlocks
  <2>. HIDE DEF f
  <2>2. PICK off \in {0} \cup { fs.inode[i].size : i \in GetInode(fs, n) } :
           WriteFails(n, off, amount) \/ WriteSucceeds(n, off, amount)
    BY <1>3 DEF WriteFile
  <2>3. off \in Nat
    <3>1. \A i \in GetInode(fs, n) : fs.inode[i].size \in Nat
      BY InodeIs DEF GetInode, Intact
    <3>. QED
      BY <3>1
  <2>4. ASSUME NEW i \in GetInode(f, n), NEW k \in Nat, CanAdd(f, i, k)
        PROVE  /\ Intact(AddBlocks(f, i, k)) /\ RootBlocks(fs) <= RootBlocks(AddBlocks(f, i, k))
               /\ i \in DOMAIN AddBlocks(f, i, k).inode
    <3>1. i \in DOMAIN f.inode
      BY DEF GetInode
    <3>2. Intact(AddBlocks(f, i, k)) /\ RootBlocks(f) <= RootBlocks(AddBlocks(f, i, k))
      BY <2>1, <2>4, <3>1, AddBlocksSound
    <3>3. RootBlocks(AddBlocks(f, i, k)) \in Nat
      BY <3>2, InodeIs DEF Intact, Shaped, RootBlocks
    <3>4. i \in DOMAIN AddBlocks(f, i, k).inode
      BY <2>1, <2>4, <3>1, AddBlocksIs DEF Intact, Longer
    <3>. QED
      BY <1>0, <2>1, <3>2, <3>3, <3>4
  <2>5. \A i \in GetInode(f, n) : i \in DOMAIN f.inode /\ Missing(f, i, off, amount) \in Nat
    <3>. TAKE i \in GetInode(f, n)
    <3>1. i \in DOMAIN f.inode
      BY DEF GetInode
    <3>. QED
      BY <2>1, <2>3, <3>1, MissingIs DEF Intact
  <2>6. CASE WriteFails(n, off, amount)
    <3>1. CASE GetInode(f, n) = {} /\ fs' = f
      BY <1>3, <2>1, <3>1 DEF WriteFile
    <3>2. ASSUME NEW i \in GetInode(f, n), NEW k \in 0 .. Missing(f, i, off, amount) - 1,
                 CanAdd(f, i, k), fs' = AddBlocks(f, i, k)
          PROVE  Intact(fs') /\ RootBlocks(fs) <= RootBlocks(fs')
      <4>1. k \in Nat
        BY <2>5
      <4>. QED
        BY <2>4, <3>2, <4>1
    <3>. QED
      BY <1>3, <2>6, <3>1, <3>2 DEF WriteFails, WriteFile, f
  <2>7. CASE WriteSucceeds(n, off, amount)
    <3>1. PICK i \in GetInode(f, n) :
             /\ CanAdd(f, i, Missing(f, i, off, amount))
             /\ fs' = Copy(AddBlocks(f, i, Missing(f, i, off, amount)), i, off, amount, writes + 1)
      BY <2>7 DEF WriteSucceeds, f
    <3>2. PICK g : g = AddBlocks(f, i, Missing(f, i, off, amount))
      OBVIOUS
    <3>3. Intact(g) /\ RootBlocks(fs) <= RootBlocks(g) /\ i \in DOMAIN g.inode
      BY <2>4, <2>5, <3>1, <3>2
    <3>4. PICK v \in Nat : v = writes + 1
      OBVIOUS
    <3>5. /\ Intact(Copy(g, i, off, amount, v))
          /\ RootBlocks(g) = RootBlocks(Copy(g, i, off, amount, v))
      BY <2>1, <2>3, <3>3, CopySound
    <3>6. fs' = Copy(g, i, off, amount, v) /\ writes' \in Nat
      BY <1>3, <3>1, <3>2, <3>4 DEF WriteFile
    <3>. QED
      BY <3>3, <3>5, <3>6
  <2>. QED
    BY <2>2, <2>6, <2>7
<1>. QED
  BY <1>1, <1>2, <1>3 DEF MinixfsNext

\* The directory, as long as it lies in one block, the first of the disk: its
\* entries name different inodes, and are named differently.
Directory(f) ==
  LET root == f.inode[Root] IN
  /\ root.blocks = <<>> => root.size = 0 /\ f.used = {}
  /\ root.blocks # <<>> => root.blocks[1] = 0 /\ root.size \in 1 .. BlockSize
  /\ \A p \in 0 .. root.size - 1 :
        /\ f.data[0][p] = Dirent(f.data[0][p][1], f.data[0][p][2])
        /\ f.data[0][p][2] \in DOMAIN f.inode \ {Root}
  /\ \A p, q \in 0 .. root.size - 1 :
        p # q => /\ f.data[0][p][1] # f.data[0][q][1]
                 /\ f.data[0][p][2] # f.data[0][q][2]

\* An inode has s, and nothing else.
Holds(f, i, s) ==
  /\ f.inode[i].size = Len(s)
  /\ \A p \in 0 .. Len(s) - 1 :
        /\ p \div BlockSize + 1 \in DOMAIN f.inode[i].blocks
        /\ f.data[f.inode[i].blocks[p \div BlockSize + 1]][p % BlockSize] = s[p + 1]

\* An inode of f has in g the size and the blocks that it has in f, and they
\* have what they have in f.
FileSame(f, g, i) ==
  /\ g.inode[i].size = f.inode[i].size
  /\ \A k \in DOMAIN f.inode[i].blocks :
        /\ k \in DOMAIN g.inode[i].blocks
        /\ g.inode[i].blocks[k] = f.inode[i].blocks[k]
        /\ \A o \in 0 .. BlockSize - 1 :
              g.data[f.inode[i].blocks[k]][o] = f.data[f.inode[i].blocks[k]][o]

Bytes == { Byte(v) : v \in Nat }

\* The files that were created are those that are found, with what was written
\* to them.
FilesOK(f, fl, mis) ==
  /\ \A n \in DOMAIN fl : GetInode(f, n) # {} /\ fl[n] \in Seq(Bytes)
  /\ \A n \in Name : GetInode(f, n) # {} => n \in DOMAIN fl
  /\ \A n \in DOMAIN fl : n \notin mis => \A i \in GetInode(f, n) : Holds(f, i, fl[n])

-----------------------------------------------------------------------------
\* The block and the offset in it of a place.
LEMMA Places ==
  ASSUME NEW p \in Nat
  PROVE  /\ p \div BlockSize \in Nat /\ p % BlockSize \in 0 .. BlockSize - 1
         /\ p = BlockSize * (p \div BlockSize) + (p % BlockSize)
         /\ p < BlockSize => p \div BlockSize = 0 /\ p % BlockSize = p
<1>1. PICK B \in Nat \ {0} : B = BlockSize
  BY MinixfsAssumption
<1>2. p \div B \in Nat
  OBVIOUS
<1>3. p % B \in Nat /\ p % B < B
  OBVIOUS
<1>4. p = B * (p \div B) + (p % B)
  OBVIOUS
<1>5. p < B => p \div B = 0 /\ p % B = p
  OBVIOUS
<1>6. p % B \in 0 .. B - 1
  BY <1>3
<1>. QED
  BY <1>1, <1>2, <1>4, <1>5, <1>6

\* What a sequence of at most one element is.
LEMMA ShortSeq ==
  ASSUME NEW S, NEW s \in Seq(S), Len(s) <= 1, s # <<>>
  PROVE  Len(s) = 1
<1>1. PICK k : k = Len(s)
  OBVIOUS
<1>2. k \in Nat /\ k # 0 /\ k <= 1
  BY <1>1
<1>. QED
  BY ONLY <1>1, <1>2

\* What get_inode finds.
LEMMA FindIs ==
  ASSUME NEW f, Shaped(f), Directory(f), RootBlocks(f) <= 1, NEW n, NEW i
  PROVE  i \in GetInode(f, n) <=>
            \E p \in 0 .. f.inode[Root].size - 1 : f.data[0][p] = Dirent(n, i)
<1>. DEFINE root == f.inode[Root]
<1>1. /\ root.size \in Nat /\ root.blocks \in Seq(DataBlock)
      /\ Len(root.blocks) \in Nat /\ Len(root.blocks) <= 1
      /\ DOMAIN root.blocks = 1 .. Len(root.blocks)
  BY InodeIs DEF Shaped, RootBlocks
<1>2. ASSUME NEW p \in 0 .. root.size - 1  PROVE Unit(f, Root, p) = f.data[0][p]
  <2>1. root.blocks # <<>>
    BY <1>1 DEF Directory
  <2>2. root.blocks[1] = 0 /\ root.size <= BlockSize /\ Len(root.blocks) = 1
    <3>1. root.blocks[1] = 0 /\ root.size \in 1 .. BlockSize
      BY <2>1 DEF Directory
    <3>2. Len(root.blocks) = 1
      BY <1>1, <2>1, ShortSeq
    <3>3. BlockSize \in Nat
      BY MinixfsAssumption
    <3>. QED
      BY <1>1, <3>1, <3>2, <3>3
  <2>3. p \div BlockSize = 0 /\ p % BlockSize = p
    <3>1. p \in Nat /\ p < BlockSize
      BY <1>1, <2>2, MinixfsAssumption
    <3>. QED
      BY <3>1, Places
  <2>4. 0 + 1 \in DOMAIN root.blocks
    BY <1>1, <2>2
  <2>. QED
    BY <2>2, <2>3, <2>4 DEF Unit
<1>3. ASSUME NEW p \in 0 .. root.size - 1, f.data[0][p] = Dirent(n, i)
      PROVE  i \in DOMAIN f.inode
  <2>1. f.data[0][p][2] = i
    BY <1>3 DEF Dirent
  <2>. QED
    BY <2>1 DEF Directory
<1>. QED
  BY <1>2, <1>3 DEF GetInode

\* It finds one inode under a name, and an inode under one name.
LEMMA FindOne ==
  ASSUME NEW f, Shaped(f), Directory(f), RootBlocks(f) <= 1, NEW n, NEW i \in GetInode(f, n)
  PROVE  /\ i \in DOMAIN f.inode /\ i # Root
         /\ \A j \in GetInode(f, n) : j = i
         /\ \A m : i \in GetInode(f, m) => m = n
<1>. DEFINE S == 0 .. f.inode[Root].size - 1
<1>1. PICK p \in S : f.data[0][p] = Dirent(n, i)
  BY FindIs
<1>2. f.data[0][p][1] = n /\ f.data[0][p][2] = i
  BY <1>1 DEF Dirent
<1>3. ASSUME NEW j \in GetInode(f, n)  PROVE j = i
  <2>1. PICK q \in S : f.data[0][q] = Dirent(n, j)
    BY FindIs
  <2>2. f.data[0][q][1] = n /\ f.data[0][q][2] = j
    BY <2>1 DEF Dirent
  <2>. QED
    BY <1>2, <2>2 DEF Directory
<1>4. ASSUME NEW m, i \in GetInode(f, m)  PROVE m = n
  <2>1. PICK q \in S : f.data[0][q] = Dirent(m, i)
    BY <1>4, FindIs
  <2>2. f.data[0][q][1] = m /\ f.data[0][q][2] = i
    BY <2>1 DEF Dirent
  <2>. QED
    BY <1>2, <2>2 DEF Directory
<1>5. i \in DOMAIN f.inode /\ i # Root
  BY <1>2 DEF Directory
<1>. QED
  BY <1>3, <1>4, <1>5

\* A disk whose directory stays.
LEMMA DirectoryStays ==
  ASSUME NEW f, Shaped(f), Directory(f), RootBlocks(f) <= 1,
         NEW g, Shaped(g), DOMAIN f.inode \subseteq DOMAIN g.inode,
         g.inode[Root].size = f.inode[Root].size,
         g.inode[Root].blocks = f.inode[Root].blocks,
         f.used = {} /\ f.inode[Root].size = 0 => g.used = {},
         \A p \in 0 .. f.inode[Root].size - 1 : g.data[0][p] = f.data[0][p]
  PROVE  /\ Directory(g) /\ RootBlocks(g) <= 1
         /\ \A n : GetInode(g, n) = GetInode(f, n)
<1>1. RootBlocks(g) <= 1
  BY DEF RootBlocks
<1>2. Directory(g)
  <2>1. PICK s, b : s = f.inode[Root].size /\ b = f.inode[Root].blocks
    OBVIOUS
  <2>2. g.inode[Root].size = s /\ g.inode[Root].blocks = b
    BY <2>1
  <2>3. PICK e : e = f.data[0]
    OBVIOUS
  <2>4. /\ b = <<>> => s = 0 /\ f.used = {}
        /\ b # <<>> => b[1] = 0 /\ s \in 1 .. BlockSize
    BY <2>1 DEF Directory
  <2>5. \A p \in 0 .. s - 1 : e[p] = Dirent(e[p][1], e[p][2]) /\ e[p][2] \in DOMAIN f.inode \ {Root}
    BY <2>1, <2>3 DEF Directory
  <2>6. \A p, q \in 0 .. s - 1 : p # q => e[p][1] # e[q][1] /\ e[p][2] # e[q][2]
    BY <2>1, <2>3 DEF Directory
  <2>7. \A p \in 0 .. s - 1 : g.data[0][p] = e[p]
    BY <2>1, <2>3
  <2>8. b = <<>> => s = 0 /\ g.used = {}
    BY <2>1, <2>4
  <2>9. ASSUME NEW p \in 0 .. s - 1
        PROVE  /\ g.data[0][p] = Dirent(g.data[0][p][1], g.data[0][p][2])
               /\ g.data[0][p][2] \in DOMAIN g.inode \ {Root}
    <3>1. e[p] = Dirent(e[p][1], e[p][2]) /\ e[p][2] \in DOMAIN f.inode \ {Root}
      BY ONLY <2>5, <2>9
    <3>2. g.data[0][p] = e[p]
      BY ONLY <2>7, <2>9
    <3>3. e[p][2] \in DOMAIN g.inode \ {Root}
      BY <3>1
    <3>. QED
      BY ONLY <3>1, <3>2, <3>3
  <2>10. ASSUME NEW p \in 0 .. s - 1, NEW q \in 0 .. s - 1, p # q
         PROVE  /\ g.data[0][p][1] # g.data[0][q][1]
                /\ g.data[0][p][2] # g.data[0][q][2]
    <3>1. g.data[0][p] = e[p] /\ g.data[0][q] = e[q]
      BY ONLY <2>7, <2>10
    <3>. QED
      BY ONLY <2>6, <2>10, <3>1
  <2>. QED
    BY ONLY <2>2, <2>4, <2>8, <2>9, <2>10 DEF Directory
<1>3. ASSUME NEW n, NEW i  PROVE i \in GetInode(g, n) <=> i \in GetInode(f, n)
  <2>1. i \in GetInode(f, n) <=>
            \E p \in 0 .. f.inode[Root].size - 1 : f.data[0][p] = Dirent(n, i)
    BY FindIs
  <2>2. i \in GetInode(g, n) <=>
            \E p \in 0 .. g.inode[Root].size - 1 : g.data[0][p] = Dirent(n, i)
    BY <1>1, <1>2, FindIs
  <2>. QED
    BY <2>1, <2>2
<1>4. \A n : GetInode(g, n) = GetInode(f, n)
  <2>. TAKE n
  <2>1. \A i : i \in GetInode(g, n) <=> i \in GetInode(f, n)
    BY <1>3
  <2>. QED
    BY <2>1
<1>. QED
  BY <1>1, <1>2, <1>4

\* What an inode has stays when its blocks do.
LEMMA HoldsStays ==
  ASSUME NEW f, Shaped(f), NEW i \in DOMAIN f.inode, NEW s, Len(s) \in Nat, Holds(f, i, s),
         NEW g, FileSame(f, g, i)
  PROVE  Holds(g, i, s)
<1>. SUFFICES ASSUME NEW p \in 0 .. Len(s) - 1
     PROVE  /\ p \div BlockSize + 1 \in DOMAIN g.inode[i].blocks
            /\ g.data[g.inode[i].blocks[p \div BlockSize + 1]][p % BlockSize] = s[p + 1]
  BY DEF Holds, FileSame
<1>1. PICK k, o : k = p \div BlockSize + 1 /\ o = p % BlockSize
  OBVIOUS
<1>2. o \in 0 .. BlockSize - 1
  BY <1>1, Places
<1>3. k \in DOMAIN f.inode[i].blocks /\ f.data[f.inode[i].blocks[k]][o] = s[p + 1]
  BY <1>1 DEF Holds
<1>4. k \in DOMAIN g.inode[i].blocks /\ g.data[g.inode[i].blocks[k]][o] = s[p + 1]
  <2>1. FileSame(f, g, i)
    OBVIOUS
  <2>2. PICK b : b = f.inode[i].blocks[k]
    BY Zenon
  <2>3. \A l \in DOMAIN f.inode[i].blocks :
           l \in DOMAIN g.inode[i].blocks /\ g.inode[i].blocks[l] = f.inode[i].blocks[l]
    BY ONLY <2>1 DEF FileSame
  <2>4. g.data[b][o] = f.data[b][o]
    BY ONLY <1>2, <1>3, <2>1, <2>2 DEF FileSame
  <2>. QED
    BY ONLY <1>3, <2>2, <2>3, <2>4
<1>. QED
  BY <1>1, <1>4

\* A step that finds the same files and leaves their blocks alone.
LEMMA FilesStay ==
  ASSUME NEW f, Shaped(f), NEW fl, NEW mis, FilesOK(f, fl, mis),
         NEW g, \A n : GetInode(g, n) = GetInode(f, n),
         \A n : \A i \in GetInode(f, n) : i \in DOMAIN f.inode /\ FileSame(f, g, i)
  PROVE  FilesOK(g, fl, mis)
<1>1. ASSUME NEW n \in DOMAIN fl, n \notin mis, NEW i \in GetInode(g, n)
      PROVE  Holds(g, i, fl[n])
  <2>1. i \in GetInode(f, n) /\ Holds(f, i, fl[n]) /\ Len(fl[n]) \in Nat
    BY <1>1 DEF FilesOK
  <2>2. Shaped(f) /\ i \in DOMAIN f.inode /\ FileSame(f, g, i)
    BY <2>1
  <2>. QED
    BY ONLY <2>1, <2>2, HoldsStays
<1>. QED
  BY <1>1 DEF FilesOK

\* More blocks for a file change nothing that is found or read.
LEMMA AddBlocksKeeps ==
  ASSUME NEW f, Intact(f), Directory(f), RootBlocks(f) <= 1,
         NEW n, NEW i \in GetInode(f, n), NEW k \in Nat, CanAdd(f, i, k),
         NEW g, g = AddBlocks(f, i, k)
  PROVE  /\ Intact(g) /\ Directory(g) /\ RootBlocks(g) <= 1
         /\ \A m : GetInode(g, m) = GetInode(f, m)
         /\ g.inode[i].size = f.inode[i].size
         /\ Len(g.inode[i].blocks) = Len(f.inode[i].blocks) + k
         /\ \A fl, mis : FilesOK(f, fl, mis) => FilesOK(g, fl, mis)
<1>1. Shaped(f) /\ i \in DOMAIN f.inode /\ i # Root
  BY FindOne DEF Intact
<1>2. PICK s \in Seq(DataBlock) : Shaped(g) /\ Longer(g, f, i, s) /\ Len(s) = k
  BY <1>1, AddBlocksIs
<1>3. Intact(g)
  BY <1>1, AddBlocksSound
<1>4. /\ DOMAIN g.inode = DOMAIN f.inode
      /\ \A j \in DOMAIN f.inode : j # i => g.inode[j] = f.inode[j]
      /\ g.inode[i].size = f.inode[i].size
      /\ g.inode[i].blocks = f.inode[i].blocks \o s
      /\ g.data = f.data
  BY <1>2 DEF Longer
<1>5. f.inode[i].blocks \in Seq(DataBlock)
  BY <1>1, InodeIs
<1>6. f.inode[Root].size # 0
  BY <1>1, FindIs
<1>7. Root \in DOMAIN f.inode
  BY <1>1 DEF Shaped
<1>8. /\ Directory(g) /\ RootBlocks(g) <= 1
      /\ \A m : GetInode(g, m) = GetInode(f, m)
  <2>1. g.inode[Root] = f.inode[Root]
    BY <1>1, <1>4, <1>7
  <2>2. \A p \in 0 .. f.inode[Root].size - 1 : g.data[0][p] = f.data[0][p]
    BY <1>4
  <2>. QED
    BY <1>1, <1>2, <1>4, <1>6, <2>1, <2>2, DirectoryStays
<1>9. Len(g.inode[i].blocks) = Len(f.inode[i].blocks) + k
  <2>1. PICK a \in Seq(DataBlock) : a = f.inode[i].blocks
    BY <1>5
  <2>2. Len(a \o s) = Len(a) + Len(s)
    OBVIOUS
  <2>. QED
    BY <1>2, <1>4, <2>1, <2>2
<1>10. \A j \in DOMAIN f.inode :
          /\ g.inode[j].size = f.inode[j].size
          /\ \A l \in DOMAIN f.inode[j].blocks :
                l \in DOMAIN g.inode[j].blocks /\ g.inode[j].blocks[l] = f.inode[j].blocks[l]
  <2>. TAKE j \in DOMAIN f.inode
  <2>1. CASE j = i
    <3>1. PICK a \in Seq(DataBlock) : a = f.inode[i].blocks
      BY <1>5
    <3>2. \A l \in DOMAIN a : l \in DOMAIN (a \o s) /\ (a \o s)[l] = a[l]
      OBVIOUS
    <3>. QED
      BY <1>4, <2>1, <3>1, <3>2
  <2>2. CASE j # i
    BY <1>4, <2>2
  <2>. QED
    BY <2>1, <2>2
<1>11. \A m : \A j \in GetInode(f, m) : j \in DOMAIN f.inode
  BY <1>1, FindOne
<1>12. ASSUME NEW fl, NEW mis, FilesOK(f, fl, mis)  PROVE FilesOK(g, fl, mis)
  <2>1. Shaped(f) /\ \A m : GetInode(g, m) = GetInode(f, m)
    BY <1>1, <1>8
  <2>2. \A j \in DOMAIN f.inode : FileSame(f, g, j)
    BY ONLY <1>4, <1>10 DEF FileSame
  <2>3. \A m : \A j \in GetInode(f, m) : j \in DOMAIN f.inode /\ FileSame(f, g, j)
    BY ONLY <1>11, <2>2
  <2>. QED
    BY ONLY <1>12, <2>1, <2>3, FilesStay
<1>. QED
  BY <1>3, <1>4, <1>8, <1>9, <1>12

\* What is written to one inode is not written to another.
LEMMA NotHere ==
  ASSUME NEW f, Apart(f), NEW i \in DOMAIN f.inode, NEW off, NEW amount,
         NEW j \in DOMAIN f.inode, j # i, NEW l \in DOMAIN f.inode[j].blocks, NEW o
  PROVE  ~Here(f, i, off, amount, f.inode[j].blocks[l], o)
BY DEF Apart, Here

\* The history after a write.
Appended(fl, n, amount, v)  == Assign(fl, n, fl[n] \o [k \in 1..amount |-> Byte(v)])
Strayed(f, i, n, off, mis)  == IF off = f.inode[i].size THEN mis ELSE mis \cup {n}

\* A write that has its blocks changes its file alone, and at the end of it
\* adds what is written.
LEMMA CopyKeeps ==
  ASSUME NEW f, Intact(f), Directory(f), RootBlocks(f) <= 1,
         NEW fl, NEW mis, FilesOK(f, fl, mis),
         NEW n \in Name, NEW i \in GetInode(f, n),
         NEW off \in Nat, NEW amount \in Nat, NEW v \in Nat,
         (off + amount) \div BlockSize + 1 <= Len(f.inode[i].blocks),
         NEW g, g = Copy(f, i, off, amount, v)
  PROVE  /\ Directory(g)
         /\ FilesOK(g, Appended(fl, n, amount, v), Strayed(f, i, n, off, mis))
<1>0. Shaped(f) /\ i \in DOMAIN f.inode
  BY FindOne DEF Intact
<1>2. /\ Shaped(g)
      /\ DOMAIN g.inode = DOMAIN f.inode /\ g.used = f.used
      /\ \A j \in DOMAIN f.inode : j # i => g.inode[j] = f.inode[j]
      /\ g.inode[i].size = f.inode[i].size + amount
      /\ g.inode[i].blocks = f.inode[i].blocks
      /\ \A b \in DataBlock, o \in 0 .. BlockSize - 1 :
            g.data[b][o] = IF Here(f, i, off, amount, b, o) THEN Byte(v) ELSE f.data[b][o]
  <2>1. Copied(g, f, i, off, amount, v)
    BY <1>0, CopyIs
  <2>. QED
    BY <2>1 DEF Copied
<1>. DEFINE B(j) == f.inode[j].blocks
            more == [k \in 1..amount |-> Byte(v)]
            fl2  == Assign(fl, n, fl[n] \o more)
            mis2 == IF off = f.inode[i].size THEN mis ELSE mis \cup {n}
<1>1. Shaped(f) /\ Apart(f) /\ i \in DOMAIN f.inode /\ i # Root /\ Root \in DOMAIN f.inode
  BY FindOne DEF Intact, Shaped
<1>3. \A j \in DOMAIN f.inode : B(j) \in Seq(DataBlock) /\ DOMAIN B(j) = 1 .. Len(B(j))
  BY <1>1, InodeIs
<1>4. ASSUME NEW j \in DOMAIN f.inode, NEW k \in DOMAIN B(j)
      PROVE  B(j)[k] \in DataBlock
  BY <1>3, <1>4
<1>5. ASSUME NEW j \in DOMAIN f.inode, j # i, NEW k \in DOMAIN B(j), NEW o \in 0 .. BlockSize - 1
      PROVE  g.data[B(j)[k]][o] = f.data[B(j)[k]][o]
  BY <1>1, <1>2, <1>4, <1>5, NotHere
<1>6. /\ Directory(g) /\ \A m : GetInode(g, m) = GetInode(f, m)
  <2>1. g.inode[Root] = f.inode[Root]
    BY <1>1, <1>2
  <2>2. ASSUME NEW p \in 0 .. f.inode[Root].size - 1  PROVE g.data[0][p] = f.data[0][p]
    <3>1. f.inode[Root].size \in Nat /\ Len(B(Root)) \in Nat
      BY <1>1, InodeIs
    <3>2. B(Root) # <<>>
      BY <2>2, <3>1 DEF Directory
    <3>3. B(Root)[1] = 0 /\ f.inode[Root].size \in 1 .. BlockSize
      BY <3>2 DEF Directory
    <3>4. 1 \in DOMAIN B(Root)
      BY <1>1, <1>3, <3>2
    <3>5. p \in 0 .. BlockSize - 1
      <4>1. PICK s : s = f.inode[Root].size
        OBVIOUS
      <4>2. PICK b : b = BlockSize
        OBVIOUS
      <4>3. s \in 1 .. b /\ b \in Nat /\ p \in 0 .. s - 1
        BY <2>2, <3>3, <4>1, <4>2, MinixfsAssumption
      <4>. QED
        BY ONLY <4>2, <4>3
    <3>. QED
      BY <1>1, <1>5, <3>3, <3>4, <3>5
  <2>. QED
    BY <1>1, <1>2, <2>1, <2>2, DirectoryStays
<1>7. n \in DOMAIN fl /\ fl[n] \in Seq(Bytes)
  BY DEF FilesOK
<1>8. more \in Seq(Bytes) /\ Len(more) = amount /\ \A k \in 1..amount : more[k] = Byte(v)
  <2>1. Byte(v) \in Bytes
    BY DEF Bytes
  <2>2. more \in [1..amount -> Bytes]
    BY <2>1
  <2>. QED
    BY <2>2
<1>. HIDE DEF more
<1>9. /\ DOMAIN fl2 = DOMAIN fl /\ fl2[n] = fl[n] \o more
      /\ \A m \in DOMAIN fl : m # n => fl2[m] = fl[m]
  BY <1>7 DEF Assign
<1>10. fl[n] \o more \in Seq(Bytes)
  BY <1>7, <1>8
<1>. HIDE DEF fl2
<1>11. ASSUME NEW m \in DOMAIN fl, m # n, m \notin mis, NEW j \in GetInode(f, m)
       PROVE  Holds(g, j, fl2[m])
  <2>1. j \in DOMAIN f.inode /\ j # i
    BY <1>1, <1>11, FindOne
  <2>2. Holds(f, j, fl[m]) /\ Len(fl[m]) \in Nat
    BY <1>11 DEF FilesOK
  <2>3. g.inode[j] = f.inode[j]
    BY <1>2, <2>1
  <2>4. \A k \in DOMAIN B(j) : \A o \in 0 .. BlockSize - 1 :
           g.data[B(j)[k]][o] = f.data[B(j)[k]][o]
    BY <1>5, <2>1
  <2>5. FileSame(f, g, j)
    <3>1. g.inode[j].size = f.inode[j].size /\ g.inode[j].blocks = B(j)
      BY ONLY <2>3
    <3>. QED
      BY ONLY Zenon, <2>4, <3>1 DEF FileSame
  <2>6. Shaped(f) /\ j \in DOMAIN f.inode
    BY ONLY <1>1, <2>1
  <2>7. Holds(g, j, fl[m])
    BY ONLY <2>2, <2>5, <2>6, HoldsStays
  <2>. QED
    BY <1>9, <1>11, <2>7
<1>12. ASSUME n \notin mis, off = f.inode[i].size  PROVE Holds(g, i, fl[n] \o more)
  <2>1. Holds(f, i, fl[n]) /\ Len(fl[n]) = off
    BY <1>7, <1>12 DEF FilesOK, Holds
  <2>2. Len(fl[n] \o more) = off + amount
    BY <1>7, <1>8, <2>1
  <2>3. ASSUME NEW p \in 0 .. off + amount - 1
        PROVE  /\ p \div BlockSize + 1 \in DOMAIN B(i)
               /\ g.data[B(i)[p \div BlockSize + 1]][p % BlockSize] = (fl[n] \o more)[p + 1]
    <3>1. PICK k, o : k = p \div BlockSize + 1 /\ o = p % BlockSize
      OBVIOUS
    <3>2. /\ p \in Nat /\ p \div BlockSize \in Nat /\ o \in 0 .. BlockSize - 1
          /\ p = BlockSize * (p \div BlockSize) + (p % BlockSize)
      BY <3>1, Places
    <3>3. p \div BlockSize <= (off + amount) \div BlockSize
          /\ (off + amount) \div BlockSize \in Nat
      <4>1. PICK b \in Nat \ {0} : b = BlockSize
        BY MinixfsAssumption
      <4>2. PICK q \in Nat : q = off + amount /\ p <= q
        OBVIOUS
      <4>3. p \div b <= q \div b /\ q \div b \in Nat
        BY <3>2, <4>2
      <4>. QED
        BY <4>1, <4>2, <4>3
    <3>4. k \in DOMAIN B(i)
      <4>1. Len(B(i)) \in Nat
        BY <1>1, InodeIs
      <4>2. PICK l, a, b : l = Len(B(i)) /\ a = p \div BlockSize /\ b = (off + amount) \div BlockSize
        BY Zenon
      <4>3. a \in Nat /\ b \in Nat /\ l \in Nat /\ a <= b /\ k = a + 1
        BY ONLY <3>1, <3>2, <3>3, <4>1, <4>2
      <4>. QED
        BY <1>1, <1>3, <4>2, <4>3
    <3>5. B(i)[k] \in DataBlock
      BY <1>1, <1>4, <3>4
    <3>6. g.data[B(i)[k]][o] = IF Here(f, i, off, amount, B(i)[k], o) THEN Byte(v)
                               ELSE f.data[B(i)[k]][o]
      BY <1>2, <3>2, <3>5
    <3>7. CASE p >= off
      <4>1. Here(f, i, off, amount, B(i)[k], o)
        BY <2>3, <3>1, <3>2, <3>4, <3>7 DEF Here
      <4>2. (fl[n] \o more)[p + 1] = Byte(v)
        <5>1. p + 1 - off \in 1..amount
          BY <2>3, <3>2, <3>7
        <5>2. (fl[n] \o more)[p + 1] = more[p + 1 - off]
          BY <1>7, <1>8, <2>1, <3>2, <3>7, <5>1
        <5>. QED
          BY <1>8, <5>1, <5>2
      <4>. QED
        BY <3>1, <3>4, <3>6, <4>1, <4>2
    <3>8. CASE p < off
      <4>1. ~Here(f, i, off, amount, B(i)[k], o)
        <5>. SUFFICES ASSUME NEW q \in off .. off + amount - 1, q % BlockSize = o,
                             q \div BlockSize + 1 \in DOMAIN B(i),
                             B(i)[q \div BlockSize + 1] = B(i)[k]
             PROVE  FALSE
          BY DEF Here
        <5>1. q \div BlockSize + 1 = k
          BY <1>1, <3>4 DEF Apart
        <5>2. q \in Nat /\ q \div BlockSize \in Nat
              /\ q = BlockSize * (q \div BlockSize) + (q % BlockSize)
          <6>1. q \in Nat
            BY <2>3
          <6>. QED
            BY ONLY <6>1, Places
        <5>3. q \div BlockSize = p \div BlockSize /\ q % BlockSize = p % BlockSize
          BY <3>1, <3>2, <5>1, <5>2
        <5>4. q = p
          BY <3>2, <5>2, <5>3
        <5>. QED
          BY <3>2, <3>8, <5>4
      <4>2. (fl[n] \o more)[p + 1] = fl[n][p + 1]
        BY <1>7, <1>8, <2>1, <3>2, <3>8
      <4>3. f.data[B(i)[k]][o] = fl[n][p + 1]
        <5>1. p \in 0 .. Len(fl[n]) - 1
          BY <2>1, <3>2, <3>8
        <5>. QED
          BY <2>1, <3>1, <5>1 DEF Holds
      <4>. QED
        BY <3>1, <3>4, <3>6, <4>1, <4>2, <4>3
    <3>9. p >= off \/ p < off
      OBVIOUS
    <3>. QED
      BY <3>7, <3>8, <3>9
  <2>4. g.inode[i].size = Len(fl[n] \o more) /\ g.inode[i].blocks = B(i)
    BY <1>2, <1>12, <2>2
  <2>5. 0 .. Len(fl[n] \o more) - 1 = 0 .. off + amount - 1
    BY <2>2
  <2>. QED
    BY <2>3, <2>4, <2>5 DEF Holds
<1>13. FilesOK(g, fl2, mis2)
  <2>1. \A m \in DOMAIN fl2 : GetInode(g, m) # {} /\ fl2[m] \in Seq(Bytes)
    <3>1. \A m \in DOMAIN fl : GetInode(f, m) # {} /\ fl[m] \in Seq(Bytes)
      BY DEF FilesOK
    <3>. QED
      BY <1>6, <1>9, <1>10, <3>1
  <2>2. \A m \in Name : GetInode(g, m) # {} => m \in DOMAIN fl2
    BY <1>6, <1>9 DEF FilesOK
  <2>3. ASSUME NEW m \in DOMAIN fl2, m \notin mis2, NEW j \in GetInode(g, m)
        PROVE  Holds(g, j, fl2[m])
    <3>1. m \in DOMAIN fl /\ m \notin mis /\ j \in GetInode(f, m)
          /\ (m = n => off = f.inode[i].size)
      BY <1>6, <1>9, <2>3
    <3>2. CASE m # n
      BY <1>11, <3>1, <3>2
    <3>3. CASE m = n
      <4>1. j = i
        BY <1>1, <3>1, <3>3, FindOne
      <4>. QED
        BY <1>9, <1>12, <3>1, <3>3, <4>1
    <3>. QED
      BY <3>2, <3>3
  <2>. HIDE DEF mis2
  <2>. QED
    BY <2>1, <2>2, <2>3 DEF FilesOK
<1>. QED
  BY <1>6, <1>13 DEF fl2, mis2, more, Appended, Strayed

\* An inode that is initialised is not found yet, and the files stay.
LEMMA InitialisedKeeps ==
  ASSUME NEW f, Intact(f), Directory(f), RootBlocks(f) <= 1, NEW n, Creatable(f, n),
         NEW g, g = Initialised(f), NEW u, u = Min(UnusedInodes(f))
  PROVE  /\ Directory(g) /\ RootBlocks(g) <= 1
         /\ u \in DOMAIN g.inode /\ u # Root /\ g.inode[u] = NewInode
         /\ \A m : GetInode(g, m) = GetInode(f, m) /\ u \notin GetInode(g, m)
         /\ \A fl, mis : FilesOK(f, fl, mis) => FilesOK(g, fl, mis)
<1>1. Shaped(f) /\ Root \in DOMAIN f.inode
  BY DEF Intact, Shaped
<1>2. /\ Shaped(g)
      /\ u \notin DOMAIN f.inode
      /\ DOMAIN g.inode = DOMAIN f.inode \cup {u} /\ g.inode[u] = NewInode
      /\ \A j \in DOMAIN f.inode : g.inode[j].size = f.inode[j].size
                                   /\ g.inode[j].blocks = f.inode[j].blocks
      /\ (~LacksIndirect(f) => g.used = f.used)
      /\ g.data = f.data
  BY <1>1, InitialisedIs
<1>3. f.inode[Root].size = 0 => ~LacksIndirect(f)
  <2>. HAVE f.inode[Root].size = 0
  <2>1. 0 \div BlockSize = 0 /\ NUM_DIRECT_BLOCKS \in Nat \ {0}
    <3>1. 0 \in Nat /\ 0 < BlockSize
      BY MinixfsAssumption
    <3>. QED
      BY <3>1, Places, MinixfsAssumption
  <2>. QED
    BY <2>1 DEF LacksIndirect
<1>4. Directory(g) /\ RootBlocks(g) <= 1 /\ \A m : GetInode(g, m) = GetInode(f, m)
  BY <1>1, <1>2, <1>3, DirectoryStays
<1>5. \A m : \A i \in GetInode(f, m) : i \in DOMAIN f.inode
  BY <1>1, FindOne
<1>6. ASSUME NEW fl, NEW mis, FilesOK(f, fl, mis)  PROVE FilesOK(g, fl, mis)
  <2>1. \A i \in DOMAIN f.inode : FileSame(f, g, i)
    BY ONLY <1>2 DEF FileSame
  <2>2. \A m : \A i \in GetInode(f, m) : i \in DOMAIN f.inode /\ FileSame(f, g, i)
    BY ONLY <1>5, <2>1
  <2>. QED
    BY ONLY <1>1, <1>4, <1>6, <2>2, FilesStay
<1>. QED
  BY <1>1, <1>2, <1>4, <1>5, <1>6

\* A directory in one block that has an entry more, for an empty file.
Entered(h, f, n, u) ==
  /\ f.inode[Root].size \in 0 .. BlockSize - 1
  /\ DOMAIN h.inode = DOMAIN f.inode
  /\ \A j \in DOMAIN f.inode : j # Root => h.inode[j] = f.inode[j]
  /\ h.inode[Root].size = f.inode[Root].size + 1
  /\ h.inode[Root].blocks # <<>> /\ h.inode[Root].blocks[1] = 0
  /\ \A p \in 0 .. BlockSize - 1 :
        h.data[0][p] = IF p = f.inode[Root].size THEN Dirent(n, u) ELSE f.data[0][p]
  /\ \A c \in DataBlock \ {0}, p \in 0 .. BlockSize - 1 : h.data[c][p] = f.data[c][p]
  /\ \A j \in DOMAIN f.inode \ {Root} : \A k \in DOMAIN f.inode[j].blocks :
        f.inode[j].blocks[k] # 0

\* The directory gets one block, the first of an empty disk.
LEMMA AddOne ==
  ASSUME NEW f, Shaped(f), CanAdd(f, Root, 1), NEW g, g = AddBlocks(f, Root, 1)
  PROVE  \E s \in Seq(DataBlock) : /\ Longer(g, f, Root, s) /\ Len(s) = 1 /\ s # <<>>
                                   /\ <<>> \o s = s
                                   /\ f.used = {} => s[1] = 0
<1>1. Root \in DOMAIN f.inode
  BY DEF Shaped
<1>2. PICK k \in Nat : k = 1
  OBVIOUS
<1>3. CanAdd(f, Root, k) /\ AddBlocks(f, Root, k) = g
  BY <1>2
<1>4. PICK s \in Seq(DataBlock) : Longer(g, f, Root, s) /\ Len(s) = k
                                 /\ (f.used = {} /\ k # 0 => s[1] = 0)
  BY <1>1, <1>3, AddBlocksIs
<1>5. Len(s) = 1
  BY <1>2, <1>4
<1>6. s # <<>> /\ <<>> \o s = s
  BY <1>5
<1>. QED
  BY <1>2, <1>4, <1>5, <1>6

\* The entry lies behind the others, in the first block of the disk, which is
\* the directory's: as long as it needs no second one.
LEMMA EnteredIs ==
  ASSUME NEW f, Intact(f), Directory(f), RootBlocks(f) <= 1, NEW n, NEW u,
         f.inode[Root].size % BlockSize = 0 => CanAdd(f, Root, 1),
         NEW h, h = Enter(f, n, u), RootBlocks(h) <= 1
  PROVE  Entered(h, f, n, u)
<1>. DEFINE root == f.inode[Root]
            o    == root.size % BlockSize
            b    == IF o = 0 THEN 0 ELSE root.blocks[root.size \div BlockSize + 1]
            g    == IF o = 0 THEN AddBlocks(f, Root, 1) ELSE f
<1>1. Shaped(f) /\ Root \in DOMAIN f.inode /\ Apart(f)
  BY DEF Intact, Shaped
<1>2. root.size \in Nat /\ root.blocks \in Seq(DataBlock)
      /\ DOMAIN root.blocks = 1 .. Len(root.blocks) /\ Len(root.blocks) \in Nat
  BY <1>1, InodeIs
<1>3. BlockSize \in Nat \ {0} /\ 0 \in DataBlock
  BY MinixfsAssumption DEF DataBlock
<1>4. Shaped(g)
  <2>1. CASE o = 0
    BY <1>1, <2>1, AddBlocksIs
  <2>2. CASE o # 0
    BY <1>1, <2>2
  <2>. QED
    BY <2>1, <2>2
<1>5. /\ DOMAIN h.inode = DOMAIN g.inode
      /\ \A j \in DOMAIN g.inode : j # Root => h.inode[j] = g.inode[j]
      /\ h.inode[Root].size = g.inode[Root].size + 1
      /\ h.inode[Root].blocks = g.inode[Root].blocks
      /\ \A c \in DataBlock, p \in 0 .. BlockSize - 1 :
            h.data[c][p] = IF c = b /\ p = o THEN Dirent(n, u) ELSE g.data[c][p]
  BY ONLY h = Enter(f, n, u), <1>1, <1>4, EnterIs
<1>6. CASE root.blocks = <<>>
  <2>1. root.size = 0 /\ f.used = {}
    BY <1>6 DEF Directory
  <2>2. o = 0 /\ b = 0
    <3>1. 0 < BlockSize
      BY <1>3
    <3>. QED
      BY <2>1, <3>1, Places
  <2>3. PICK s \in Seq(DataBlock) : Longer(g, f, Root, s) /\ s # <<>> /\ <<>> \o s = s /\ s[1] = 0
    <3>1. g = AddBlocks(f, Root, 1) /\ CanAdd(f, Root, 1)
      BY <2>2
    <3>. HIDE DEF g
    <3>. QED
      BY <1>1, <2>1, <3>1, AddOne
  <2>. HIDE DEF g, o, b
  <2>4. /\ DOMAIN g.inode = DOMAIN f.inode /\ g.inode[Root].size = 0 /\ g.data = f.data
        /\ \A j \in DOMAIN f.inode : j # Root => g.inode[j] = f.inode[j]
        /\ g.inode[Root].blocks = <<>> \o s
    BY <1>6, <2>1, <2>3 DEF Longer
  <2>5. h.inode[Root].blocks # <<>> /\ h.inode[Root].blocks[1] = 0
    BY <1>5, <2>3, <2>4
  <2>6. \A j \in DOMAIN f.inode : \A k \in DOMAIN f.inode[j].blocks : FALSE
    BY <1>1, <2>1 DEF Apart
  <2>7. root.size \in 0 .. BlockSize - 1
    BY <1>3, <2>1
  <2>8. /\ \A p \in 0 .. BlockSize - 1 :
              h.data[0][p] = IF p = root.size THEN Dirent(n, u) ELSE f.data[0][p]
        /\ \A c \in DataBlock \ {0}, p \in 0 .. BlockSize - 1 : h.data[c][p] = f.data[c][p]
    BY <1>3, <1>5, <2>1, <2>2, <2>4
  <2>9. /\ DOMAIN h.inode = DOMAIN f.inode
        /\ \A j \in DOMAIN f.inode : j # Root => h.inode[j] = f.inode[j]
        /\ h.inode[Root].size = root.size + 1
    BY <1>5, <2>1, <2>4
  <2>. QED
    BY <2>5, <2>6, <2>7, <2>8, <2>9 DEF Entered
<1>7. CASE root.blocks # <<>>
  <2>1. root.blocks[1] = 0 /\ root.size \in 1 .. BlockSize
    BY <1>7 DEF Directory
  <2>2. Len(root.blocks) = 1
    BY <1>2, <1>7, ShortSeq DEF RootBlocks
  <2>3. o # 0
    <3>. SUFFICES ASSUME o = 0  PROVE FALSE
      OBVIOUS
    <3>1. PICK s \in Seq(DataBlock) : Longer(g, f, Root, s) /\ Len(s) = 1
      <4>1. g = AddBlocks(f, Root, 1) /\ CanAdd(f, Root, 1)
        OBVIOUS
      <4>. HIDE DEF g
      <4>. QED
        BY <1>1, <4>1, AddOne
    <3>2. h.inode[Root].blocks = root.blocks \o s
      BY <1>5, <3>1 DEF Longer
    <3>3. Len(root.blocks \o s) = 2
      <4>1. PICK a \in Seq(DataBlock) : a = root.blocks /\ Len(a) = 1
        BY <1>2, <2>2
      <4>2. Len(a \o s) = 2
        <5>1. s \in Seq(DataBlock) /\ Len(s) = 1
          BY <3>1
        <5>2. Len(a \o s) = Len(a) + Len(s)
          OBVIOUS
        <5>. QED
          BY <4>1, <5>1, <5>2
      <4>. QED
        BY <4>1, <4>2
    <3>. QED
      BY <3>2, <3>3 DEF RootBlocks
  <2>4. g = f
    BY <2>3
  <2>5. root.size < BlockSize /\ root.size \div BlockSize = 0 /\ o = root.size
    <3>1. root.size # BlockSize
      <4>1. BlockSize % BlockSize = 0
        <5>1. PICK B \in Nat \ {0} : B = BlockSize
          BY <1>3
        <5>2. B % B = 0
          OBVIOUS
        <5>. QED
          BY <5>1, <5>2
      <4>. QED
        BY <2>3, <4>1
    <3>2. root.size < BlockSize
      BY <1>3, <2>1, <3>1
    <3>. QED
      BY <1>2, <3>2, Places
  <2>6. b = 0
    BY <2>1, <2>3, <2>5
  <2>. HIDE DEF g, o, b
  <2>7. 1 \in DOMAIN root.blocks
    BY <1>2, <2>2
  <2>8. \A j \in DOMAIN f.inode \ {Root} : \A k \in DOMAIN f.inode[j].blocks :
           f.inode[j].blocks[k] # 0
    BY <1>1, <2>1, <2>7 DEF Apart
  <2>9. root.size \in 0 .. BlockSize - 1
    BY <1>2, <1>3, <2>5
  <2>10. /\ \A p \in 0 .. BlockSize - 1 :
               h.data[0][p] = IF p = root.size THEN Dirent(n, u) ELSE f.data[0][p]
         /\ \A c \in DataBlock \ {0}, p \in 0 .. BlockSize - 1 : h.data[c][p] = f.data[c][p]
    BY <1>3, <1>5, <2>4, <2>5, <2>6
  <2>11. /\ DOMAIN h.inode = DOMAIN f.inode
         /\ \A j \in DOMAIN f.inode : j # Root => h.inode[j] = f.inode[j]
         /\ h.inode[Root].size = root.size + 1
         /\ h.inode[Root].blocks # <<>> /\ h.inode[Root].blocks[1] = 0
    BY <1>5, <1>7, <2>1, <2>4
  <2>. QED
    BY <2>8, <2>9, <2>10, <2>11 DEF Entered
<1>. QED
  BY <1>6, <1>7

\* The new file is found, and the others stay.
LEMMA EnteredFinds ==
  ASSUME NEW f, Shaped(f), Directory(f), RootBlocks(f) <= 1, NEW n, GetInode(f, n) = {},
         NEW u \in DOMAIN f.inode \ {Root}, \A m : u \notin GetInode(f, m),
         NEW h, Shaped(h), Entered(h, f, n, u), RootBlocks(h) <= 1
  PROVE  /\ Directory(h)
         /\ \A m, i : i \in GetInode(h, m) <=> (m = n /\ i = u) \/ i \in GetInode(f, m)
<1>. DEFINE z == f.inode[Root].size
            E(p) == f.data[0][p]
            F(p) == h.data[0][p]
<1>1. z \in 0 .. BlockSize - 1 /\ BlockSize \in Nat /\ h.inode[Root].size = z + 1
  BY MinixfsAssumption DEF Entered
<1>2. \A p \in 0 .. z - 1 : F(p) = E(p)
  <2>. TAKE p \in 0 .. z - 1
  <2>1. p \in 0 .. BlockSize - 1 /\ p # z
    BY <1>1
  <2>. QED
    BY <2>1 DEF Entered
<1>3. F(z) = Dirent(n, u) /\ F(z)[1] = n /\ F(z)[2] = u
  <2>1. F(z) = Dirent(n, u)
    BY <1>1 DEF Entered
  <2>. QED
    BY <2>1 DEF Dirent
<1>4. ASSUME NEW p \in 0 .. z - 1
      PROVE  /\ E(p) = Dirent(E(p)[1], E(p)[2]) /\ E(p)[2] \in DOMAIN f.inode \ {Root}
             /\ E(p)[1] # n /\ E(p)[2] # u
  <2>1. E(p) = Dirent(E(p)[1], E(p)[2]) /\ E(p)[2] \in DOMAIN f.inode \ {Root}
    BY <1>4 DEF Directory
  <2>2. E(p)[2] \in GetInode(f, E(p)[1])
    BY <1>4, <2>1, FindIs
  <2>. QED
    BY <2>1, <2>2
<1>5. \A p, q \in 0 .. z - 1 : p # q => E(p)[1] # E(q)[1] /\ E(p)[2] # E(q)[2]
  BY DEF Directory
<1>6. \A p \in 0 .. z : p \in 0 .. z - 1 \/ p = z
  BY <1>1
<1>. HIDE DEF E, F, z
<1>7. \A p \in 0 .. z : F(p) = Dirent(F(p)[1], F(p)[2]) /\ F(p)[2] \in DOMAIN h.inode \ {Root}
  <2>. TAKE p \in 0 .. z
  <2>1. CASE p = z
    BY <1>3, <2>1 DEF Entered
  <2>2. CASE p \in 0 .. z - 1
    BY <1>2, <1>4, <2>2 DEF Entered
  <2>. QED
    BY <1>6, <2>1, <2>2
<1>8. \A p, q \in 0 .. z : p # q => F(p)[1] # F(q)[1] /\ F(p)[2] # F(q)[2]
  BY <1>2, <1>3, <1>4, <1>5, <1>6
<1>9. Directory(h)
  <2>1. h.inode[Root].blocks # <<>> /\ h.inode[Root].blocks[1] = 0
    BY DEF Entered
  <2>2. h.inode[Root].size \in 1 .. BlockSize /\ 0 .. h.inode[Root].size - 1 = 0 .. z
    BY <1>1 DEF z
  <2>. QED
    BY <1>7, <1>8, <2>1, <2>2 DEF Directory, F
<1>10. ASSUME NEW m, NEW i
       PROVE  i \in GetInode(h, m) <=> (m = n /\ i = u) \/ i \in GetInode(f, m)
  <2>1. i \in GetInode(h, m) <=> \E p \in 0 .. z : F(p) = Dirent(m, i)
    <3>1. 0 .. h.inode[Root].size - 1 = 0 .. z
      BY <1>1 DEF z
    <3>2. i \in GetInode(h, m) <=>
             \E p \in 0 .. h.inode[Root].size - 1 : h.data[0][p] = Dirent(m, i)
      BY <1>9, FindIs
    <3>. QED
      BY <3>1, <3>2 DEF F
  <2>2. i \in GetInode(f, m) <=> \E p \in 0 .. z - 1 : E(p) = Dirent(m, i)
    BY FindIs DEF E, z
  <2>3. F(z) = Dirent(m, i) <=> m = n /\ i = u
    BY <1>3 DEF Dirent
  <2>4. z \in 0 .. z /\ \A p \in 0 .. z - 1 : p \in 0 .. z
    BY <1>1
  <2>. QED
    BY <1>2, <1>6, <2>1, <2>2, <2>3, <2>4
<1>. QED
  BY <1>9, <1>10

\* The new file is empty, and the others have what they had.
LEMMA EnteredKeeps ==
  ASSUME NEW f, Intact(f), Directory(f), RootBlocks(f) <= 1,
         NEW n \in Name, GetInode(f, n) = {},
         NEW u \in DOMAIN f.inode \ {Root}, f.inode[u] = NewInode, \A m : u \notin GetInode(f, m),
         NEW h, Shaped(h), Entered(h, f, n, u), RootBlocks(h) <= 1,
         NEW fl, NEW mis, FilesOK(f, fl, mis)
  PROVE  FilesOK(h, Assign(fl, n, <<>>), mis)
<1>. DEFINE fl2 == Assign(fl, n, <<>>)
<1>1. Shaped(f)
  BY DEF Intact
<1>2. \A m, i : i \in GetInode(h, m) <=> (m = n /\ i = u) \/ i \in GetInode(f, m)
  BY <1>1, EnteredFinds
<1>3. /\ \A m \in DOMAIN fl : GetInode(f, m) # {} /\ fl[m] \in Seq(Bytes)
      /\ \A m \in Name : GetInode(f, m) # {} => m \in DOMAIN fl
      /\ \A m \in DOMAIN fl : m \notin mis => \A i \in GetInode(f, m) : Holds(f, i, fl[m])
  BY DEF FilesOK
<1>4. n \notin DOMAIN fl
  BY <1>3
<1>5. /\ DOMAIN fl2 = DOMAIN fl \cup {n} /\ fl2[n] = <<>>
      /\ \A m \in DOMAIN fl : fl2[m] = fl[m]
  BY <1>4 DEF Assign
<1>. HIDE DEF fl2
<1>6. \A m \in DOMAIN fl2 : GetInode(h, m) # {} /\ fl2[m] \in Seq(Bytes)
  <2>1. <<>> \in Seq(Bytes)
    OBVIOUS
  <2>2. \A m \in DOMAIN fl : GetInode(h, m) # {} /\ fl2[m] \in Seq(Bytes)
    BY <1>2, <1>3, <1>5
  <2>3. GetInode(h, n) # {} /\ fl2[n] \in Seq(Bytes)
    BY <1>2, <1>5, <2>1
  <2>. QED
    BY <1>5, <2>2, <2>3
<1>7. \A m \in Name : GetInode(h, m) # {} => m \in DOMAIN fl2
  <2>. SUFFICES ASSUME NEW m \in Name, NEW i \in GetInode(h, m)  PROVE m \in DOMAIN fl2
    OBVIOUS
  <2>1. m = n \/ i \in GetInode(f, m)
    BY <1>2
  <2>. QED
    BY <1>3, <1>5, <2>1
<1>8. Holds(h, u, <<>>)
  <2>1. h.inode[u] = NewInode
    BY DEF Entered
  <2>2. h.inode[u].size = 0 /\ Len(<<>>) = 0
    BY <2>1 DEF NewInode
  <2>. QED
    BY <2>2 DEF Holds
<1>9. ASSUME NEW m \in DOMAIN fl, m \notin mis, NEW i \in GetInode(f, m)
      PROVE  Holds(h, i, fl[m])
  <2>1. i \in DOMAIN f.inode \ {Root}
    BY <1>1, <1>9, FindOne
  <2>2. Holds(f, i, fl[m]) /\ Len(fl[m]) \in Nat
    BY <1>3, <1>9
  <2>3. h.inode[i] = f.inode[i]
    BY <2>1 DEF Entered
  <2>4. \A k \in DOMAIN f.inode[i].blocks : f.inode[i].blocks[k] \in DataBlock \ {0}
    <3>1. \A k \in DOMAIN f.inode[i].blocks : f.inode[i].blocks[k] # 0
      BY <2>1 DEF Entered
    <3>2. f.inode[i].blocks \in Seq(DataBlock)
      BY <1>1, <2>1, InodeIs
    <3>. QED
      BY <3>1, <3>2
  <2>5. \A c \in DataBlock \ {0}, p \in 0 .. BlockSize - 1 : h.data[c][p] = f.data[c][p]
    BY DEF Entered
  <2>6. \A k \in DOMAIN f.inode[i].blocks : \A p \in 0 .. BlockSize - 1 :
           h.data[f.inode[i].blocks[k]][p] = f.data[f.inode[i].blocks[k]][p]
    BY ONLY <2>4, <2>5
  <2>7. Shaped(f) /\ i \in DOMAIN f.inode /\ FileSame(f, h, i)
    BY <1>1, <2>1, <2>3, <2>6 DEF FileSame
  <2>. QED
    BY ONLY <2>2, <2>7, HoldsStays
<1>10. ASSUME NEW m \in DOMAIN fl2, m \notin mis, NEW i \in GetInode(h, m)
       PROVE  Holds(h, i, fl2[m])
  <2>1. CASE i \in GetInode(f, m)
    <3>1. m \in DOMAIN fl
      BY <1>4, <1>5, <2>1
    <3>. QED
      BY <1>5, <1>9, <1>10, <2>1, <3>1
  <2>2. CASE m = n /\ i = u
    BY <1>5, <1>8, <2>2
  <2>. QED
    BY <1>2, <1>10, <2>1, <2>2
<1>. QED
  BY <1>6, <1>7, <1>10 DEF FilesOK, fl2

-----------------------------------------------------------------------------
\* What is known of the files when a call has looked for its inode.
Noted(f, g, n, fl) == IF GetInode(f, n) = {} /\ GetInode(g, n) # {} THEN Assign(fl, n, <<>>) ELSE fl

\* A call that looks for its file, and creates it, keeps them.
LEMMA CreatedKeeps ==
  ASSUME NEW f, Intact(f), Directory(f), RootBlocks(f) <= 1, NEW n \in Name,
         NEW fl, NEW mis, FilesOK(f, fl, mis),
         NEW g, g = Created(f, n), RootBlocks(g) <= 1
  PROVE  Directory(g) /\ FilesOK(g, Noted(f, g, n, fl), mis)
<1>1. CASE ~Creatable(f, n)
  <2>1. g = f
    BY <1>1 DEF Created
  <2>. QED
    BY <2>1 DEF Noted
<1>2. CASE Creatable(f, n)
  <2>1. PICK a, u : a = Initialised(f) /\ u = Min(UnusedInodes(f))
    OBVIOUS
  <2>2. /\ Directory(a) /\ RootBlocks(a) <= 1
        /\ u \in DOMAIN a.inode /\ u # Root /\ a.inode[u] = NewInode
        /\ \A m : GetInode(a, m) = GetInode(f, m) /\ u \notin GetInode(a, m)
        /\ FilesOK(a, fl, mis)
    BY <1>2, <2>1, InitialisedKeeps
  <2>3. Intact(a)
    BY <1>2, <2>1, InitialisedSound
  <2>4. GetInode(f, n) = {} /\ GetInode(a, n) = {}
    BY <1>2, <2>2 DEF Creatable
  <2>5. CASE a.inode[Root].size % BlockSize = 0 /\ ~CanAdd(a, Root, 1)
    <3>1. g = a
      BY <1>2, <2>1, <2>5 DEF Created
    <3>. QED
      BY <2>2, <2>4, <3>1 DEF Noted
  <2>6. CASE a.inode[Root].size % BlockSize = 0 => CanAdd(a, Root, 1)
    <3>1. g = Enter(a, n, u)
      BY <1>2, <2>1, <2>6 DEF Created
    <3>2. Intact(g)
      BY <2>3, <2>6, <3>1, EnterSound
    <3>3. Entered(g, a, n, u)
      BY <2>2, <2>3, <2>6, <3>1, EnteredIs
    <3>4. Shaped(g) /\ Shaped(a)
      BY <2>3, <3>2 DEF Intact
    <3>5. /\ Directory(g)
          /\ \A m, i : i \in GetInode(g, m) <=> (m = n /\ i = u) \/ i \in GetInode(a, m)
      BY <2>2, <2>4, <3>3, <3>4, EnteredFinds
    <3>6. FilesOK(g, Assign(fl, n, <<>>), mis)
      BY <2>2, <2>3, <2>4, <3>3, <3>4, EnteredKeeps
    <3>7. Noted(f, g, n, fl) = Assign(fl, n, <<>>)
      BY <2>4, <3>5 DEF Noted
    <3>. QED
      BY <3>5, <3>6, <3>7
  <2>. QED
    BY <2>5, <2>6
<1>. QED
  BY <1>1, <1>2

\* The inductive invariant: blocks are never shared; and as long as the
\* directory lies in its first block, what is found is what was created.
MinixfsInv ==
  /\ Intact(fs) /\ writes \in Nat
  /\ RootBlocks(fs) <= 1 => Directory(fs) /\ FilesOK(fs, files, misplaced)

\* A new file system has an empty directory and no blocks.
LEMMA MinixfsStart == MinixfsInit => MinixfsInv
<1>. SUFFICES ASSUME MinixfsInit  PROVE MinixfsInv
  OBVIOUS
<1>1. /\ DOMAIN fs = {"inode", "used", "data"} /\ DOMAIN fs.inode = {Root}
      /\ fs.inode[Root] = NewInode /\ fs.used = {}
      /\ DOMAIN fs.data = DataBlock
      /\ \A b \in DataBlock : DOMAIN fs.data[b] = 0 .. BlockSize - 1
  BY DEF MinixfsInit
<1>2. NewInode \in InodeRecord /\ NewInode.size = 0 /\ NewInode.blocks = <<>>
  BY DEF NewInode, InodeRecord
<1>3. Shaped(fs)
  BY <1>1, <1>2 DEF Shaped
<1>4. Apart(fs)
  BY <1>1, <1>2 DEF Apart
<1>5. 0 .. fs.inode[Root].size - 1 = {}
  BY <1>1, <1>2
<1>6. Directory(fs)
  BY <1>1, <1>2, <1>5 DEF Directory
<1>7. \A n : GetInode(fs, n) = {}
  BY <1>5 DEF GetInode
<1>8. files = <<>> /\ writes = 0 /\ DOMAIN files = {}
  BY DEF MinixfsInit
<1>9. FilesOK(fs, files, misplaced)
  BY <1>7, <1>8 DEF FilesOK
<1>. QED
  BY <1>3, <1>4, <1>6, <1>8, <1>9 DEF MinixfsInv, Intact

\* What the disk and the history are when a directory in one block is kept.
Kept(f, fl, mis) == RootBlocks(f) <= 1 => Directory(f) /\ FilesOK(f, fl, mis)

\* A call that looks for its inode leaves it kept, and what it has found.
LEMMA LookedUp ==
  ASSUME MinixfsInv, NEW n \in Name, NEW f, f = Created(fs, n)
  PROVE  /\ Intact(f) /\ RootBlocks(f) \in Nat
         /\ Kept(f, Noted(fs, f, n, files), misplaced)
<1>1. Intact(fs) /\ Intact(f) /\ RootBlocks(fs) <= RootBlocks(f)
  BY CreatedSound DEF MinixfsInv
<1>2. RootBlocks(f) \in Nat /\ RootBlocks(fs) \in Nat
  BY <1>1, InodeIs DEF Intact, Shaped, RootBlocks
<1>3. ASSUME RootBlocks(f) <= 1
      PROVE  Directory(f) /\ FilesOK(f, Noted(fs, f, n, files), misplaced)
  <2>1. RootBlocks(fs) <= 1
    BY <1>1, <1>2, <1>3
  <2>. QED
    BY <1>1, <1>3, <2>1, CreatedKeeps DEF MinixfsInv
<1>. QED
  BY <1>1, <1>2, <1>3 DEF Kept

\* More blocks for its file keep it.
LEMMA AddedKeeps ==
  ASSUME NEW f, Intact(f), RootBlocks(f) \in Nat, NEW fl, NEW mis, Kept(f, fl, mis),
         NEW n, NEW i \in GetInode(f, n), NEW k \in Nat, CanAdd(f, i, k),
         NEW g, g = AddBlocks(f, i, k)
  PROVE  /\ Intact(g) /\ Kept(g, fl, mis) /\ RootBlocks(f) <= RootBlocks(g)
         /\ RootBlocks(g) \in Nat
<1>1. i \in DOMAIN f.inode
  BY DEF GetInode
<1>2. Intact(g) /\ RootBlocks(f) <= RootBlocks(g)
  BY <1>1, AddBlocksSound
<1>3. RootBlocks(g) \in Nat
  BY <1>2, InodeIs DEF Intact, Shaped, RootBlocks
<1>4. ASSUME RootBlocks(g) <= 1  PROVE Directory(g) /\ FilesOK(g, fl, mis)
  <2>1. RootBlocks(f) <= 1
    BY <1>2, <1>3, <1>4
  <2>. QED
    BY <2>1, AddBlocksKeeps DEF Kept
<1>. QED
  BY <1>2, <1>3, <1>4 DEF Kept

\* A call that has its blocks writes, and the history follows.
LEMMA WrittenKeeps ==
  ASSUME NEW f, Intact(f), RootBlocks(f) \in Nat, NEW fl, NEW mis, Kept(f, fl, mis),
         NEW n \in Name, NEW i \in GetInode(f, n), NEW off \in Nat, NEW amount \in Nat,
         NEW v \in Nat, CanAdd(f, i, Missing(f, i, off, amount)),
         NEW g, g = Copy(AddBlocks(f, i, Missing(f, i, off, amount)), i, off, amount, v)
  PROVE  Kept(g, Appended(fl, n, amount, v), Strayed(f, i, n, off, mis))
<1>. SUFFICES ASSUME RootBlocks(g) <= 1
     PROVE  Directory(g) /\ FilesOK(g, Appended(fl, n, amount, v), Strayed(f, i, n, off, mis))
  BY DEF Kept
<1>1. i \in DOMAIN f.inode /\ Shaped(f)
  BY DEF GetInode, Intact
<1>2. PICK z \in Nat : /\ z = Missing(f, i, off, amount)
                       /\ (off + amount) \div BlockSize + 1 <= Len(f.inode[i].blocks) + z
  BY <1>1, MissingIs
<1>3. PICK a : a = AddBlocks(f, i, z)
  OBVIOUS
<1>4. CanAdd(f, i, z) /\ g = Copy(a, i, off, amount, v)
  BY <1>2, <1>3
<1>5. Intact(a) /\ RootBlocks(f) <= RootBlocks(a) /\ RootBlocks(a) \in Nat
  BY <1>3, <1>4, AddedKeeps
<1>6. i \in DOMAIN a.inode
  BY <1>1, <1>3, <1>4, AddBlocksIs DEF Longer
<1>7. RootBlocks(a) = RootBlocks(g)
  BY <1>4, <1>5, <1>6, CopySound
<1>8. RootBlocks(f) <= 1 /\ RootBlocks(a) <= 1
  BY <1>5, <1>7
<1>9. Directory(f) /\ FilesOK(f, fl, mis)
  BY <1>8 DEF Kept
<1>10. /\ Directory(a) /\ GetInode(a, n) = GetInode(f, n)
       /\ a.inode[i].size = f.inode[i].size
       /\ Len(a.inode[i].blocks) = Len(f.inode[i].blocks) + z
       /\ FilesOK(a, fl, mis)
  BY <1>3, <1>4, <1>8, <1>9, AddBlocksKeeps
<1>11. i \in GetInode(a, n) /\ (off + amount) \div BlockSize + 1 <= Len(a.inode[i].blocks)
  BY <1>2, <1>10
<1>12. Directory(g) /\ FilesOK(g, Appended(fl, n, amount, v), Strayed(a, i, n, off, mis))
  BY <1>4, <1>5, <1>8, <1>10, <1>11, CopyKeeps
<1>13. Strayed(a, i, n, off, mis) = Strayed(f, i, n, off, mis)
  BY <1>10 DEF Strayed
<1>. QED
  BY <1>12, <1>13

\* What is written replaces what was noted of a name.
LEMMA WithTwice ==
  ASSUME NEW f, NEW x, NEW v, NEW w
  PROVE  Assign(Assign(f, x, v), x, w) = Assign(f, x, w) /\ Assign(f, x, v)[x] = v
<1>1. DOMAIN Assign(f, x, v) \cup {x} = DOMAIN f \cup {x} /\ x \in DOMAIN Assign(f, x, v)
  BY DEF Assign
<1>2. \A y \in DOMAIN f \cup {x} : y # x => Assign(f, x, v)[y] = f[y]
  BY DEF Assign
<1>. QED
  BY <1>1, <1>2 DEF Assign

\* minixfs_create_inode_for_path and minixfs_write, succeeding or not.
LEMMA MinixfsStep ==
  ASSUME MinixfsInv, \A amount \in Lengths : amount \in Nat, [MinixfsNext]_minixfsVars
  PROVE  MinixfsInv'
<1>1. Intact(fs') /\ writes' \in Nat
  BY MinixfsSound DEF MinixfsInv
<1>. SUFFICES Kept(fs', files', misplaced')
  BY <1>1 DEF MinixfsInv, Kept
<1>2. CASE UNCHANGED minixfsVars
  BY <1>2 DEF minixfsVars, MinixfsInv, Kept
<1>3. ASSUME NEW n \in Name, CreateInodeForPath(n)  PROVE Kept(fs', files', misplaced')
  <2>1. fs' = Created(fs, n) /\ misplaced' = misplaced
    BY <1>3 DEF CreateInodeForPath
  <2>2. files' = Noted(fs, fs', n, files)
    BY <1>3 DEF CreateInodeForPath, Note, Noted
  <2>. QED
    BY <2>1, <2>2, LookedUp
<1>4. ASSUME NEW n \in Name, NEW amount \in Lengths, WriteFile(n, amount)
      PROVE  Kept(fs', files', misplaced')
  <2>1. PICK f : f = Created(fs, n)
    OBVIOUS
  <2>2. PICK fl : fl = Noted(fs, f, n, files)
    OBVIOUS
  <2>3. Intact(f) /\ RootBlocks(f) \in Nat /\ Kept(f, fl, misplaced)
    BY <2>1, <2>2, LookedUp
  <2>4. PICK off \in {0} \cup { fs.inode[i].size : i \in GetInode(fs, n) } :
           WriteFails(n, off, amount) \/ WriteSucceeds(n, off, amount)
    BY <1>4 DEF WriteFile
  <2>5. off \in Nat /\ amount \in Nat /\ writes + 1 \in Nat
    <3>1. \A i \in GetInode(fs, n) : fs.inode[i].size \in Nat
      BY InodeIs DEF GetInode, Intact, MinixfsInv
    <3>. QED
      BY <3>1 DEF MinixfsInv
  <2>6. ASSUME WriteFails(n, off, amount)  PROVE Kept(fs', files', misplaced')
    <3>1. files' = fl /\ misplaced' = misplaced
      BY <2>1, <2>2, <2>6 DEF WriteFails, Note, Noted
    <3>2. CASE GetInode(f, n) = {} /\ fs' = f
      BY <2>3, <3>1, <3>2
    <3>3. ASSUME NEW i \in GetInode(f, n), NEW k \in 0 .. Missing(f, i, off, amount) - 1,
                 CanAdd(f, i, k), fs' = AddBlocks(f, i, k)
          PROVE  Kept(fs', files', misplaced')
      <4>1. k \in Nat
        <5>1. i \in DOMAIN f.inode
          BY DEF GetInode
        <5>2. Missing(f, i, off, amount) \in Nat
          BY <2>3, <2>5, <5>1, MissingIs DEF Intact
        <5>. QED
          BY <5>2
      <4>. QED
        BY <2>3, <3>1, <3>3, <4>1, AddedKeeps
    <3>. QED
      BY <2>1, <2>6, <3>2, <3>3 DEF WriteFails
  <2>7. ASSUME WriteSucceeds(n, off, amount)  PROVE Kept(fs', files', misplaced')
    <3>1. PICK i \in GetInode(f, n) :
             /\ CanAdd(f, i, Missing(f, i, off, amount))
             /\ fs' = Copy(AddBlocks(f, i, Missing(f, i, off, amount)), i, off, amount, writes + 1)
             /\ files' = LET old == IF GetInode(fs, n) = {} THEN <<>> ELSE files[n]
                         IN  Assign(files, n, old \o [k \in 1..amount |-> Byte(writes + 1)])
             /\ misplaced' = IF off = f.inode[i].size THEN misplaced ELSE misplaced \cup {n}
      BY <2>1, <2>7 DEF WriteSucceeds
    <3>2. PICK more : more = [k \in 1..amount |-> Byte(writes + 1)]
      OBVIOUS
    <3>3. files' = Assign(fl, n, fl[n] \o more)
      <4>1. GetInode(f, n) # {}
        OBVIOUS
      <4>. DEFINE old == IF GetInode(fs, n) = {} THEN <<>> ELSE files[n]
      <4>0. files' = Assign(files, n, old \o more)
        BY <3>1, <3>2
      <4>2. CASE GetInode(fs, n) = {}
        <5>1. fl = Assign(files, n, <<>>)
          BY <2>2, <4>1, <4>2 DEF Noted
        <5>2. files' = Assign(files, n, <<>> \o more)
          BY <4>0, <4>2
        <5>3. fl[n] = <<>> /\ Assign(fl, n, <<>> \o more) = Assign(files, n, <<>> \o more)
          BY <5>1, WithTwice
        <5>. QED
          BY <5>2, <5>3
      <4>3. CASE GetInode(fs, n) # {}
        <5>1. fl = files
          BY <2>2, <4>3 DEF Noted
        <5>. QED
          BY <4>0, <4>3, <5>1
      <4>. QED
        BY <4>2, <4>3
    <3>4. /\ files' = Appended(fl, n, amount, writes + 1)
          /\ misplaced' = Strayed(f, i, n, off, misplaced)
      BY <3>1, <3>2, <3>3 DEF Appended, Strayed
    <3>5. PICK v \in Nat : v = writes + 1
      BY <2>5
    <3>6. PICK g : g = fs'
      OBVIOUS
    <3>7. /\ CanAdd(f, i, Missing(f, i, off, amount))
          /\ g = Copy(AddBlocks(f, i, Missing(f, i, off, amount)), i, off, amount, v)
      BY <3>1, <3>5, <3>6
    <3>8. Kept(g, Appended(fl, n, amount, v), Strayed(f, i, n, off, misplaced))
      BY <2>3, <2>5, <3>7, WrittenKeeps
    <3>. QED
      BY <3>4, <3>5, <3>6, <3>8
  <2>. QED
    BY <2>4, <2>6, <2>7
<1>. QED
  BY <1>2, <1>3, <1>4 DEF MinixfsNext

\* What minixfs_read returns of a file is what it holds.
LEMMA ContentIs ==
  ASSUME NEW f, Shaped(f), NEW i \in DOMAIN f.inode, NEW s \in Seq(Bytes), Holds(f, i, s)
  PROVE  Content(f, i) = s
<1>1. Len(s) \in Nat /\ f.inode[i].size = Len(s) /\ DOMAIN s = 1 .. Len(s)
  BY DEF Holds
<1>2. ASSUME NEW k \in 1 .. Len(s)  PROVE Unit(f, i, k - 1) = s[k]
  <2>1. PICK p \in 0 .. Len(s) - 1 : p = k - 1 /\ p + 1 = k
    BY <1>1
  <2>2. /\ p \div BlockSize + 1 \in DOMAIN f.inode[i].blocks
        /\ f.data[f.inode[i].blocks[p \div BlockSize + 1]][p % BlockSize] = s[p + 1]
    BY DEF Holds
  <2>. QED
    BY <2>1, <2>2 DEF Unit
<1>3. Content(f, i) = [k \in 1 .. Len(s) |-> s[k]]
  BY <1>1, <1>2 DEF Content
<1>. QED
  BY <1>1, <1>3

\* The invariant says what a reader of the files finds.
LEMMA MinixfsInvKept == MinixfsInv => FilesKept
<1>. SUFFICES ASSUME MinixfsInv, RootBlocks(fs) <= 1, NEW n \in DOMAIN files
     PROVE  \E i \in GetInode(fs, n) : n \in misplaced \/ Content(fs, i) = files[n]
  BY DEF FilesKept, RootBlocks
<1>1. Shaped(fs) /\ FilesOK(fs, files, misplaced)
  BY DEF MinixfsInv, Intact
<1>2. PICK i \in GetInode(fs, n) : i \in DOMAIN fs.inode
  BY <1>1 DEF FilesOK, GetInode
<1>3. n \notin misplaced => Holds(fs, i, files[n]) /\ files[n] \in Seq(Bytes)
  BY <1>1 DEF FilesOK
<1>. QED
  BY <1>1, <1>2, <1>3, ContentIs

\* As long as the directory lies in one block, minixfs_read finds every file that
\* was created, and in one that was only written at its end all that
\* minixfs_write wrote to it, for any names, disk, blocks and lengths: no block is
\* ever of two files, or twice in one.
THEOREM MinixfsFilesKept == MinixfsSpec => []FilesKept
<1>1. MinixfsInv /\ [MinixfsNext]_minixfsVars => MinixfsInv'
  BY MinixfsStep, MinixfsAssumption
<1>. QED
  BY <1>1, MinixfsStart, MinixfsInvKept, PTL DEF MinixfsSpec

-----------------------------------------------------------------------------
(* The heap.  Lemmas about one function of the heap have it as h, and what it
   becomes as g. *)

\* The parts of a heap.
Blocks(h)    == DOMAIN h.node
IsFree(h, a) == h.node[a].free
Marks(h)     == DOMAIN h.mark
MarkAt(h, m) == h.mark[m]
ListOf(h)    == h.list
Brk(h)       == h.brk

\* Addresses and sizes are numbers, and no block is empty.
IsHeap(h) ==
  /\ Blocks(h) \subseteq Nat
  /\ \A a \in Blocks(h) : SizeOf(h, a) \in Nat \ {0}
  /\ ListOf(h) \in Seq(Nat) /\ Brk(h) \in Nat

\* The blocks lie side by side from Start to the break.
Tiled(h) ==
  /\ \A a \in Blocks(h) : Start <= a /\ After(h, a) <= Brk(h)
  /\ \A a, b \in Blocks(h) : a < b => After(h, a) <= b
  /\ \A a \in Blocks(h) : After(h, a) = Brk(h) \/ After(h, a) \in Blocks(h)
  /\ \A b \in Blocks(h) \cup {Brk(h)} : b = Start \/ \E a \in Blocks(h) : After(h, a) = b
  /\ Brk(h) = Start \/ (Brk(h) <= Limit /\ Start \in Blocks(h))

\* Each has a mark that repeats its size, and there is no other mark.
Marked(h) == /\ Marks(h) = { MarkOf(h, a) : a \in Blocks(h) }
             /\ \A a \in Blocks(h) : MarkAt(h, MarkOf(h, a)) = SizeOf(h, a)

\* The list has the free blocks, once each.
Listed(h) == /\ ToSet(ListOf(h)) = { a \in Blocks(h) : IsFree(h, a) }
             /\ IsInjective(ListOf(h))

Sound(h) == IsHeap(h) /\ Tiled(h) /\ Marked(h) /\ Listed(h)

\* All other blocks have been given out, and are large enough.
Used(h) == { b \in Blocks(h) : ~IsFree(h, b) }

Given(h, l) ==
  /\ DOMAIN l = { Payload(a) : a \in Used(h) }
  /\ \A p \in DOMAIN l : l[p] \in Nat \ {0} /\ l[p] <= SizeOf(h, p - STRUCT_SIZE)

\* The inductive invariant.
HeapInv == Sound(heap) /\ Given(heap, live)

USE HeapAssumption

-----------------------------------------------------------------------------
\* META, the metadata of a block: its header and its mark.
LEMMA MetaIs == META \in Nat /\ META > 0 /\ META = STRUCT_SIZE + DATA_SIZE_SIZE
BY DEF META

\* A block, its mark and its end are addresses in this order.
LEMMA SizeIs ==
  ASSUME NEW h, NEW a, IsHeap(h), a \in Blocks(h)
  PROVE  /\ a \in Nat /\ SizeOf(h, a) \in Nat \ {0}
         /\ After(h, a) = a + META + SizeOf(h, a) /\ After(h, a) \in Nat
         /\ MarkOf(h, a) = After(h, a) - DATA_SIZE_SIZE /\ MarkOf(h, a) \in Nat
         /\ a < After(h, a) /\ a < MarkOf(h, a) /\ MarkOf(h, a) < After(h, a)
<1>1. a \in Nat /\ SizeOf(h, a) \in Nat \ {0}
  BY DEF IsHeap
<1>. QED
  BY <1>1, MetaIs DEF After, MarkOf

\* The parts of a record of the four parts.
LEMMA PartsAre ==
  ASSUME NEW node, NEW mark, NEW list, NEW brk, NEW g,
         g = [node |-> node, mark |-> mark, list |-> list, brk |-> brk]
  PROVE  /\ Blocks(g) = DOMAIN node /\ \A b : SizeOf(g, b) = node[b].size
         /\ \A b : IsFree(g, b) <=> node[b].free
         /\ Marks(g) = DOMAIN mark /\ \A m : MarkAt(g, m) = mark[m]
         /\ ListOf(g) = list /\ Brk(g) = brk
BY DEF Blocks, SizeOf, IsFree, Marks, MarkAt, ListOf, Brk

\* A function changed at x is the one it was elsewhere.
LEMMA WithIs ==
  ASSUME NEW f, NEW x, NEW y
  PROVE  /\ DOMAIN With(f, x, y) = DOMAIN f \cup {x} /\ With(f, x, y)[x] = y
         /\ \A z \in DOMAIN f \ {x} : With(f, x, y)[z] = f[z]
BY DEF With

\* A header and a mark written.
LEMMA InUseIs ==
  ASSUME NEW h, NEW a, NEW size, NEW m, NEW g, IsHeap(h), a \in Nat, size \in Nat \ {0},
         m = a + STRUCT_SIZE + size, g = Block(h, a, InUse(size))
  PROVE  /\ IsHeap(g) /\ Blocks(g) = Blocks(h) \cup {a}
         /\ SizeOf(g, a) = size /\ ~IsFree(g, a)
         /\ \A b \in Blocks(h) \ {a} : SizeOf(g, b) = SizeOf(h, b)
                                     /\ (IsFree(g, b) <=> IsFree(h, b))
         /\ Marks(g) = Marks(h) \cup {m} /\ MarkAt(g, m) = size
         /\ \A k \in Marks(h) \ {m} : MarkAt(g, k) = MarkAt(h, k)
         /\ ListOf(g) = ListOf(h) /\ Brk(g) = Brk(h)
<1>. DEFINE node == With(h.node, a, InUse(size))
            mark == With(h.mark, m, size)
<1>1. g = [node |-> node, mark |-> mark, list |-> h.list, brk |-> h.brk]
  BY DEF Block, InUse
<1>2. /\ DOMAIN node = Blocks(h) \cup {a} /\ node[a] = InUse(size)
      /\ \A b \in Blocks(h) \ {a} : node[b] = h.node[b]
      /\ DOMAIN mark = Marks(h) \cup {m} /\ mark[m] = size
      /\ \A k \in Marks(h) \ {m} : mark[k] = h.mark[k]
  BY DEF With, Blocks, Marks
<1>. HIDE DEF node, mark
<1>3. /\ Blocks(g) = DOMAIN node /\ \A b : SizeOf(g, b) = node[b].size
      /\ \A b : IsFree(g, b) <=> node[b].free
      /\ Marks(g) = DOMAIN mark /\ \A k : MarkAt(g, k) = mark[k]
      /\ ListOf(g) = h.list /\ Brk(g) = h.brk
  BY <1>1, PartsAre
<1>4. SizeOf(g, a) = size /\ ~IsFree(g, a)
  <2>1. node[a].size = size /\ ~node[a].free
    BY <1>2 DEF InUse
  <2>. QED
    BY <1>3, <2>1
<1>5. \A b \in Blocks(h) \ {a} : SizeOf(g, b) = SizeOf(h, b)
                                /\ (IsFree(g, b) <=> IsFree(h, b))
  BY <1>2, <1>3 DEF SizeOf, IsFree
<1>6. /\ Marks(g) = Marks(h) \cup {m} /\ MarkAt(g, m) = size
      /\ \A k \in Marks(h) \ {m} : MarkAt(g, k) = MarkAt(h, k)
  BY <1>2, <1>3 DEF MarkAt
<1>7. Blocks(g) = Blocks(h) \cup {a} /\ ListOf(g) = ListOf(h) /\ Brk(g) = Brk(h)
  BY <1>2, <1>3 DEF ListOf, Brk
<1>8. IsHeap(g)
  BY <1>4, <1>5, <1>7 DEF IsHeap
<1>. QED
  BY <1>4, <1>5, <1>6, <1>7, <1>8

\* The same of the header of a free block.
LEMMA VacantIs ==
  ASSUME NEW h, NEW a, NEW size, NEW m, NEW g, IsHeap(h), a \in Nat, size \in Nat \ {0},
         m = a + STRUCT_SIZE + size, g = Block(h, a, Vacant(size))
  PROVE  /\ IsHeap(g) /\ Blocks(g) = Blocks(h) \cup {a}
         /\ SizeOf(g, a) = size /\ IsFree(g, a)
         /\ \A b \in Blocks(h) \ {a} : SizeOf(g, b) = SizeOf(h, b)
                                     /\ (IsFree(g, b) <=> IsFree(h, b))
         /\ Marks(g) = Marks(h) \cup {m} /\ MarkAt(g, m) = size
         /\ \A k \in Marks(h) \ {m} : MarkAt(g, k) = MarkAt(h, k)
         /\ ListOf(g) = ListOf(h) /\ Brk(g) = Brk(h)
<1>. DEFINE node == With(h.node, a, Vacant(size))
            mark == With(h.mark, m, size)
<1>1. g = [node |-> node, mark |-> mark, list |-> h.list, brk |-> h.brk]
  BY DEF Block, Vacant
<1>2. /\ DOMAIN node = Blocks(h) \cup {a} /\ node[a] = Vacant(size)
      /\ \A b \in Blocks(h) \ {a} : node[b] = h.node[b]
      /\ DOMAIN mark = Marks(h) \cup {m} /\ mark[m] = size
      /\ \A k \in Marks(h) \ {m} : mark[k] = h.mark[k]
  BY DEF With, Blocks, Marks
<1>. HIDE DEF node, mark
<1>3. /\ Blocks(g) = DOMAIN node /\ \A b : SizeOf(g, b) = node[b].size
      /\ \A b : IsFree(g, b) <=> node[b].free
      /\ Marks(g) = DOMAIN mark /\ \A k : MarkAt(g, k) = mark[k]
      /\ ListOf(g) = h.list /\ Brk(g) = h.brk
  BY <1>1, PartsAre
<1>4. SizeOf(g, a) = size /\ IsFree(g, a)
  <2>1. node[a].size = size /\ node[a].free
    BY <1>2 DEF Vacant
  <2>. QED
    BY <1>3, <2>1
<1>5. \A b \in Blocks(h) \ {a} : SizeOf(g, b) = SizeOf(h, b)
                                /\ (IsFree(g, b) <=> IsFree(h, b))
  BY <1>2, <1>3 DEF SizeOf, IsFree
<1>6. /\ Marks(g) = Marks(h) \cup {m} /\ MarkAt(g, m) = size
      /\ \A k \in Marks(h) \ {m} : MarkAt(g, k) = MarkAt(h, k)
  BY <1>2, <1>3 DEF MarkAt
<1>7. Blocks(g) = Blocks(h) \cup {a} /\ ListOf(g) = ListOf(h) /\ Brk(g) = Brk(h)
  BY <1>2, <1>3 DEF ListOf, Brk
<1>8. IsHeap(g)
  BY <1>4, <1>5, <1>7 DEF IsHeap
<1>. QED
  BY <1>4, <1>5, <1>6, <1>7, <1>8

\* Whether a block is free, and the list.
LEMMA TakenIs ==
  ASSUME NEW h, NEW a, NEW list, NEW g, IsHeap(h), a \in Blocks(h), list \in Seq(Nat),
         g = [node |-> With(h.node, a, InUse(SizeOf(h, a))), mark |-> h.mark, list |-> list, brk |-> h.brk]
  PROVE  /\ IsHeap(g) /\ Blocks(g) = Blocks(h)
         /\ \A b \in Blocks(h) : SizeOf(g, b) = SizeOf(h, b)
         /\ ~IsFree(g, a)
         /\ \A b \in Blocks(h) \ {a} : IsFree(g, b) <=> IsFree(h, b)
         /\ Marks(g) = Marks(h) /\ \A m : MarkAt(g, m) = MarkAt(h, m)
         /\ ListOf(g) = list /\ Brk(g) = Brk(h)
<1>. DEFINE node == With(h.node, a, InUse(SizeOf(h, a)))
<1>1. g = [node |-> node, mark |-> h.mark, list |-> list, brk |-> h.brk]
  OBVIOUS
<1>2. /\ DOMAIN node = Blocks(h) /\ node[a] = InUse(SizeOf(h, a))
      /\ \A b \in Blocks(h) \ {a} : node[b] = h.node[b]
  BY DEF With, Blocks
<1>. HIDE DEF node
<1>3. /\ Blocks(g) = DOMAIN node /\ \A b : SizeOf(g, b) = node[b].size
      /\ \A b : IsFree(g, b) <=> node[b].free
      /\ Marks(g) = DOMAIN h.mark /\ \A k : MarkAt(g, k) = h.mark[k]
      /\ ListOf(g) = list /\ Brk(g) = h.brk
  BY <1>1, PartsAre
<1>4. SizeOf(g, a) = SizeOf(h, a) /\ ~IsFree(g, a)
  BY <1>2, <1>3 DEF InUse
<1>5. \A b \in Blocks(h) \ {a} : SizeOf(g, b) = SizeOf(h, b)
                                /\ (IsFree(g, b) <=> IsFree(h, b))
  BY <1>2, <1>3 DEF SizeOf, IsFree
<1>6. /\ Marks(g) = Marks(h) /\ \A m : MarkAt(g, m) = MarkAt(h, m)
      /\ Blocks(g) = Blocks(h) /\ ListOf(g) = list /\ Brk(g) = Brk(h)
  BY <1>2, <1>3 DEF Marks, MarkAt, Brk
<1>7. IsHeap(g)
  BY <1>4, <1>5, <1>6 DEF IsHeap
<1>. QED
  BY <1>4, <1>5, <1>6, <1>7

\* The same of a block that becomes free.
LEMMA ReleasedIs ==
  ASSUME NEW h, NEW a, NEW list, NEW g, IsHeap(h), a \in Blocks(h), list \in Seq(Nat),
         g = [node |-> With(h.node, a, Vacant(SizeOf(h, a))), mark |-> h.mark, list |-> list, brk |-> h.brk]
  PROVE  /\ IsHeap(g) /\ Blocks(g) = Blocks(h)
         /\ \A b \in Blocks(h) : SizeOf(g, b) = SizeOf(h, b)
         /\ IsFree(g, a)
         /\ \A b \in Blocks(h) \ {a} : IsFree(g, b) <=> IsFree(h, b)
         /\ Marks(g) = Marks(h) /\ \A m : MarkAt(g, m) = MarkAt(h, m)
         /\ ListOf(g) = list /\ Brk(g) = Brk(h)
<1>. DEFINE node == With(h.node, a, Vacant(SizeOf(h, a)))
<1>1. g = [node |-> node, mark |-> h.mark, list |-> list, brk |-> h.brk]
  OBVIOUS
<1>2. /\ DOMAIN node = Blocks(h) /\ node[a] = Vacant(SizeOf(h, a))
      /\ \A b \in Blocks(h) \ {a} : node[b] = h.node[b]
  BY DEF With, Blocks
<1>. HIDE DEF node
<1>3. /\ Blocks(g) = DOMAIN node /\ \A b : SizeOf(g, b) = node[b].size
      /\ \A b : IsFree(g, b) <=> node[b].free
      /\ Marks(g) = DOMAIN h.mark /\ \A k : MarkAt(g, k) = h.mark[k]
      /\ ListOf(g) = list /\ Brk(g) = h.brk
  BY <1>1, PartsAre
<1>4. SizeOf(g, a) = SizeOf(h, a) /\ IsFree(g, a)
  BY <1>2, <1>3 DEF Vacant
<1>5. \A b \in Blocks(h) \ {a} : SizeOf(g, b) = SizeOf(h, b)
                                /\ (IsFree(g, b) <=> IsFree(h, b))
  BY <1>2, <1>3 DEF SizeOf, IsFree
<1>6. /\ Marks(g) = Marks(h) /\ \A m : MarkAt(g, m) = MarkAt(h, m)
      /\ Blocks(g) = Blocks(h) /\ ListOf(g) = list /\ Brk(g) = Brk(h)
  BY <1>2, <1>3 DEF Marks, MarkAt, Brk
<1>7. IsHeap(g)
  BY <1>4, <1>5, <1>6 DEF IsHeap
<1>. QED
  BY <1>4, <1>5, <1>6, <1>7

\* Only the list, or the break.
LEMMA RelistedIs ==
  ASSUME NEW h, NEW list, NEW g, IsHeap(h), list \in Seq(Nat), g = Relisted(h, list)
  PROVE  /\ IsHeap(g) /\ Blocks(g) = Blocks(h)
         /\ \A b \in Blocks(h) : SizeOf(g, b) = SizeOf(h, b)
         /\ \A b \in Blocks(h) : IsFree(g, b) <=> IsFree(h, b)
         /\ Marks(g) = Marks(h) /\ \A m \in Marks(h) : MarkAt(g, m) = MarkAt(h, m)
         /\ ListOf(g) = list /\ Brk(g) = Brk(h)
<1>1. g = [node |-> h.node, mark |-> h.mark, list |-> list, brk |-> h.brk]
  BY DEF Relisted
<1>2. /\ Blocks(g) = DOMAIN h.node /\ \A b : SizeOf(g, b) = h.node[b].size
      /\ \A b : IsFree(g, b) <=> h.node[b].free
      /\ Marks(g) = DOMAIN h.mark /\ \A k : MarkAt(g, k) = h.mark[k]
      /\ ListOf(g) = list /\ Brk(g) = h.brk
  BY <1>1, PartsAre
<1>3. /\ Blocks(g) = Blocks(h) /\ \A b \in Blocks(h) : SizeOf(g, b) = SizeOf(h, b)
      /\ \A b \in Blocks(h) : IsFree(g, b) <=> IsFree(h, b)
      /\ Marks(g) = Marks(h) /\ \A m \in Marks(h) : MarkAt(g, m) = MarkAt(h, m)
      /\ ListOf(g) = list /\ Brk(g) = Brk(h)
  BY <1>2 DEF Blocks, SizeOf, IsFree, Marks, MarkAt, ListOf, Brk
<1>. QED
  BY <1>3 DEF IsHeap

\* Nothing but the break.
LEMMA MovedIs ==
  ASSUME NEW h, NEW brk, NEW g, IsHeap(h), brk \in Nat, g = Moved(h, brk)
  PROVE  /\ IsHeap(g) /\ Blocks(g) = Blocks(h)
         /\ \A b \in Blocks(h) : SizeOf(g, b) = SizeOf(h, b)
         /\ \A b \in Blocks(h) : IsFree(g, b) <=> IsFree(h, b)
         /\ Marks(g) = Marks(h) /\ \A m \in Marks(h) : MarkAt(g, m) = MarkAt(h, m)
         /\ ListOf(g) = ListOf(h) /\ Brk(g) = brk
<1>1. g = [node |-> h.node, mark |-> h.mark, list |-> h.list, brk |-> brk]
  BY DEF Moved
<1>2. /\ Blocks(g) = DOMAIN h.node /\ \A b : SizeOf(g, b) = h.node[b].size
      /\ \A b : IsFree(g, b) <=> h.node[b].free
      /\ Marks(g) = DOMAIN h.mark /\ \A k : MarkAt(g, k) = h.mark[k]
      /\ ListOf(g) = h.list /\ Brk(g) = brk
  BY <1>1, PartsAre
<1>3. /\ Blocks(g) = Blocks(h) /\ \A b \in Blocks(h) : SizeOf(g, b) = SizeOf(h, b)
      /\ \A b \in Blocks(h) : IsFree(g, b) <=> IsFree(h, b)
      /\ Marks(g) = Marks(h) /\ \A m \in Marks(h) : MarkAt(g, m) = MarkAt(h, m)
      /\ ListOf(g) = ListOf(h) /\ Brk(g) = brk
  BY <1>2 DEF Blocks, SizeOf, IsFree, Marks, MarkAt, ListOf, Brk
<1>. QED
  BY <1>3 DEF IsHeap

-----------------------------------------------------------------------------
\* A block behind the others.
LEMMA TiledByExpand ==
  ASSUME NEW h, NEW g, NEW n, IsHeap(h), Tiled(h), IsHeap(g), n \in Nat \ {0},
         Brk(h) + META + n <= Limit, Blocks(g) = Blocks(h) \cup {Brk(h)},
         SizeOf(g, Brk(h)) = n,
         \A b \in Blocks(h) \ {Brk(h)} : SizeOf(g, b) = SizeOf(h, b),
         Brk(g) = Brk(h) + META + n
  PROVE  Tiled(g) /\ Brk(h) \notin Blocks(h)
<1>0. \A b \in Blocks(h) : /\ b \in Nat /\ After(h, b) \in Nat /\ After(h, b) <= Brk(h)
                           /\ b < After(h, b) /\ Start <= b
  BY SizeIs DEF Tiled
<1>1. \A b \in Blocks(h) : /\ b \in Nat /\ b # Brk(h) /\ b < Brk(h) /\ Start <= b
                           /\ After(g, b) = After(h, b) /\ After(h, b) <= Brk(h)
                           /\ After(h, b) \in Nat
  <2>1. \A b \in Blocks(h) : b # Brk(h) /\ b < Brk(h)
    BY <1>0 DEF IsHeap
  <2>. QED
    BY <1>0, <2>1 DEF After
<1>2. After(g, Brk(h)) = Brk(g) /\ Brk(h) \in Nat
  BY DEF After, IsHeap
<1>3. Start <= Brk(h)
  BY <1>1, <1>2 DEF Tiled
<1>4. \A a \in Blocks(g) : Start <= a /\ After(g, a) <= Brk(g)
  BY <1>1, <1>2, <1>3, MetaIs DEF IsHeap
<1>5. \A a, b \in Blocks(g) : a < b => After(g, a) <= b
  BY <1>1, <1>2 DEF Tiled
<1>6. \A a \in Blocks(g) : After(g, a) = Brk(g) \/ After(g, a) \in Blocks(g)
  BY <1>1, <1>2 DEF Tiled
<1>7. \A b \in Blocks(g) \cup {Brk(g)} : b = Start \/ \E a \in Blocks(g) : After(g, a) = b
  BY <1>1, <1>2 DEF Tiled
<1>8. Brk(g) <= Limit /\ Start \in Blocks(g)
  BY DEF Tiled
<1>. QED
  BY <1>1, <1>4, <1>5, <1>6, <1>7, <1>8 DEF Tiled

\* A block divided into two.
LEMMA TiledBySplit ==
  ASSUME NEW h, NEW g, NEW n, NEW a, NEW rest, IsHeap(h), Tiled(h), IsHeap(g),
         n \in Nat \ {0}, a \in Blocks(h), SizeOf(h, a) - n > META, rest = a + META + n,
         Blocks(g) = Blocks(h) \cup {rest}, SizeOf(g, a) = n,
         SizeOf(g, rest) = SizeOf(h, a) - n - META,
         \A b \in Blocks(h) \ {a, rest} : SizeOf(g, b) = SizeOf(h, b), Brk(g) = Brk(h)
  PROVE  Tiled(g) /\ rest \notin Blocks(h)
<1>1. /\ a \in Nat /\ rest \in Nat /\ a < rest /\ rest < After(h, a) /\ After(h, a) \in Nat
      /\ After(g, a) = rest /\ After(g, rest) = After(h, a)
  <2>1. /\ a \in Nat /\ SizeOf(h, a) \in Nat /\ META \in Nat /\ META > 0
        /\ After(h, a) = a + META + SizeOf(h, a)
    BY SizeIs, MetaIs
  <2>2. After(g, a) = a + META + n /\ After(g, rest) = rest + META + (SizeOf(h, a) - n - META)
    BY DEF After
  <2>. QED
    BY <2>1, <2>2
<1>2. rest \notin Blocks(h)
  BY <1>1 DEF Tiled
<1>3. \A b \in Blocks(h) \ {a} : /\ b \in Nat /\ b # rest /\ After(g, b) = After(h, b)
                                 /\ After(h, b) \in Nat /\ b < After(h, b)
                                 /\ After(h, b) <= a \/ After(h, a) <= b
  <2>. SUFFICES ASSUME NEW b \in Blocks(h) \ {a}
                PROVE  /\ b \in Nat /\ b # rest /\ After(g, b) = After(h, b)
                       /\ After(h, b) \in Nat /\ b < After(h, b)
                       /\ After(h, b) <= a \/ After(h, a) <= b
    OBVIOUS
  <2>1. b \in Nat /\ b # rest /\ After(h, b) \in Nat /\ b < After(h, b)
    BY <1>2, SizeIs
  <2>2. After(g, b) = After(h, b)
    BY <2>1 DEF After
  <2>3. b < a \/ a < b
    BY <1>1, <2>1
  <2>. QED
    BY <2>1, <2>2, <2>3 DEF Tiled
<1>4. \A b \in Blocks(g) : Start <= b /\ After(g, b) <= Brk(g)
  <2>1. Start <= a /\ After(h, a) <= Brk(h) /\ Brk(h) \in Nat /\ Brk(g) = Brk(h)
    BY DEF Tiled, IsHeap
  <2>2. \A b \in Blocks(h) \ {a} : Start <= b /\ After(g, b) <= Brk(g)
    BY <1>3 DEF Tiled
  <2>3. Start <= rest /\ After(g, rest) <= Brk(g) /\ After(g, a) <= Brk(g)
    BY <1>1, <2>1
  <2>. QED
    BY <2>1, <2>2, <2>3
<1>5. \A b, c \in Blocks(g) : b < c => After(g, b) <= c
  <2>. SUFFICES ASSUME NEW b \in Blocks(g), NEW c \in Blocks(g), b < c
                PROVE  After(g, b) <= c
    OBVIOUS
  <2>0. b \in Nat /\ c \in Nat
    BY <1>1, <1>3
  <2>1. CASE b = a
    BY <1>1, <1>3, <2>0, <2>1
  <2>2. CASE b = rest
    BY <1>1, <1>3, <2>0, <2>2
  <2>3. CASE b \notin {a, rest} /\ c \in {a, rest}
    BY <1>1, <1>3, <2>0, <2>3
  <2>4. CASE b \notin {a, rest} /\ c \notin {a, rest}
    BY <1>3, <2>4 DEF Tiled
  <2>. QED
    BY <2>1, <2>2, <2>3, <2>4
<1>6. \A b \in Blocks(g) : After(g, b) = Brk(g) \/ After(g, b) \in Blocks(g)
  BY <1>1, <1>3 DEF Tiled
<1>7. \A b \in Blocks(g) \cup {Brk(g)} : b = Start \/ \E c \in Blocks(g) : After(g, c) = b
  <2>. SUFFICES ASSUME NEW b \in Blocks(h) \cup {Brk(h)}, b # Start
                PROVE  \E c \in Blocks(g) : After(g, c) = b
    BY <1>1
  <2>1. PICK c \in Blocks(h) : After(h, c) = b
    BY DEF Tiled
  <2>. QED
    BY <1>1, <1>3, <2>1
<1>8. Brk(g) = Start \/ (Brk(g) <= Limit /\ Start \in Blocks(g))
  BY DEF Tiled
<1>. QED
  BY <1>2, <1>4, <1>5, <1>6, <1>7, <1>8 DEF Tiled

\* Blocks merged into the one before them.
LEMMA TiledByMerge ==
  ASSUME NEW h, NEW g, NEW a, NEW last, NEW gone, IsHeap(h), Tiled(h), IsHeap(g),
         a \in Blocks(h), last \in Blocks(h), a < last,
         gone = { x \in Blocks(h) : a < x /\ x <= last }, Blocks(g) = Blocks(h) \ gone,
         After(g, a) = After(h, last),
         \A b \in Blocks(h) \ {a} : b \notin gone => SizeOf(g, b) = SizeOf(h, b),
         Brk(g) = Brk(h)
  PROVE  Tiled(g)
<1>1. /\ a \in Nat /\ last \in Nat /\ After(h, last) \in Nat /\ last < After(h, last)
      /\ a \notin gone /\ last \in gone
  <2>1. a \in Nat /\ last \in Nat /\ After(h, last) \in Nat /\ last < After(h, last)
    BY SizeIs
  <2>. QED
    BY <2>1
<1>2. \A b \in Blocks(h) : /\ b \in Nat /\ After(h, b) \in Nat /\ b < After(h, b)
                           /\ b > last => After(h, last) <= b
                           /\ b < last => After(h, b) <= last
                           /\ b < a => After(h, b) <= a
                           /\ b > a => After(h, a) <= b
  BY SizeIs DEF Tiled
<1>3. \A b \in Blocks(g) : b # a => After(g, b) = After(h, b) /\ (b < a \/ After(h, last) <= b)
  <2>. SUFFICES ASSUME NEW b \in Blocks(g), b # a
                PROVE  After(g, b) = After(h, b) /\ (b < a \/ After(h, last) <= b)
    OBVIOUS
  <2>1. b \in Blocks(h) /\ b \notin gone
    OBVIOUS
  <2>2. After(g, b) = After(h, b)
    BY <2>1 DEF After
  <2>3. b < a \/ b > last
    BY <1>1, <1>2, <2>1
  <2>. QED
    BY <1>2, <2>1, <2>2, <2>3
<1>4. \A b \in Blocks(g) : Start <= b /\ After(g, b) <= Brk(g)
  BY <1>3 DEF Tiled
<1>5. \A b, c \in Blocks(g) : b < c => After(g, b) <= c
  <2>. SUFFICES ASSUME NEW b \in Blocks(g), NEW c \in Blocks(g), b < c
                PROVE  After(g, b) <= c
    OBVIOUS
  <2>1. b \in Nat /\ c \in Nat /\ b \in Blocks(h) /\ c \in Blocks(h)
    BY <1>2
  <2>2. CASE b = a
    BY <1>1, <1>2, <1>3, <2>1, <2>2
  <2>3. CASE b # a
    BY <1>3, <2>1, <2>3 DEF Tiled
  <2>. QED
    BY <2>2, <2>3
<1>6. \A b \in Blocks(g) : After(g, b) = Brk(g) \/ After(g, b) \in Blocks(g)
  <2>. SUFFICES ASSUME NEW b \in Blocks(g)
                PROVE  After(g, b) = Brk(g) \/ After(g, b) \in Blocks(g)
    OBVIOUS
  <2>1. CASE b = a
    <3>1. After(h, last) = Brk(h) \/ After(h, last) \in Blocks(h)
      BY DEF Tiled
    <3>2. After(h, last) \notin gone
      BY <1>1
    <3>. QED
      BY <2>1, <3>1, <3>2
  <2>2. CASE b # a
    <3>1. After(h, b) = Brk(h) \/ After(h, b) \in Blocks(h)
      BY DEF Tiled
    <3>2. After(h, b) \notin gone
      BY <1>1, <1>2, <1>3, <2>2
    <3>. QED
      BY <1>3, <2>2, <3>1, <3>2
  <2>. QED
    BY <2>1, <2>2
<1>7. \A b \in Blocks(g) \cup {Brk(g)} : b = Start \/ \E c \in Blocks(g) : After(g, c) = b
  <2>. SUFFICES ASSUME NEW b \in Blocks(g) \cup {Brk(g)}, b # Start
                PROVE  \E c \in Blocks(g) : After(g, c) = b
    OBVIOUS
  <2>1. PICK c \in Blocks(h) : After(h, c) = b
    BY DEF Tiled
  <2>2. b \in Nat /\ b \notin gone /\ (b <= last => b \in Blocks(h))
    <3>1. Brk(h) > last
      BY <1>1 DEF Tiled, IsHeap
    <3>2. Brk(h) \in Nat
      BY DEF IsHeap
    <3>. QED
      BY <1>1, <1>2, <3>1, <3>2
  <2>3. CASE c = last
    BY <1>1, <2>1, <2>3
  <2>4. CASE c # last /\ c \in gone
    <3>1. a < b /\ b <= last
      BY <1>1, <1>2, <2>1, <2>4
    <3>. QED
      BY <2>2, <3>1
  <2>5. CASE c = a
    <3>1. a < b /\ b <= last
      BY <1>1, <1>2, <2>1, <2>5
    <3>. QED
      BY <2>2, <3>1
  <2>6. CASE c # a /\ c \notin gone
    BY <1>3, <2>1, <2>6
  <2>. QED
    BY <2>3, <2>4, <2>5, <2>6
<1>8. Brk(g) = Start \/ (Brk(g) <= Limit /\ Start \in Blocks(g))
  <2>1. Start \notin gone
    BY <1>1 DEF Tiled
  <2>. QED
    BY <2>1 DEF Tiled
<1>. QED
  BY <1>4, <1>5, <1>6, <1>7, <1>8 DEF Tiled

\* Nothing but free flags and the list.
LEMMA TiledStays ==
  ASSUME NEW h, NEW g, IsHeap(h), Tiled(h), Blocks(g) = Blocks(h), Brk(g) = Brk(h),
         \A b \in Blocks(h) : SizeOf(g, b) = SizeOf(h, b)
  PROVE  Tiled(g)
<1>1. \A b \in Blocks(h) : After(g, b) = After(h, b)
  BY DEF After
<1>. QED
  BY <1>1 DEF Tiled

-----------------------------------------------------------------------------
\* Blocks apart have their marks apart.
LEMMA MarksApart ==
  ASSUME NEW h, NEW a, NEW b, IsHeap(h), Tiled(h), a \in Blocks(h), b \in Blocks(h),
         a # b
  PROVE  MarkOf(h, a) # MarkOf(h, b)
<1>1. ASSUME NEW c \in Blocks(h), NEW d \in Blocks(h), c < d
      PROVE  MarkOf(h, c) < MarkOf(h, d)
  <2>1. After(h, c) <= d
    BY <1>1 DEF Tiled
  <2>2. /\ MarkOf(h, c) = After(h, c) - DATA_SIZE_SIZE /\ After(h, c) \in Nat /\ d \in Nat
        /\ MarkOf(h, d) = After(h, d) - DATA_SIZE_SIZE /\ After(h, d) \in Nat
        /\ d < MarkOf(h, d) /\ MarkOf(h, c) < After(h, c)
    BY SizeIs
  <2>. QED
    BY <2>1, <2>2
<1>2. a \in Nat /\ MarkOf(h, a) \in Nat
  BY SizeIs
<1>3. b \in Nat /\ MarkOf(h, b) \in Nat
  BY SizeIs
<1>4. a < b \/ b < a
  BY <1>2, <1>3
<1>. QED
  BY <1>1, <1>2, <1>3, <1>4

\* The neighbours that free finds.
LEMMA BeforeIs ==
  ASSUME NEW h, NEW a, IsHeap(h), Tiled(h), Marked(h), a \in Blocks(h), a # Start
  PROVE  /\ Before(h, a) \in Blocks(h) /\ After(h, Before(h, a)) = a
         /\ Before(h, a) < a
<1>1. PICK b \in Blocks(h) : After(h, b) = a
  BY DEF Tiled
<1>2. /\ MarkOf(h, b) = a - DATA_SIZE_SIZE /\ b \in Nat /\ SizeOf(h, b) \in Nat
      /\ a = b + META + SizeOf(h, b) /\ b < a
  BY <1>1, SizeIs
<1>3. MarkAt(h, a - DATA_SIZE_SIZE) = SizeOf(h, b)
  BY <1>2 DEF Marked
<1>4. Before(h, a) = b
  BY <1>2, <1>3, MetaIs DEF Before, MarkAt
<1>. QED
  BY <1>1, <1>2, <1>4

\* The one after it is read only if it lies below the break.
LEMMA AfterIs ==
  ASSUME NEW h, NEW a, IsHeap(h), Tiled(h), a \in Blocks(h), FreeAfter(h, a)
  PROVE  /\ After(h, a) \in Blocks(h) /\ IsFree(h, After(h, a)) /\ a < After(h, a)
<1>1. STRUCT_SIZE * STRUCT_SIZE \in Nat /\ STRUCT_SIZE * STRUCT_SIZE > 0
  OBVIOUS
<1>2. /\ After(h, a) \in Nat /\ Brk(h) \in Nat /\ a < After(h, a)
      /\ After(h, a) + STRUCT_SIZE * STRUCT_SIZE <= Brk(h)
  BY SizeIs DEF FreeAfter, IsHeap, Brk
<1>3. After(h, a) # Brk(h)
  <2>. HIDE DEF FreeAfter
  <2>1. PICK q \in Nat : q = STRUCT_SIZE * STRUCT_SIZE
    BY <1>1
  <2>. QED
    BY <1>1, <1>2, <2>1
<1>. QED
  BY <1>2, <1>3 DEF Tiled, FreeAfter, IsFree

\* The marks fit as long as no block and no mark changes.
LEMMA MarkedStays ==
  ASSUME NEW h, NEW g, Marked(h), Blocks(g) = Blocks(h), Marks(g) = Marks(h),
         \A m \in Marks(h) : MarkAt(g, m) = MarkAt(h, m),
         \A b \in Blocks(h) : SizeOf(g, b) = SizeOf(h, b)
  PROVE  Marked(g)
<1>1. \A b \in Blocks(h) : MarkOf(g, b) = MarkOf(h, b)
  BY DEF MarkOf
<1>. QED
  BY <1>1 DEF Marked

-----------------------------------------------------------------------------
\* The block at the break.
LEMMA ExpandIs ==
  ASSUME NEW h, NEW n, NEW a, NEW g, Sound(h), n \in Nat \ {0}, Brk(h) + META + n <= Limit,
         a = Brk(h), g = Expand(h, n)
  PROVE  /\ Sound(g) /\ a \notin Used(h) /\ Used(g) = Used(h) \cup {a}
         /\ SizeOf(g, a) = n /\ \A b \in Used(h) : SizeOf(g, b) = SizeOf(h, b)
<1>. DEFINE k == Block(h, a, InUse(n))
<1>0. IsHeap(h) /\ Tiled(h) /\ Marked(h) /\ Listed(h) /\ a \in Nat /\ a + META + n \in Nat
  BY MetaIs DEF Sound, IsHeap
<1>1. /\ IsHeap(k)
      /\ Blocks(k) = Blocks(h) \cup {a}
      /\ SizeOf(k, a) = n /\ ~IsFree(k, a)
      /\ \A b \in Blocks(h) \ {a} : SizeOf(k, b) = SizeOf(h, b) /\ (IsFree(k, b) <=> IsFree(h, b))
      /\ Marks(k) = Marks(h) \cup {a + STRUCT_SIZE + n}
      /\ MarkAt(k, a + STRUCT_SIZE + n) = n
      /\ \A m \in Marks(h) \ {a + STRUCT_SIZE + n} : MarkAt(k, m) = MarkAt(h, m)
      /\ ListOf(k) = ListOf(h) /\ Brk(k) = Brk(h)
  <2>1. k = Block(h, a, InUse(n))
    OBVIOUS
  <2>. HIDE DEF k
  <2>2. PICK m \in Nat : m = a + STRUCT_SIZE + n
    BY <1>0
  <2>3. /\ IsHeap(k) /\ Blocks(k) = Blocks(h) \cup {a}
        /\ SizeOf(k, a) = n /\ ~IsFree(k, a)
        /\ ListOf(k) = ListOf(h) /\ Brk(k) = Brk(h)
    BY <1>0, <2>1, <2>2, InUseIs
  <2>4. \A b \in Blocks(h) \ {a} : SizeOf(k, b) = SizeOf(h, b) /\ (IsFree(k, b) <=> IsFree(h, b))
    BY <1>0, <2>1, <2>2, InUseIs
  <2>5. /\ Marks(k) = Marks(h) \cup {m} /\ MarkAt(k, m) = n
        /\ \A x \in Marks(h) \ {m} : MarkAt(k, x) = MarkAt(h, x)
    BY <1>0, <2>1, <2>2, InUseIs
  <2>. QED
    BY <1>0, <2>2, <2>3, <2>4, <2>5
<1>. HIDE DEF k
<1>2. g = Moved(k, a + META + n)
  BY DEF Expand, k, Brk
<1>3. /\ IsHeap(g) /\ Blocks(g) = Blocks(k)
      /\ \A b \in Blocks(k) : SizeOf(g, b) = SizeOf(k, b) /\ (IsFree(g, b) <=> IsFree(k, b))
      /\ Marks(g) = Marks(k) /\ (\A m \in Marks(k) : MarkAt(g, m) = MarkAt(k, m)) /\ ListOf(g) = ListOf(k) /\ Brk(g) = a + META + n
  <2>1. PICK end \in Nat : end = a + META + n
    BY <1>0
  <2>2. IsHeap(k) /\ g = Moved(k, end)
    BY <1>1, <1>2, <2>1
  <2>3. /\ IsHeap(g) /\ Blocks(g) = Blocks(k)
        /\ Marks(g) = Marks(k) /\ (\A m \in Marks(k) : MarkAt(g, m) = MarkAt(k, m)) /\ ListOf(g) = ListOf(k) /\ Brk(g) = end
    BY <2>2, MovedIs
  <2>4. \A b \in Blocks(k) : SizeOf(g, b) = SizeOf(k, b)
    BY <2>2, MovedIs
  <2>5. \A b \in Blocks(k) : IsFree(g, b) <=> IsFree(k, b)
    BY <2>2, MovedIs
  <2>. QED
    BY <1>1, <2>1, <2>3, <2>4, <2>5
<1>4. Tiled(g) /\ a \notin Blocks(h)
  BY <1>0, <1>1, <1>3, TiledByExpand
<1>5. Marked(g)
  <2>1. MarkOf(g, a) = a + STRUCT_SIZE + n
    BY <1>1, <1>3 DEF MarkOf
  <2>2. \A b \in Blocks(h) : MarkOf(g, b) = MarkOf(h, b) /\ SizeOf(g, b) = SizeOf(h, b)
    BY <1>1, <1>3, <1>4 DEF MarkOf
  <2>3. \A b \in Blocks(h) : MarkOf(g, b) # MarkOf(g, a)
    BY <1>1, <1>3, <1>4, MarksApart
  <2>4. Marks(g) = { MarkOf(g, b) : b \in Blocks(g) }
    BY <1>0, <1>1, <1>3, <2>1, <2>2 DEF Marked
  <2>5. MarkAt(g, MarkOf(g, a)) = SizeOf(g, a)
    BY <1>1, <1>3, <2>1
  <2>6. ASSUME NEW b \in Blocks(h)  PROVE MarkAt(g, MarkOf(g, b)) = SizeOf(g, b)
    BY <1>0, <1>1, <1>3, <2>1, <2>2, <2>3 DEF Marked
  <2>. QED
    BY <1>1, <1>3, <2>4, <2>5, <2>6 DEF Marked
<1>6. Listed(g)
  BY <1>0, <1>1, <1>3, <1>4 DEF Listed
<1>. QED
  BY <1>1, <1>3, <1>4, <1>5, <1>6 DEF Sound, Used

\* A block divided: a free one behind it.
LEMMA DividedIs ==
  ASSUME NEW h, NEW a, NEW n, NEW rest, NEW g, Sound(h), a \in Blocks(h), n \in Nat \ {0},
         SizeOf(h, a) - n > META, rest = a + META + n, g = Divided(h, a, n)
  PROVE  /\ IsHeap(g) /\ Tiled(g) /\ Marked(g)
         /\ rest \in Nat /\ rest \notin Blocks(h) /\ Blocks(g) = Blocks(h) \cup {rest}
         /\ SizeOf(g, a) = n /\ ~IsFree(g, a) /\ IsFree(g, rest)
         /\ \A b \in Blocks(h) \ {a} : SizeOf(g, b) = SizeOf(h, b)
                                     /\ (IsFree(g, b) <=> IsFree(h, b))
         /\ ListOf(g) = ListOf(h) /\ Brk(g) = Brk(h)
<1>. DEFINE k == Block(h, rest, Vacant(SizeOf(h, a) - n - META))
<1>1. /\ IsHeap(h) /\ Tiled(h) /\ Marked(h)
      /\ a \in Nat /\ rest \in Nat /\ a < rest
      /\ SizeOf(h, a) - n - META \in Nat \ {0}
      /\ MarkOf(h, a) = rest + STRUCT_SIZE + (SizeOf(h, a) - n - META)
  <2>1. IsHeap(h) /\ Tiled(h) /\ Marked(h)
    BY DEF Sound
  <2>2. a \in Nat /\ SizeOf(h, a) \in Nat /\ META \in Nat /\ META > 0
    BY <2>1, SizeIs, MetaIs
  <2>. QED
    BY <2>1, <2>2 DEF MarkOf
<1>2. PICK left \in Nat \ {0} : left = SizeOf(h, a) - n - META
  BY <1>1
<1>3. PICK end : end = MarkOf(h, a)
  OBVIOUS
<1>4. k = Block(h, rest, Vacant(left)) /\ g = Block(k, a, InUse(n))
  BY <1>2 DEF Divided
<1>5. end = rest + STRUCT_SIZE + left
  BY <1>1, <1>2, <1>3
<1>. HIDE DEF k
<1>6. /\ IsHeap(k) /\ Blocks(k) = Blocks(h) \cup {rest}
      /\ SizeOf(k, rest) = left /\ IsFree(k, rest)
      /\ ListOf(k) = ListOf(h) /\ Brk(k) = Brk(h)
  BY <1>1, <1>4, <1>5, VacantIs
<1>7. \A b \in Blocks(h) \ {rest} : SizeOf(k, b) = SizeOf(h, b) /\ (IsFree(k, b) <=> IsFree(h, b))
  BY <1>1, <1>4, <1>5, VacantIs
<1>8. /\ Marks(k) = Marks(h) \cup {end} /\ MarkAt(k, end) = left
      /\ \A x \in Marks(h) \ {end} : MarkAt(k, x) = MarkAt(h, x)
  BY <1>1, <1>4, <1>5, VacantIs
<1>9. PICK m : m = a + STRUCT_SIZE + n
  OBVIOUS
<1>10. /\ IsHeap(g) /\ Blocks(g) = Blocks(k) \cup {a}
       /\ SizeOf(g, a) = n /\ ~IsFree(g, a)
       /\ ListOf(g) = ListOf(k) /\ Brk(g) = Brk(k)
  BY <1>1, <1>4, <1>6, <1>9, InUseIs
<1>11. \A b \in Blocks(k) \ {a} : SizeOf(g, b) = SizeOf(k, b) /\ (IsFree(g, b) <=> IsFree(k, b))
  BY <1>1, <1>4, <1>6, <1>9, InUseIs
<1>12. /\ Marks(g) = Marks(k) \cup {m} /\ MarkAt(g, m) = n
       /\ \A x \in Marks(k) \ {m} : MarkAt(g, x) = MarkAt(k, x)
  BY <1>1, <1>4, <1>6, <1>9, InUseIs
<1>13. Blocks(g) = Blocks(h) \cup {rest}
  BY <1>6, <1>10
<1>14. SizeOf(g, rest) = left /\ IsFree(g, rest)
  <2>1. rest \in Blocks(k) \ {a}
    BY <1>1, <1>6
  <2>. QED
    BY <1>6, <1>11, <2>1
<1>15. \A b \in Blocks(h) \ {a, rest} : SizeOf(g, b) = SizeOf(h, b)
  BY <1>6, <1>7, <1>11
<1>16. Tiled(g) /\ rest \notin Blocks(h)
  BY <1>1, <1>2, <1>6, <1>10, <1>13, <1>14, <1>15, TiledBySplit
<1>17. ASSUME NEW b \in Blocks(h) \ {a}
       PROVE  SizeOf(g, b) = SizeOf(h, b) /\ (IsFree(g, b) <=> IsFree(h, b))
  <2>1. b \in Blocks(h) \ {rest} /\ b \in Blocks(k) \ {a}
    BY <1>6, <1>16
  <2>. QED
    BY <1>7, <1>11, <2>1
<1>18. Marked(g)
  <2>1. MarkOf(g, a) = m /\ MarkOf(g, rest) = end
    BY <1>5, <1>9, <1>10, <1>14 DEF MarkOf
  <2>2. \A b \in Blocks(h) \ {a} : MarkOf(g, b) = MarkOf(h, b) /\ SizeOf(g, b) = SizeOf(h, b)
    BY <1>17 DEF MarkOf
  <2>3. \A b, c \in Blocks(g) : b # c => MarkOf(g, b) # MarkOf(g, c)
    BY <1>10, <1>16, MarksApart
  <2>4. Marks(g) = { MarkOf(g, b) : b \in Blocks(g) }
    <3>1. Marks(g) = { MarkOf(h, b) : b \in Blocks(h) } \cup {end, m}
      BY <1>1, <1>8, <1>12 DEF Marked
    <3>. QED
      BY <1>3, <1>13, <2>1, <2>2, <3>1
  <2>5. MarkAt(g, MarkOf(g, a)) = SizeOf(g, a)
    BY <1>10, <1>12, <2>1
  <2>6. MarkAt(g, MarkOf(g, rest)) = SizeOf(g, rest)
    <3>1. end # m
      BY <1>1, <1>13, <1>16, <2>1, <2>3
    <3>. QED
      BY <1>8, <1>12, <1>14, <2>1, <3>1
  <2>7. ASSUME NEW b \in Blocks(h) \ {a}  PROVE MarkAt(g, MarkOf(g, b)) = SizeOf(g, b)
    <3>1. b # rest /\ MarkOf(g, b) # m /\ MarkOf(g, b) # end
      BY <1>13, <1>16, <2>1, <2>3
    <3>2. MarkOf(h, b) \in Marks(h) /\ MarkAt(h, MarkOf(h, b)) = SizeOf(h, b)
      BY <1>1 DEF Marked
    <3>. QED
      BY <1>8, <1>12, <2>2, <3>1, <3>2
  <2>. QED
    BY <1>13, <2>4, <2>5, <2>6, <2>7 DEF Marked
<1>. QED
  BY <1>1, <1>6, <1>10, <1>13, <1>14, <1>16, <1>17, <1>18

\* The rest takes the block's place on the list.
LEMMA SplitIs ==
  ASSUME NEW h, NEW a, NEW n, NEW g, Sound(h), a \in Blocks(h), IsFree(h, a),
         n \in Nat \ {0}, SizeOf(h, a) - n > META, g = Split(h, a, n)
  PROVE  /\ Sound(g) /\ Used(g) = Used(h) \cup {a} /\ SizeOf(g, a) = n
         /\ \A b \in Blocks(h) \ {a} : SizeOf(g, b) = SizeOf(h, b)
<1>1. PICK rest : rest = a + META + n
  OBVIOUS
<1>2. PICK k : k = Divided(h, a, n)
  OBVIOUS
<1>3. PICK list : list = ReplaceAll(ListOf(h), a, rest)
  OBVIOUS
<1>4. g = Relisted(k, list)
  BY <1>1, <1>2, <1>3 DEF Split, ListOf
<1>5. /\ IsHeap(k) /\ Tiled(k) /\ Marked(k)
      /\ rest \in Nat /\ rest \notin Blocks(h) /\ Blocks(k) = Blocks(h) \cup {rest}
      /\ SizeOf(k, a) = n /\ ~IsFree(k, a) /\ IsFree(k, rest)
      /\ Brk(k) = Brk(h)
  BY <1>1, <1>2, DividedIs
<1>6. \A b \in Blocks(h) \ {a} : SizeOf(k, b) = SizeOf(h, b) /\ (IsFree(k, b) <=> IsFree(h, b))
  BY <1>1, <1>2, DividedIs
<1>7. /\ ListOf(h) \in Seq(Nat) /\ IsInjective(ListOf(h))
      /\ ToSet(ListOf(h)) = { b \in Blocks(h) : IsFree(h, b) }
  BY DEF Sound, IsHeap, Listed
<1>8. /\ list \in Seq(Nat) /\ IsInjective(list)
      /\ ToSet(list) = (ToSet(ListOf(h)) \ {a}) \cup {rest}
  <2>1. a \in ToSet(ListOf(h)) /\ rest \notin ToSet(ListOf(h))
    BY <1>5, <1>7
  <2>. QED
    BY <1>3, <1>5, <1>7, <2>1, ReplaceAllElements
<1>9. /\ IsHeap(g) /\ Blocks(g) = Blocks(k) /\ ListOf(g) = list /\ Brk(g) = Brk(k)
      /\ \A b \in Blocks(k) : SizeOf(g, b) = SizeOf(k, b)
      /\ Marks(g) = Marks(k) /\ \A m \in Marks(k) : MarkAt(g, m) = MarkAt(k, m)
  BY <1>4, <1>5, <1>8, RelistedIs
<1>10. \A b \in Blocks(k) : IsFree(g, b) <=> IsFree(k, b)
  BY <1>4, <1>5, <1>8, RelistedIs
<1>11. Tiled(g) /\ Marked(g)
  BY <1>5, <1>9, TiledStays, MarkedStays
<1>12. ToSet(list) = { b \in Blocks(g) : IsFree(g, b) }
  BY <1>5, <1>6, <1>7, <1>8, <1>9, <1>10
<1>13. Used(g) = Used(h) \cup {a}
  BY <1>5, <1>6, <1>9, <1>10 DEF Used
<1>. QED
  BY <1>5, <1>6, <1>8, <1>9, <1>11, <1>12, <1>13 DEF Sound, Listed

\* A block given out as it is.
LEMMA TakeWholeIs ==
  ASSUME NEW h, NEW a, NEW g, Sound(h), a \in Blocks(h), IsFree(h, a), g = TakeWhole(h, a)
  PROVE  /\ Sound(g) /\ Used(g) = Used(h) \cup {a}
         /\ \A b \in Blocks(h) : SizeOf(g, b) = SizeOf(h, b)
<1>1. PICK list : list = RemoveFirst(ListOf(h), a)
  OBVIOUS
<1>2. g = [node |-> With(h.node, a, InUse(SizeOf(h, a))), mark |-> h.mark,
           list |-> list, brk |-> h.brk]
  BY <1>1 DEF TakeWhole, ListOf
<1>3. /\ IsHeap(h) /\ Tiled(h) /\ Marked(h)
      /\ ListOf(h) \in Seq(Nat) /\ IsInjective(ListOf(h))
      /\ ToSet(ListOf(h)) = { b \in Blocks(h) : IsFree(h, b) }
  BY DEF Sound, IsHeap, Listed
<1>4. /\ list \in Seq(Nat) /\ IsInjective(list)
      /\ ToSet(list) = ToSet(ListOf(h)) \ {a}
  <2>1. a \in ToSet(ListOf(h))
    BY <1>3
  <2>2. /\ list \in Seq(Nat) /\ IsInjective(list) /\ a \notin ToSet(list)
        /\ ToSet(ListOf(h)) \ {a} \subseteq ToSet(list) /\ ToSet(list) \subseteq ToSet(ListOf(h))
    BY <1>1, <1>3, <2>1, RemoveFirstElements
  <2>. QED
    BY <2>2
<1>5. /\ IsHeap(g) /\ Blocks(g) = Blocks(h)
      /\ \A b \in Blocks(h) : SizeOf(g, b) = SizeOf(h, b)
      /\ ~IsFree(g, a)
      /\ Marks(g) = Marks(h) /\ \A m : MarkAt(g, m) = MarkAt(h, m)
      /\ ListOf(g) = list /\ Brk(g) = Brk(h)
  BY <1>2, <1>3, <1>4, TakenIs
<1>6. \A b \in Blocks(h) \ {a} : IsFree(g, b) <=> IsFree(h, b)
  BY <1>2, <1>3, <1>4, TakenIs
<1>7. Tiled(g) /\ Marked(g)
  BY <1>3, <1>5, TiledStays, MarkedStays
<1>8. ToSet(list) = { b \in Blocks(g) : IsFree(g, b) }
  BY <1>3, <1>4, <1>5, <1>6
<1>9. Used(g) = Used(h) \cup {a}
  BY <1>5, <1>6 DEF Used
<1>. QED
  BY <1>4, <1>5, <1>7, <1>8, <1>9 DEF Sound, Listed

\* malloc gives out memory that was free, and large enough.
LEMMA MallocIs ==
  ASSUME NEW h, NEW a, NEW n, NEW g, Sound(h), n \in Nat \ {0},
         Fits(h, n) = {} => Brk(h) + META + n <= Limit, a = Place(h, n), g = AfterMalloc(h, n)
  PROVE  /\ Sound(g) /\ a \notin Used(h) /\ Used(g) = Used(h) \cup {a} /\ SizeOf(g, a) >= n
         /\ \A b \in Used(h) : SizeOf(g, b) = SizeOf(h, b)
<1>1. CASE Fits(h, n) = {}
  <2>1. a = Brk(h) /\ g = Expand(h, n)
    BY <1>1 DEF Place, AfterMalloc, Brk
  <2>2. /\ Sound(g) /\ a \notin Used(h) /\ Used(g) = Used(h) \cup {a}
        /\ SizeOf(g, a) = n /\ \A b \in Used(h) : SizeOf(g, b) = SizeOf(h, b)
    BY <1>1, <2>1, ExpandIs
  <2>. QED
    BY <2>2
<1>2. CASE Fits(h, n) # {}
  <2>1. a \in Blocks(h) /\ IsFree(h, a) /\ SizeOf(h, a) >= n
    <3>1. /\ ListOf(h) \in Seq(Nat)
          /\ ToSet(ListOf(h)) = { b \in Blocks(h) : IsFree(h, b) }
          /\ \A b \in Blocks(h) : SizeOf(h, b) \in Nat
      BY DEF Sound, IsHeap, Listed
    <3>2. /\ Fits(h, n) \subseteq DOMAIN ListOf(h)
          /\ \A k \in Fits(h, n) : SizeOf(h, ListOf(h)[k]) >= n
      BY DEF Fits, ListOf
    <3>3. Fits(h, n) \in SUBSET Nat
      <4>1. PICK l \in Seq(Nat) : l = ListOf(h)
        BY <3>1
      <4>. QED
        BY <3>2, <4>1
    <3>4. Min(Fits(h, n)) \in Fits(h, n)
      BY <1>2, <3>3, MinOfNat
    <3>5. a = ListOf(h)[Min(Fits(h, n))]
      BY <1>2 DEF Place, ListOf
    <3>6. a \in ToSet(ListOf(h)) /\ SizeOf(h, a) >= n
      BY <3>2, <3>4, <3>5 DEF ToSet
    <3>. QED
      BY <3>1, <3>6
  <2>2. a \notin Used(h)
    BY <2>1 DEF Used
  <2>3. CASE SizeOf(h, a) - n > META
    <3>1. g = Split(h, a, n)
      BY <1>2, <2>3 DEF AfterMalloc
    <3>2. /\ Sound(g) /\ Used(g) = Used(h) \cup {a} /\ SizeOf(g, a) = n
          /\ \A b \in Blocks(h) \ {a} : SizeOf(g, b) = SizeOf(h, b)
      BY <2>1, <2>3, <3>1, SplitIs
    <3>3. \A b \in Used(h) : b \in Blocks(h) \ {a}
      BY <2>2 DEF Used
    <3>. QED
      BY <2>2, <3>2, <3>3
  <2>4. CASE ~(SizeOf(h, a) - n > META)
    <3>1. g = TakeWhole(h, a)
      BY <1>2, <2>4 DEF AfterMalloc
    <3>2. /\ Sound(g) /\ Used(g) = Used(h) \cup {a}
          /\ \A b \in Blocks(h) : SizeOf(g, b) = SizeOf(h, b)
      BY <2>1, <3>1, TakeWholeIs
    <3>3. \A b \in Used(h) : b \in Blocks(h)
      BY DEF Used
    <3>. QED
      BY <2>1, <2>2, <3>2, <3>3
  <2>. QED
    BY <2>3, <2>4
<1>. QED
  BY <1>1, <1>2

-----------------------------------------------------------------------------
\* A free block over several: the marks between them go.
\* The marks that a merge writes over.
Dropped(h, a, gone) == { MarkOf(h, b) : b \in gone \cup {a} }

\* What merge_both, merge_with_after and merge_with_before have in common.
LEMMA MergedPartsAre ==
  ASSUME NEW h, NEW a, NEW gone, NEW size, NEW list, NEW end, NEW dropped, NEW g,
         a \in Blocks(h), a \notin gone, end = MarkOf(h, Max(gone)),
         dropped = Dropped(h, a, gone), g = Merged(h, a, gone, size, list)
  PROVE  /\ Blocks(g) = Blocks(h) \ gone /\ SizeOf(g, a) = size /\ IsFree(g, a)
         /\ ListOf(g) = list /\ Brk(g) = Brk(h)
         /\ \A b \in Blocks(h) \ gone : b # a => SizeOf(g, b) = SizeOf(h, b)
                                             /\ (IsFree(g, b) <=> IsFree(h, b))
         /\ Marks(g) = (Marks(h) \ dropped) \cup {end} /\ MarkAt(g, end) = size
         /\ \A m \in Marks(h) \ dropped : m # end => MarkAt(g, m) = MarkAt(h, m)
<1>. DEFINE kept == [m \in DOMAIN h.mark \ dropped |-> h.mark[m]]
            mark == With(kept, end, size)
            node == [b \in DOMAIN h.node \ gone |-> IF b = a THEN Vacant(size) ELSE h.node[b]]
<1>1. g = [node |-> node, mark |-> mark, list |-> list, brk |-> h.brk]
  BY DEF Merged, Dropped
<1>2. /\ DOMAIN node = Blocks(h) \ gone /\ node[a] = Vacant(size)
      /\ \A b \in Blocks(h) \ gone : b # a => node[b] = h.node[b]
  BY DEF Blocks
<1>3. /\ DOMAIN mark = (Marks(h) \ dropped) \cup {end} /\ mark[end] = size
      /\ \A m \in Marks(h) \ dropped : m # end => mark[m] = h.mark[m]
  BY DEF With, Marks
<1>. HIDE DEF node, mark
<1>4. /\ Blocks(g) = DOMAIN node /\ \A b : SizeOf(g, b) = node[b].size
      /\ \A b : IsFree(g, b) <=> node[b].free
      /\ Marks(g) = DOMAIN mark /\ \A k : MarkAt(g, k) = mark[k]
      /\ ListOf(g) = list /\ Brk(g) = h.brk
  BY <1>1, PartsAre
<1>5. SizeOf(g, a) = size /\ IsFree(g, a)
  <2>1. node[a].size = size /\ node[a].free
    BY <1>2 DEF Vacant
  <2>. QED
    BY <1>4, <2>1
<1>6. Blocks(g) = Blocks(h) \ gone /\ Brk(g) = Brk(h) /\ ListOf(g) = list
  BY <1>2, <1>4 DEF Brk
<1>7. \A b \in Blocks(h) \ gone : b # a => SizeOf(g, b) = SizeOf(h, b)
  BY <1>2, <1>4 DEF SizeOf
<1>8. \A b \in Blocks(h) \ gone : b # a => (IsFree(g, b) <=> IsFree(h, b))
  BY <1>2, <1>4 DEF IsFree
<1>9. /\ Marks(g) = (Marks(h) \ dropped) \cup {end} /\ MarkAt(g, end) = size
      /\ \A m \in Marks(h) \ dropped : m # end => MarkAt(g, m) = MarkAt(h, m)
  BY <1>3, <1>4 DEF MarkAt
<1>. QED
  BY <1>5, <1>6, <1>7, <1>8, <1>9

\* A block and those after it become one that is free.
LEMMA MergedIs ==
  ASSUME NEW h, NEW a, NEW last, NEW gone, NEW size, NEW list, NEW g,
         IsHeap(h), Tiled(h), Marked(h), a \in Blocks(h), last \in Blocks(h), a < last,
         gone = { x \in Blocks(h) : a < x /\ x <= last }, list \in Seq(Nat),
         size = After(h, last) - a - META, g = Merged(h, a, gone, size, list)
  PROVE  /\ IsHeap(g) /\ Tiled(g) /\ Marked(g) /\ Blocks(g) = Blocks(h) \ gone
         /\ IsFree(g, a) /\ ListOf(g) = list
         /\ \A b \in Blocks(g) \ {a} : SizeOf(g, b) = SizeOf(h, b)
                                     /\ (IsFree(g, b) <=> IsFree(h, b))
<1>1. /\ a \in Nat /\ last \in Nat /\ After(h, last) \in Nat
      /\ last < MarkOf(h, last) /\ MarkOf(h, last) \in Nat
      /\ MarkOf(h, last) = After(h, last) - DATA_SIZE_SIZE
      /\ After(h, last) = last + META + SizeOf(h, last) /\ SizeOf(h, last) \in Nat \ {0}
  BY SizeIs
<1>2. size \in Nat \ {0}
  <2>1. PICK end : end = After(h, last)
    OBVIOUS
  <2>2. size = end - a - META /\ end > last + META /\ end \in Nat
    BY <1>1, <2>1, MetaIs
  <2>3. a \in Nat /\ last \in Nat /\ a < last /\ META \in Nat
    BY <1>1, MetaIs
  <2>. QED
    BY ONLY <2>2, <2>3
<1>3. a \notin gone /\ last \in gone /\ gone \subseteq Blocks(h)
  BY <1>1
<1>4. Max(gone) = last
  <2>1. \A x \in gone : x \in Nat /\ x <= last
    BY SizeIs
  <2>2. \A x \in gone : (\A y \in gone : y <= x) => x = last
    BY <1>1, <1>3, <2>1
  <2>. QED
    BY <1>3, <2>1, <2>2 DEF Max
<1>5. PICK end : end = MarkOf(h, last)
  OBVIOUS
<1>6. PICK dropped : dropped = Dropped(h, a, gone)
  OBVIOUS
<1>7. end = MarkOf(h, Max(gone))
  BY <1>4, <1>5
<1>10. /\ Blocks(g) = Blocks(h) \ gone /\ SizeOf(g, a) = size /\ IsFree(g, a)
       /\ ListOf(g) = list /\ Brk(g) = Brk(h)
  BY <1>3, <1>6, <1>7, MergedPartsAre
<1>11. Blocks(g) = Blocks(h) \ gone /\ Brk(g) = Brk(h) /\ ListOf(g) = list
  BY <1>10
<1>12. \A b \in Blocks(g) \ {a} : SizeOf(g, b) = SizeOf(h, b) /\ (IsFree(g, b) <=> IsFree(h, b))
  BY <1>3, <1>6, <1>7, <1>10, MergedPartsAre
<1>13. /\ Marks(g) = (Marks(h) \ dropped) \cup {end} /\ MarkAt(g, end) = size
       /\ \A m \in Marks(h) \ dropped : m # end => MarkAt(g, m) = MarkAt(h, m)
  BY <1>3, <1>6, <1>7, MergedPartsAre
<1>14. IsHeap(g)
  <2>1. /\ Blocks(h) \subseteq Nat /\ \A b \in Blocks(h) : SizeOf(h, b) \in Nat \ {0}
        /\ Brk(h) \in Nat
    BY DEF IsHeap
  <2>2. Blocks(g) \subseteq Nat /\ ListOf(g) \in Seq(Nat) /\ Brk(g) \in Nat
    BY <1>11, <2>1
  <2>3. ASSUME NEW b \in Blocks(g)  PROVE SizeOf(g, b) \in Nat \ {0}
    <3>1. CASE b = a
      BY <1>2, <1>10, <3>1
    <3>2. CASE b # a
      BY <1>11, <1>12, <2>1, <3>2
    <3>. QED
      BY <3>1, <3>2
  <2>. QED
    BY ONLY <2>2, <2>3 DEF IsHeap
<1>15. After(g, a) = After(h, last) /\ MarkOf(g, a) = end
  <2>1. PICK e : e = After(h, last)
    OBVIOUS
  <2>2. /\ SizeOf(g, a) = e - a - META /\ end = e - DATA_SIZE_SIZE
        /\ a \in Nat /\ e \in Nat
    BY <1>1, <1>5, <1>10, <2>1
  <2>3. META \in Nat /\ META = STRUCT_SIZE + DATA_SIZE_SIZE
        /\ STRUCT_SIZE \in Nat /\ DATA_SIZE_SIZE \in Nat
    BY MetaIs
  <2>4. After(g, a) = a + META + (e - a - META)
        /\ MarkOf(g, a) = a + STRUCT_SIZE + (e - a - META)
    BY <2>2 DEF After, MarkOf
  <2>. QED
    BY ONLY <2>1, <2>2, <2>3, <2>4
<1>16. Tiled(g)
  <2>1. \A b \in Blocks(h) \ {a} : b \notin gone => SizeOf(g, b) = SizeOf(h, b)
    BY <1>11, <1>12
  <2>. QED
    BY <1>11, <1>14, <1>15, <2>1, TiledByMerge
<1>17. Marked(g)
  <2>1. \A b \in Blocks(g) \ {a} : MarkOf(g, b) = MarkOf(h, b)
    BY <1>12 DEF MarkOf
  <2>2. ASSUME NEW b \in Blocks(g) \ {a}
        PROVE  MarkOf(h, b) \in Marks(h) \ dropped /\ MarkOf(h, b) # end
    <3>1. b \in Blocks(h) /\ b \notin gone
      BY <1>11
    <3>2. \A x \in gone \cup {a} : MarkOf(h, b) # MarkOf(h, x)
      BY <1>3, <3>1, MarksApart
    <3>. QED
      BY <1>3, <1>5, <1>6, <3>1, <3>2 DEF Marked, Dropped
  <2>3. \A m \in Marks(h) \ dropped : \E b \in Blocks(g) \ {a} : m = MarkOf(h, b)
    BY <1>6, <1>11 DEF Marked, Dropped
  <2>4. a \in Blocks(g)
    BY <1>3, <1>11
  <2>5. Marks(g) = { MarkOf(g, b) : b \in Blocks(g) }
    <3>1. ASSUME NEW m \in Marks(g)  PROVE m \in { MarkOf(g, b) : b \in Blocks(g) }
      <4>1. CASE m = end
        BY <1>15, <2>4, <4>1
      <4>2. CASE m # end
        <5>1. PICK b \in Blocks(g) \ {a} : m = MarkOf(h, b)
          BY <1>13, <2>3, <4>2
        <5>. QED
          BY <2>1, <5>1
      <4>. QED
        BY <4>1, <4>2
    <3>2. ASSUME NEW b \in Blocks(g)  PROVE MarkOf(g, b) \in Marks(g)
      BY <1>13, <1>15, <2>1, <2>2
    <3>3. { MarkOf(g, b) : b \in Blocks(g) } \subseteq Marks(g)
      BY ONLY <3>2
    <3>4. Marks(g) \subseteq { MarkOf(g, b) : b \in Blocks(g) }
      BY ONLY <3>1
    <3>. QED
      BY ONLY <3>3, <3>4
  <2>6. ASSUME NEW b \in Blocks(g)  PROVE MarkAt(g, MarkOf(g, b)) = SizeOf(g, b)
    <3>1. CASE b = a
      BY <1>10, <1>13, <1>15, <3>1
    <3>2. CASE b # a
      <4>1. /\ MarkOf(g, b) = MarkOf(h, b) /\ MarkOf(h, b) \in Marks(h) \ dropped
            /\ MarkOf(h, b) # end /\ b \in Blocks(h)
        BY <1>11, <2>1, <2>2, <3>2
      <4>2. MarkAt(h, MarkOf(h, b)) = SizeOf(h, b)
        BY <4>1 DEF Marked
      <4>. QED
        BY <1>12, <1>13, <3>2, <4>1, <4>2
    <3>. QED
      BY <3>1, <3>2
  <2>. QED
    BY <2>5, <2>6 DEF Marked
<1>. QED
  BY <1>10, <1>11, <1>12, <1>14, <1>16, <1>17

\* A block released, first on the list.
LEMMA InsertIs ==
  ASSUME NEW h, NEW a, NEW g, IsHeap(h), Tiled(h), Marked(h), a \in Blocks(h),
         IsInjective(ListOf(h)), a \notin ToSet(ListOf(h)),
         \A b \in Blocks(h) \ {a} : IsFree(h, b) <=> b \in ToSet(ListOf(h)),
         ToSet(ListOf(h)) \subseteq Blocks(h), g = Insert(h, a)
  PROVE  /\ Sound(g) /\ Blocks(g) = Blocks(h) /\ IsFree(g, a)
         /\ \A b \in Blocks(h) : SizeOf(g, b) = SizeOf(h, b)
         /\ \A b \in Blocks(h) \ {a} : IsFree(g, b) <=> IsFree(h, b)
<1>1. PICK list : list = <<a>> \o ListOf(h)
  OBVIOUS
<1>2. g = [node |-> With(h.node, a, Vacant(SizeOf(h, a))), mark |-> h.mark,
           list |-> list, brk |-> h.brk]
  BY <1>1 DEF Insert, ListOf
<1>3. ListOf(h) \in Seq(Nat) /\ a \in Nat
  BY DEF IsHeap
<1>4. /\ list \in Seq(Nat) /\ IsInjective(list)
      /\ ToSet(list) = ToSet(ListOf(h)) \cup {a}
  BY <1>1, <1>3, PrependElements
<1>5. /\ IsHeap(g) /\ Blocks(g) = Blocks(h)
      /\ \A b \in Blocks(h) : SizeOf(g, b) = SizeOf(h, b)
      /\ IsFree(g, a)
      /\ Marks(g) = Marks(h) /\ \A m : MarkAt(g, m) = MarkAt(h, m)
      /\ ListOf(g) = list /\ Brk(g) = Brk(h)
  BY <1>2, <1>4, ReleasedIs
<1>6. \A b \in Blocks(h) \ {a} : IsFree(g, b) <=> IsFree(h, b)
  BY <1>2, <1>4, ReleasedIs
<1>7. Tiled(g) /\ Marked(g)
  BY <1>5, TiledStays, MarkedStays
<1>8. ToSet(list) = { b \in Blocks(g) : IsFree(g, b) }
  BY <1>4, <1>5, <1>6
<1>. QED
  BY <1>4, <1>5, <1>6, <1>7, <1>8 DEF Sound, Listed

\* The blocks after x, up to last.
UpTo(h, x, last) == { y \in Blocks(h) : x < y /\ y <= last }

\* A list in which x takes the place of the blocks that are gone.
Relinked(h, x, gone, list) ==
  /\ list \in Seq(Nat) /\ IsInjective(list)
  /\ ToSet(list) = (ToSet(ListOf(h)) \ gone) \cup {x}

\* Of the blocks that become one, a is the only one that was not free.
OnlyUsed(h, x, gone, a) == /\ a \in gone \cup {x}
                           /\ \A y \in gone \cup {x} : y # a => IsFree(h, y)

\* Block a is given back, and free blocks around it become one with it.
LEMMA GivenBack ==
  ASSUME NEW h, NEW x, NEW last, NEW gone, NEW size, NEW list, NEW a, NEW g,
         Sound(h), x \in Blocks(h), last \in Blocks(h), x < last, gone = UpTo(h, x, last),
         size = After(h, last) - x - META, g = Merged(h, x, gone, size, list), a \in Used(h),
         Relinked(h, x, gone, list), OnlyUsed(h, x, gone, a)
  PROVE  /\ Sound(g) /\ Used(g) = Used(h) \ {a}
         /\ \A b \in Used(g) : SizeOf(g, b) = SizeOf(h, b)
<1>1. /\ IsHeap(h) /\ Tiled(h) /\ Marked(h)
      /\ ToSet(ListOf(h)) = { b \in Blocks(h) : IsFree(h, b) }
  BY DEF Sound, Listed
<1>2. /\ gone = { y \in Blocks(h) : x < y /\ y <= last }
      /\ list \in Seq(Nat) /\ IsInjective(list)
      /\ ToSet(list) = (ToSet(ListOf(h)) \ gone) \cup {x}
      /\ a \in gone \cup {x} /\ \A y \in gone \cup {x} : y # a => IsFree(h, y)
  BY DEF UpTo, Relinked, OnlyUsed
<1>3. /\ IsHeap(g) /\ Tiled(g) /\ Marked(g) /\ Blocks(g) = Blocks(h) \ gone
      /\ IsFree(g, x) /\ ListOf(g) = list
  BY <1>1, <1>2, MergedIs
<1>4. \A b \in Blocks(g) \ {x} : SizeOf(g, b) = SizeOf(h, b) /\ (IsFree(g, b) <=> IsFree(h, b))
  BY <1>1, <1>2, MergedIs
<1>5. x \notin gone
  <2>1. x \in Nat
    BY <1>1, SizeIs
  <2>. QED
    BY <1>2, <2>1
<1>6. ToSet(list) = { b \in Blocks(g) : IsFree(g, b) }
  <2>1. ASSUME NEW b \in ToSet(list)  PROVE b \in Blocks(g) /\ IsFree(g, b)
    <3>1. CASE b = x
      BY <1>3, <1>5, <3>1
    <3>2. CASE b # x
      <4>1. b \in Blocks(h) \ gone /\ IsFree(h, b)
        BY <1>1, <1>2, <2>1, <3>2
      <4>. QED
        BY <1>3, <1>4, <3>2, <4>1
    <3>. QED
      BY <3>1, <3>2
  <2>2. ASSUME NEW b \in Blocks(g), IsFree(g, b)  PROVE b \in ToSet(list)
    <3>1. CASE b = x
      BY <1>2, <3>1
    <3>2. CASE b # x
      <4>1. b \in Blocks(h) \ gone /\ IsFree(h, b)
        BY <1>3, <1>4, <2>2, <3>2
      <4>. QED
        BY <1>1, <1>2, <4>1
    <3>. QED
      BY <3>1, <3>2
  <2>. QED
    BY ONLY <2>1, <2>2
<1>7. Used(g) = Used(h) \ {a}
  <2>1. ASSUME NEW b \in Blocks(g), ~IsFree(g, b)
        PROVE  b \in Blocks(h) /\ ~IsFree(h, b) /\ b # a
    <3>1. b # x /\ b \in Blocks(h) /\ b \notin gone
      BY <1>3, <2>1
    <3>2. ~IsFree(h, b)
      BY <1>4, <2>1, <3>1
    <3>. QED
      BY <1>2, <3>1, <3>2
  <2>2. ASSUME NEW b \in Blocks(h), ~IsFree(h, b), b # a
        PROVE  b \in Blocks(g) /\ ~IsFree(g, b)
    <3>1. b \notin gone /\ b # x
      BY <1>2, <2>2
    <3>2. b \in Blocks(g) \ {x}
      BY <1>3, <3>1
    <3>. QED
      BY <1>4, <2>2, <3>2
  <2>. QED
    BY ONLY <2>1, <2>2 DEF Used
<1>8. ASSUME NEW b \in Used(g)  PROVE SizeOf(g, b) = SizeOf(h, b)
  <2>1. b \in Blocks(g) \ {x}
    BY <1>3, <1>8 DEF Used
  <2>. QED
    BY <1>4, <2>1
<1>. QED
  BY <1>2, <1>3, <1>6, <1>7, <1>8 DEF Sound, Listed

\* free gives back one block, whatever it is merged with.
LEMMA FreeIs ==
  ASSUME NEW h, NEW a, NEW g, Sound(h), a \in Used(h), g = AfterFree(h, a)
  PROVE  /\ Sound(g) /\ Used(g) = Used(h) \ {a}
         /\ \A b \in Used(g) : SizeOf(g, b) = SizeOf(h, b)
<1>1. /\ IsHeap(h) /\ Tiled(h) /\ Marked(h)
      /\ ListOf(h) \in Seq(Nat) /\ IsInjective(ListOf(h))
      /\ ToSet(ListOf(h)) = { b \in Blocks(h) : IsFree(h, b) }
      /\ a \in Blocks(h) /\ ~IsFree(h, a) /\ a \notin ToSet(ListOf(h))
  BY DEF Sound, IsHeap, Listed, Used
<1>2. /\ a \in Nat /\ SizeOf(h, a) \in Nat /\ After(h, a) = a + META + SizeOf(h, a)
      /\ a < After(h, a) /\ After(h, a) \in Nat
  BY <1>1, SizeIs
<1>3. PICK b : b = Before(h, a)
  OBVIOUS
<1>4. PICK c : c = After(h, a)
  OBVIOUS
<1>5. ASSUME FreeBefore(h, a)
      PROVE  /\ b \in Blocks(h) /\ IsFree(h, b) /\ After(h, b) = a /\ b < a /\ b \in Nat
             /\ SizeOf(h, b) \in Nat /\ a = b + META + SizeOf(h, b)
             /\ \A x \in Blocks(h) : b < x => a <= x
  <2>1. a # Start /\ IsFree(h, b)
    BY <1>3, <1>5 DEF FreeBefore, IsFree
  <2>2. b \in Blocks(h) /\ After(h, b) = a /\ b < a
    BY <1>1, <1>3, <2>1, BeforeIs
  <2>3. b \in Nat /\ SizeOf(h, b) \in Nat /\ After(h, b) = b + META + SizeOf(h, b)
    BY <1>1, <2>2, SizeIs
  <2>. QED
    BY <1>1, <2>1, <2>2, <2>3 DEF Tiled
<1>6. ASSUME FreeAfter(h, a)
      PROVE  /\ c \in Blocks(h) /\ IsFree(h, c) /\ a < c /\ c \in Nat
             /\ c = a + META + SizeOf(h, a)
             /\ SizeOf(h, c) \in Nat /\ After(h, c) = c + META + SizeOf(h, c)
             /\ \A x \in Blocks(h) : a < x => c <= x
  <2>1. c \in Blocks(h) /\ IsFree(h, c)
    BY <1>1, <1>4, <1>6, AfterIs
  <2>2. c \in Nat /\ SizeOf(h, c) \in Nat /\ After(h, c) = c + META + SizeOf(h, c)
    BY <1>1, <2>1, SizeIs
  <2>. QED
    BY <1>1, <1>2, <1>4, <2>1, <2>2 DEF Tiled
<1>7. \A x \in Blocks(h) : x \in Nat
  BY <1>1 DEF IsHeap
<1>8. CASE FreeBefore(h, a) /\ FreeAfter(h, a)
  <2>1. PICK list : list = RemoveFirst(ListOf(h), c)
    OBVIOUS
  <2>2. PICK size : size = SizeOf(h, b) + SizeOf(h, a) + SizeOf(h, c) + 2 * META
    OBVIOUS
  <2>3. PICK gone : gone = {a, c}
    OBVIOUS
  <2>4. g = Merged(h, b, gone, size, list)
    BY <1>3, <1>4, <1>8, <2>1, <2>2, <2>3 DEF AfterFree, MergeBoth, ListOf
  <2>5. /\ list \in Seq(Nat) /\ IsInjective(list)
        /\ ToSet(list) = ToSet(ListOf(h)) \ {c}
    <3>1. c \in ToSet(ListOf(h))
      BY <1>1, <1>6, <1>8
    <3>2. /\ list \in Seq(Nat) /\ IsInjective(list) /\ c \notin ToSet(list)
          /\ ToSet(ListOf(h)) \ {c} \subseteq ToSet(list) /\ ToSet(list) \subseteq ToSet(ListOf(h))
      BY <1>1, <2>1, <3>1, RemoveFirstElements
    <3>. QED
      BY <3>2
  <2>6. gone = UpTo(h, b, c)
    <3>1. ASSUME NEW x \in Blocks(h), b < x, x <= c  PROVE x = a \/ x = c
      BY <1>2, <1>5, <1>6, <1>7, <1>8, <3>1
    <3>2. a \in Blocks(h) /\ b < a /\ a <= c /\ c \in Blocks(h) /\ b < c /\ c <= c
      BY <1>1, <1>2, <1>5, <1>6, <1>8
    <3>. QED
      BY <2>3, <3>1, <3>2 DEF UpTo
  <2>7. size = After(h, c) - b - META
    BY <1>2, <1>5, <1>6, <1>8, <2>2, MetaIs
  <2>8. Relinked(h, b, gone, list)
    <3>1. b \in ToSet(ListOf(h)) /\ b # c
      BY <1>1, <1>2, <1>5, <1>6, <1>8
    <3>2. ToSet(list) = (ToSet(ListOf(h)) \ {a, c}) \cup {b}
      BY <1>1, <2>5, <3>1
    <3>. QED
      BY <2>3, <2>5, <3>2 DEF Relinked
  <2>9. OnlyUsed(h, b, gone, a)
    BY <1>5, <1>6, <1>8, <2>3 DEF OnlyUsed
  <2>10. b < c /\ b \in Blocks(h) /\ c \in Blocks(h)
    BY <1>2, <1>5, <1>6, <1>8
  <2>. QED
    BY <2>4, <2>6, <2>7, <2>8, <2>9, <2>10, GivenBack
<1>9. CASE FreeAfter(h, a) /\ ~FreeBefore(h, a)
  <2>1. PICK list : list = ReplaceAll(ListOf(h), c, a)
    OBVIOUS
  <2>2. PICK size : size = SizeOf(h, a) + SizeOf(h, c) + META
    OBVIOUS
  <2>3. PICK gone : gone = {c}
    OBVIOUS
  <2>4. g = Merged(h, a, gone, size, list)
    BY <1>4, <1>9, <2>1, <2>2, <2>3 DEF AfterFree, MergeWithAfter, ListOf
  <2>5. Relinked(h, a, gone, list)
    <3>1. c \in ToSet(ListOf(h))
      BY <1>1, <1>6, <1>9
    <3>2. /\ list \in Seq(Nat) /\ IsInjective(list)
          /\ ToSet(list) = (ToSet(ListOf(h)) \ {c}) \cup {a}
      BY <1>1, <1>2, <2>1, <3>1, ReplaceAllElements
    <3>. QED
      BY <2>3, <3>2 DEF Relinked
  <2>6. gone = UpTo(h, a, c)
    <3>1. ASSUME NEW x \in Blocks(h), a < x, x <= c  PROVE x = c
      BY <1>6, <1>7, <1>9, <3>1
    <3>2. c \in Blocks(h) /\ a < c /\ c <= c
      BY <1>6, <1>9
    <3>. QED
      BY <2>3, <3>1, <3>2 DEF UpTo
  <2>7. size = After(h, c) - a - META
    BY <1>2, <1>6, <1>9, <2>2, MetaIs
  <2>8. OnlyUsed(h, a, gone, a) /\ a < c /\ c \in Blocks(h)
    BY <1>6, <1>9, <2>3 DEF OnlyUsed
  <2>. QED
    BY <1>1, <2>4, <2>5, <2>6, <2>7, <2>8, GivenBack
<1>10. CASE FreeBefore(h, a) /\ ~FreeAfter(h, a)
  <2>1. PICK list : list = ListOf(h)
    OBVIOUS
  <2>2. PICK size : size = SizeOf(h, b) + SizeOf(h, a) + META
    OBVIOUS
  <2>3. PICK gone : gone = {a}
    OBVIOUS
  <2>4. g = Merged(h, b, gone, size, list)
    BY <1>3, <1>10, <2>1, <2>2, <2>3 DEF AfterFree, MergeWithBefore, ListOf
  <2>5. Relinked(h, b, gone, list)
    <3>1. ToSet(list) = (ToSet(ListOf(h)) \ {a}) \cup {b}
      BY <1>1, <1>5, <1>10, <2>1
    <3>. QED
      BY <1>1, <2>1, <2>3, <3>1 DEF Relinked
  <2>6. gone = UpTo(h, b, a)
    <3>1. ASSUME NEW x \in Blocks(h), b < x, x <= a  PROVE x = a
      BY <1>2, <1>5, <1>7, <1>10, <3>1
    <3>2. a \in Blocks(h) /\ b < a /\ a <= a
      BY <1>1, <1>2, <1>5, <1>10
    <3>. QED
      BY <2>3, <3>1, <3>2 DEF UpTo
  <2>7. size = After(h, a) - b - META
    BY <1>2, <1>5, <1>10, <2>2, MetaIs
  <2>8. OnlyUsed(h, b, gone, a) /\ b < a /\ b \in Blocks(h)
    BY <1>5, <1>10, <2>3 DEF OnlyUsed
  <2>. QED
    BY <1>1, <2>4, <2>5, <2>6, <2>7, <2>8, GivenBack
<1>11. CASE ~FreeBefore(h, a) /\ ~FreeAfter(h, a)
  <2>1. g = Insert(h, a)
    BY <1>11 DEF AfterFree
  <2>2. /\ \A x \in Blocks(h) \ {a} : IsFree(h, x) <=> x \in ToSet(ListOf(h))
        /\ ToSet(ListOf(h)) \subseteq Blocks(h)
    BY <1>1
  <2>3. /\ Sound(g) /\ Blocks(g) = Blocks(h) /\ IsFree(g, a)
        /\ \A x \in Blocks(h) : SizeOf(g, x) = SizeOf(h, x)
    BY <1>1, <2>1, <2>2, InsertIs
  <2>4. \A x \in Blocks(h) \ {a} : IsFree(g, x) <=> IsFree(h, x)
    BY <1>1, <2>1, <2>2, InsertIs
  <2>. QED
    BY <2>3, <2>4 DEF Used
<1>. QED
  BY <1>8, <1>9, <1>10, <1>11

\* What realloc cuts off is a free block of its own.
LEMMA ReducedIs ==
  ASSUME NEW h, NEW a, NEW n, NEW g, Sound(h), a \in Used(h), n \in Nat \ {0},
         SizeOf(h, a) >= n, g = Reduced(h, a, n)
  PROVE  /\ Sound(g) /\ Used(g) = Used(h) /\ SizeOf(g, a) >= n
         /\ \A b \in Used(h) \ {a} : SizeOf(g, b) = SizeOf(h, b)
<1>1. CASE SizeOf(h, a) > Large /\ SizeOf(h, a) - n > META
  <2>1. PICK rest : rest = a + META + n
    OBVIOUS
  <2>2. PICK k : k = Divided(h, a, n)
    OBVIOUS
  <2>3. g = Insert(k, rest)
    BY <1>1, <2>1, <2>2 DEF Reduced
  <2>4. /\ a \in Blocks(h) /\ ~IsFree(h, a) /\ IsInjective(ListOf(h))
        /\ ToSet(ListOf(h)) = { b \in Blocks(h) : IsFree(h, b) }
    BY DEF Used, Sound, Listed
  <2>5. /\ IsHeap(k) /\ Tiled(k) /\ Marked(k)
        /\ rest \in Nat /\ rest \notin Blocks(h) /\ Blocks(k) = Blocks(h) \cup {rest}
        /\ SizeOf(k, a) = n /\ ~IsFree(k, a) /\ IsFree(k, rest)
        /\ ListOf(k) = ListOf(h)
    BY <1>1, <2>1, <2>2, <2>4, DividedIs
  <2>6. \A b \in Blocks(h) \ {a} : SizeOf(k, b) = SizeOf(h, b) /\ (IsFree(k, b) <=> IsFree(h, b))
    BY <1>1, <2>1, <2>2, <2>4, DividedIs
  <2>7. /\ IsInjective(ListOf(k)) /\ rest \notin ToSet(ListOf(k)) /\ rest \in Blocks(k)
        /\ \A b \in Blocks(k) \ {rest} : IsFree(k, b) <=> b \in ToSet(ListOf(k))
        /\ ToSet(ListOf(k)) \subseteq Blocks(k)
    BY <2>4, <2>5, <2>6
  <2>8. /\ Sound(g) /\ Blocks(g) = Blocks(k) /\ IsFree(g, rest)
        /\ \A b \in Blocks(k) : SizeOf(g, b) = SizeOf(k, b)
    BY <2>3, <2>5, <2>7, InsertIs
  <2>9. \A b \in Blocks(k) \ {rest} : IsFree(g, b) <=> IsFree(k, b)
    BY <2>3, <2>5, <2>7, InsertIs
  <2>10. Used(g) = Used(h)
    BY <2>4, <2>5, <2>6, <2>8, <2>9 DEF Used
  <2>11. SizeOf(g, a) = n
    BY <2>4, <2>5, <2>8
  <2>12. \A b \in Used(h) \ {a} : SizeOf(g, b) = SizeOf(h, b)
    BY <2>5, <2>6, <2>8 DEF Used
  <2>. QED
    BY <2>8, <2>10, <2>11, <2>12
<1>2. CASE ~(SizeOf(h, a) > Large /\ SizeOf(h, a) - n > META)
  <2>1. g = h
    BY <1>2 DEF Reduced
  <2>. QED
    BY <2>1
<1>. QED
  BY <1>1, <1>2
-----------------------------------------------------------------------------
\* What is given out, in the blocks in use.
LEMMA GivenIs ==
  ASSUME NEW h, NEW l, NEW p, Sound(h), Given(h, l), p \in DOMAIN l
  PROVE  /\ p - STRUCT_SIZE \in Used(h) /\ Payload(p - STRUCT_SIZE) = p
         /\ l[p] \in Nat \ {0} /\ l[p] <= SizeOf(h, p - STRUCT_SIZE)
<1>1. PICK a \in Used(h) : p = Payload(a)
  BY DEF Given
<1>2. a \in Nat
  BY SizeIs DEF Sound, Used
<1>3. p - STRUCT_SIZE = a
  BY <1>1, <1>2 DEF Payload
<1>4. l[p] \in Nat \ {0} /\ l[p] <= SizeOf(h, p - STRUCT_SIZE)
  BY DEF Given
<1>. QED
  BY <1>1, <1>3, <1>4

\* The bytes of two blocks are apart, and on the heap.
LEMMA GivenApart ==
  ASSUME NEW h, NEW l, NEW p, Sound(h), Given(h, l), p \in DOMAIN l
  PROVE  /\ l[p] \in Nat \ {0}
         /\ p .. p + l[p] - 1 \subseteq Start .. Limit - 1
         /\ \A q \in DOMAIN l \ {p} : (p .. p + l[p] - 1) \cap (q .. q + l[q] - 1) = {}
<1>. DEFINE a == p - STRUCT_SIZE
<1>1. /\ a \in Used(h) /\ p = a + STRUCT_SIZE
      /\ l[p] \in Nat \ {0} /\ l[p] <= SizeOf(h, a)
  BY GivenIs DEF Payload
<1>2. PICK n : n = l[p]
  OBVIOUS
<1>. HIDE DEF a
<1>3. /\ IsHeap(h) /\ Tiled(h) /\ a \in Blocks(h)
  BY <1>1 DEF Sound, Used
<1>4. /\ a \in Nat /\ p + n - 1 < After(h, a) /\ After(h, a) \in Nat
      /\ a < p /\ p \in Nat /\ n \in Nat \ {0}
  BY <1>1, <1>2, <1>3, SizeIs, MetaIs
<1>5. p .. p + n - 1 \subseteq Start .. Limit - 1
  <2>1. Start <= a /\ After(h, a) <= Brk(h)
    BY <1>3 DEF Tiled
  <2>2. Brk(h) \in Nat
    BY <1>3 DEF IsHeap
  <2>3. Brk(h) <= Limit
    BY <1>3, <1>4, <2>1, <2>2 DEF Tiled
  <2>. QED
    BY <1>4, <2>1, <2>2, <2>3
<1>6. ASSUME NEW q, q \in DOMAIN l \ {p}
      PROVE (p .. p + n - 1) \cap (q .. q + l[q] - 1) = {}
  <2>. DEFINE b == q - STRUCT_SIZE
  <2>1. /\ b \in Used(h) /\ q = b + STRUCT_SIZE
        /\ l[q] \in Nat \ {0} /\ l[q] <= SizeOf(h, b)
    BY <1>6, GivenIs DEF Payload
  <2>2. PICK k : k = l[q]
    OBVIOUS
  <2>. HIDE DEF b
  <2>3. b \in Blocks(h)
    BY <2>1 DEF Used
  <2>4. /\ b \in Nat /\ q + k - 1 < After(h, b) /\ After(h, b) \in Nat
        /\ b < q /\ q \in Nat /\ k \in Nat \ {0}
    BY <1>3, <2>1, <2>2, <2>3, SizeIs, MetaIs
  <2>5. a # b
    BY <1>1, <1>6, <2>1
  <2>6. After(h, a) <= b \/ After(h, b) <= a
    BY <1>3, <1>4, <2>3, <2>4, <2>5 DEF Tiled
  <2>7. p + n - 1 < q \/ q + k - 1 < p
    BY <1>4, <2>4, <2>6
  <2>8. (p .. p + n - 1) \cap (q .. q + k - 1) = {}
    BY <1>4, <2>4, <2>7
  <2>. QED
    BY <2>2, <2>8
<1>. QED
  BY <1>1, <1>2, <1>5, <1>6

\* malloc adds one payload to those that are given out, and no other changes.
LEMMA MallocGives ==
  ASSUME NEW h, NEW l, NEW a, NEW n, NEW g, NEW m, Sound(h), Given(h, l), n \in Nat \ {0},
         Fits(h, n) = {} => Brk(h) + META + n <= Limit, a = Place(h, n), g = AfterMalloc(h, n),
         m = With(l, Payload(a), n)
  PROVE  Sound(g) /\ Given(g, m) /\ Payload(a) \notin DOMAIN l
<1>1. /\ Sound(g) /\ a \notin Used(h) /\ Used(g) = Used(h) \cup {a} /\ SizeOf(g, a) >= n
      /\ \A b \in Used(h) : SizeOf(g, b) = SizeOf(h, b)
  BY MallocIs
<1>2. a \in Nat /\ SizeOf(g, a) \in Nat
  BY <1>1, SizeIs DEF Sound, Used
<1>3. Payload(a) - STRUCT_SIZE = a
  BY <1>2 DEF Payload
<1>4. Payload(a) \notin DOMAIN l
  BY <1>1, <1>3, GivenIs
<1>5. /\ DOMAIN m = DOMAIN l \cup {Payload(a)} /\ m[Payload(a)] = n
      /\ \A p \in DOMAIN l : m[p] = l[p]
  BY <1>4 DEF With
<1>6. DOMAIN m = { Payload(b) : b \in Used(g) }
  BY <1>1, <1>5 DEF Given
<1>7. ASSUME NEW p, p \in DOMAIN m
      PROVE  m[p] \in Nat \ {0} /\ m[p] <= SizeOf(g, p - STRUCT_SIZE)
  <2>1. CASE p = Payload(a)
    BY <1>1, <1>2, <1>3, <1>5, <2>1
  <2>2. CASE p # Payload(a)
    <3>1. p \in DOMAIN l /\ m[p] = l[p]
      BY <1>5, <1>7, <2>2
    <3>2. /\ p - STRUCT_SIZE \in Used(h)
          /\ l[p] \in Nat \ {0} /\ l[p] <= SizeOf(h, p - STRUCT_SIZE)
      BY <3>1, GivenIs
    <3>. QED
      BY <1>1, <3>1, <3>2
  <2>. QED
    BY <2>1, <2>2
<1>8. Given(g, m)
  BY <1>6, <1>7 DEF Given
<1>. QED
  BY <1>1, <1>4, <1>8

\* free takes one away.
LEMMA FreeTakes ==
  ASSUME NEW h, NEW l, NEW p, NEW g, NEW m, Sound(h), Given(h, l), p \in DOMAIN l,
         g = AfterFree(h, p - STRUCT_SIZE), m = Less(l, p)
  PROVE  Sound(g) /\ Given(g, m)
<1>. DEFINE a == p - STRUCT_SIZE
<1>1. a \in Used(h) /\ Payload(a) = p
  BY GivenIs
<1>. HIDE DEF a
<1>2. /\ Sound(g) /\ Used(g) = Used(h) \ {a}
      /\ \A b \in Used(g) : SizeOf(g, b) = SizeOf(h, b)
  BY <1>1, FreeIs DEF a
<1>3. DOMAIN m = DOMAIN l \ {p} /\ \A q \in DOMAIN l \ {p} : m[q] = l[q]
  BY DEF Less
<1>4. ASSUME NEW b, b \in Used(h)  PROVE Payload(b) = p => b = a
  <2>1. a \in Nat /\ b \in Nat
    BY <1>1, <1>4, SizeIs DEF Sound, Used
  <2>. QED
    BY <1>1, <2>1 DEF Payload
<1>5. DOMAIN m = { Payload(b) : b \in Used(g) }
  BY <1>1, <1>2, <1>3, <1>4 DEF Given
<1>6. ASSUME NEW q, q \in DOMAIN m
      PROVE  m[q] \in Nat \ {0} /\ m[q] <= SizeOf(g, q - STRUCT_SIZE)
  <2>1. q \in DOMAIN l /\ q # p /\ m[q] = l[q]
    BY <1>3, <1>6
  <2>2. /\ q - STRUCT_SIZE \in Used(h) /\ Payload(q - STRUCT_SIZE) = q
        /\ l[q] \in Nat \ {0} /\ l[q] <= SizeOf(h, q - STRUCT_SIZE)
    BY <2>1, GivenIs
  <2>3. q - STRUCT_SIZE # a
    BY <1>1, <2>1, <2>2
  <2>. QED
    BY <1>2, <2>1, <2>2, <2>3
<1>7. Given(g, m)
  BY <1>5, <1>6 DEF Given
<1>. QED
  BY <1>2, <1>7

\* realloc to a smaller size keeps the payloads, and the one it is about fits.
LEMMA ReduceKeeps ==
  ASSUME NEW h, NEW l, NEW p, NEW n, NEW g, NEW m, Sound(h), Given(h, l), p \in DOMAIN l,
         n \in Nat \ {0}, SizeOf(h, p - STRUCT_SIZE) >= n,
         g = Reduced(h, p - STRUCT_SIZE, n), m = With(l, p, n)
  PROVE  Sound(g) /\ Given(g, m)
<1>. DEFINE a == p - STRUCT_SIZE
<1>1. a \in Used(h) /\ Payload(a) = p
  BY GivenIs
<1>. HIDE DEF a
<1>2. /\ Sound(g) /\ Used(g) = Used(h) /\ SizeOf(g, a) >= n
      /\ \A b \in Used(h) \ {a} : SizeOf(g, b) = SizeOf(h, b)
  BY <1>1, ReducedIs DEF a
<1>3. SizeOf(g, a) \in Nat
  BY <1>1, <1>2, SizeIs DEF Sound, Used
<1>4. DOMAIN m = DOMAIN l /\ m[p] = n /\ \A q \in DOMAIN l \ {p} : m[q] = l[q]
  BY DEF With
<1>5. DOMAIN m = { Payload(b) : b \in Used(g) }
  BY <1>2, <1>4 DEF Given
<1>6. ASSUME NEW q, q \in DOMAIN m
      PROVE  m[q] \in Nat \ {0} /\ m[q] <= SizeOf(g, q - STRUCT_SIZE)
  <2>1. CASE q = p
    BY <1>2, <1>3, <1>4, <2>1 DEF a
  <2>2. CASE q # p
    <3>1. q \in DOMAIN l /\ m[q] = l[q]
      BY <1>4, <1>6, <2>2
    <3>2. /\ q - STRUCT_SIZE \in Used(h) /\ Payload(q - STRUCT_SIZE) = q
          /\ l[q] \in Nat \ {0} /\ l[q] <= SizeOf(h, q - STRUCT_SIZE)
      BY <3>1, GivenIs
    <3>3. q - STRUCT_SIZE # a
      BY <1>1, <2>2, <3>2
    <3>. QED
      BY <1>2, <3>1, <3>2, <3>3
  <2>. QED
    BY <2>1, <2>2
<1>7. Given(g, m)
  BY <1>5, <1>6 DEF Given
<1>. QED
  BY <1>2, <1>7
-----------------------------------------------------------------------------
\* head and start, before the first call.
LEMMA HeapInvInit == HeapInit => HeapInv
<1>. SUFFICES ASSUME HeapInit  PROVE HeapInv
  OBVIOUS
<1>1. /\ Blocks(heap) = {} /\ Marks(heap) = {} /\ ListOf(heap) = <<>> /\ Brk(heap) = Start
  <2>1. heap = [node |-> <<>>, mark |-> <<>>, list |-> <<>>, brk |-> Start]
    BY DEF HeapInit
  <2>2. DOMAIN <<>> = {}
    OBVIOUS
  <2>. QED
    BY <2>1, <2>2, PartsAre
<1>2. ListOf(heap) \in Seq(Nat) /\ ToSet(ListOf(heap)) = {} /\ IsInjective(ListOf(heap))
  BY <1>1 DEF ToSet, IsInjective
<1>3. IsHeap(heap) /\ Tiled(heap) /\ Marked(heap) /\ Listed(heap)
  BY <1>1, <1>2 DEF IsHeap, Tiled, Marked, Listed
<1>4. Given(heap, live)
  <2>1. DOMAIN live = {} /\ Used(heap) = {}
    BY <1>1 DEF HeapInit, Used
  <2>. QED
    BY <2>1 DEF Given
<1>. QED
  BY <1>3, <1>4 DEF HeapInv, Sound

\* The promise of malloc, which calloc makes too.
LEMMA MallocStep ==
  ASSUME HeapInv, NEW n, n \in Nat \ {0}, Malloc(n)
  PROVE  HeapInv' /\ [Promise!Next]_live
<1>. DEFINE p == Payload(Place(heap, n))
<1>1. CASE Fails(n) /\ ProgramCrashes
  BY <1>1 DEF ProgramCrashes, HeapInv
<1>2. CASE Survives(n) /\ heap' = AfterMalloc(heap, n) /\ live' = With(live, p, n)
  <2>1. Sound(heap) /\ Given(heap, live)
    BY DEF HeapInv
  <2>2. Fits(heap, n) = {} => Brk(heap) + META + n <= Limit
    <3>1. Brk(heap) \in Nat
      BY <2>1 DEF Sound, IsHeap
    <3>. QED
      BY <1>2, <3>1, MetaIs DEF Survives, Fails, Brk
  <2>3. Sound(heap') /\ Given(heap', live') /\ p \notin DOMAIN live
    BY <1>2, <2>1, <2>2, MallocGives
  <2>4. HeapInv'
    BY <2>3 DEF HeapInv
  <2>. HIDE DEF p
  <2>5. /\ DOMAIN live' = DOMAIN live \cup {p} /\ live'[p] = n
        /\ \A q \in DOMAIN live : live'[q] = live[q]
    BY <1>2, <2>3 DEF With
  <2>6. /\ live'[p] \in Nat \ {0} /\ p .. p + live'[p] - 1 \subseteq Start .. Limit - 1
        /\ \A q \in DOMAIN live' \ {p} : (p .. p + live'[p] - 1) \cap (q .. q + live'[q] - 1) = {}
    BY <2>3, <2>5, GivenApart
  <2>7. Promise!Unused(p, n, DOMAIN live)
    BY <2>3, <2>5, <2>6 DEF Promise!Unused, Promise!Bytes
  <2>8. Promise!Allocate(p, live'[p])
    BY <1>2, <2>5, <2>7 DEF Promise!Allocate, With
  <2>9. p \in DOMAIN live' \ DOMAIN live
    BY <2>3, <2>5
  <2>. QED
    BY <2>4, <2>8, <2>9 DEF Promise!Next
<1>. QED
  BY <1>1, <1>2 DEF Malloc

\* The promise of free.
LEMMA FreeStep ==
  ASSUME HeapInv, NEW p, p \in DOMAIN live, Free(p)
  PROVE  HeapInv' /\ [Promise!Next]_live
<1>1. Sound(heap') /\ Given(heap', live')
  BY FreeTakes DEF Free, HeapInv
<1>2. Promise!Release(p)
  BY DEF Free, Less, Promise!Release
<1>. QED
  BY <1>1, <1>2 DEF HeapInv, Promise!Next

\* The promise of realloc that leaves the block where it is.
LEMMA ReduceStep ==
  ASSUME HeapInv, NEW p, NEW n, p \in DOMAIN live, n \in Nat \ {0}, Reduce(p, n)
  PROVE  HeapInv' /\ [Promise!Next]_live
<1>1. Sound(heap') /\ Given(heap', live')
  BY ReduceKeeps DEF Reduce, HeapInv
<1>2. /\ DOMAIN live' = DOMAIN live /\ live'[p] = n
      /\ \A q \in DOMAIN live \ {p} : live'[q] = live[q]
      /\ live' = [live EXCEPT ![p] = n]
  BY DEF Reduce, With
<1>3. /\ live'[p] \in Nat \ {0} /\ p .. p + live'[p] - 1 \subseteq Start .. Limit - 1
      /\ \A q \in DOMAIN live' \ {p} : (p .. p + live'[p] - 1) \cap (q .. q + live'[q] - 1) = {}
  BY <1>1, <1>2, GivenApart
<1>4. Promise!Unused(p, n, DOMAIN live \ {p})
  BY <1>2, <1>3 DEF Promise!Unused, Promise!Bytes
<1>5. Promise!ResizeInPlace(p, live'[p])
  BY <1>2, <1>4 DEF Promise!ResizeInPlace
<1>. QED
  BY <1>1, <1>2, <1>5 DEF HeapInv, Promise!Next

\* The new block is found while the old one is still in use.
LEMMA IncreaseStep ==
  ASSUME HeapInv, NEW p, NEW n, p \in DOMAIN live, n \in Nat \ {0}, Increase(p, n)
  PROVE  HeapInv' /\ [Promise!Next]_live
<1>. DEFINE q == Payload(Place(heap, n))
            g == AfterMalloc(heap, n)
            m == With(live, q, n)
<1>1. CASE Fails(n) /\ ProgramCrashes
  BY <1>1 DEF ProgramCrashes, HeapInv
<1>2. CASE /\ Survives(n) /\ heap' = AfterFree(g, p - STRUCT_SIZE)
           /\ live' = With(Less(live, p), q, n)
  <2>1. Sound(heap) /\ Given(heap, live)
    BY DEF HeapInv
  <2>2. Fits(heap, n) = {} => Brk(heap) + META + n <= Limit
    <3>1. Brk(heap) \in Nat
      BY <2>1 DEF Sound, IsHeap
    <3>. QED
      BY <1>2, <3>1, MetaIs DEF Survives, Fails, Brk
  <2>3. Sound(g) /\ Given(g, m) /\ q \notin DOMAIN live
    BY <2>1, <2>2, MallocGives
  <2>. HIDE DEF g, q
  <2>4. /\ DOMAIN m = DOMAIN live \cup {q} /\ m[q] = n
        /\ \A r \in DOMAIN live : m[r] = live[r]
    BY <2>3 DEF With
  <2>5. q # p
    BY <2>3
  <2>6. live' = Less(m, p)
    BY <1>2, <2>5 DEF Less, With
  <2>. HIDE DEF m
  <2>7. Sound(heap') /\ Given(heap', live')
    BY <1>2, <2>3, <2>4, <2>6, FreeTakes
  <2>8. /\ m[q] \in Nat \ {0} /\ q .. q + m[q] - 1 \subseteq Start .. Limit - 1
        /\ \A r \in DOMAIN m \ {q} : (q .. q + m[q] - 1) \cap (r .. r + m[r] - 1) = {}
    BY <2>3, <2>4, GivenApart
  <2>9. Promise!Unused(q, n, DOMAIN live)
    BY <2>3, <2>4, <2>8 DEF Promise!Unused, Promise!Bytes
  <2>10. live' = [r \in (DOMAIN live \ {p}) \cup {q} |-> IF r = q THEN n ELSE live[r]]
    BY <1>2, <2>5 DEF Less, With
  <2>11. q \in DOMAIN live' \ DOMAIN live /\ live'[q] = n
    BY <2>3, <2>10
  <2>12. Promise!Move(p, q, live'[q])
    BY <2>9, <2>10, <2>11 DEF Promise!Move
  <2>. QED
    BY <2>7, <2>11, <2>12 DEF HeapInv, Promise!Next
<1>. QED
  BY <1>1, <1>2 DEF Increase

\* Each call keeps the invariant and the promise, and so does one that crashes.
LEMMA HeapStep ==
  ASSUME HeapInv, [HeapNext]_heapVars
  PROVE  HeapInv' /\ [Promise!Next]_live
<1>1. ASSUME NEW n \in Sizes, Malloc(n)
      PROVE  HeapInv' /\ [Promise!Next]_live
  BY <1>1, MallocStep
<1>2. ASSUME NEW k \in Counts, NEW n \in Sizes, Calloc(k, n)
      PROVE  HeapInv' /\ [Promise!Next]_live
  <2>1. k \in Nat \ {0} /\ n \in Nat \ {0}
    OBVIOUS
  <2>2. k * n \in Nat \ {0}
    BY <2>1
  <2>. QED
    BY <1>2, <2>2, MallocStep DEF Calloc
<1>3. ASSUME NEW p \in DOMAIN live, Free(p)
      PROVE  HeapInv' /\ [Promise!Next]_live
  BY <1>3, FreeStep
<1>4. ASSUME NEW p \in DOMAIN live, NEW n \in Sizes, Realloc(p, n)
      PROVE  HeapInv' /\ [Promise!Next]_live
  <2>1. n \in Nat \ {0}
    OBVIOUS
  <2>. QED
    BY <1>4, <2>1, ReduceStep, IncreaseStep DEF Realloc
<1>5. CASE UNCHANGED heapVars
  BY <1>5 DEF heapVars, HeapInv
<1>. QED
  BY <1>1, <1>2, <1>3, <1>4, <1>5 DEF HeapNext

\* Every call leaves blocks that lie side by side, marks and a list that fit
\* them, and gives out the blocks in use and no other.
THEOREM HeapIsSound == HeapSpec => []HeapInv
<1>. QED
  BY HeapInvInit, HeapStep, PTL DEF HeapSpec

\* The invariant says all that HeapExact does.
LEMMA SoundIsExact == HeapInv => HeapExact
<1>. SUFFICES ASSUME HeapInv  PROVE HeapExact
  OBVIOUS
<1>. DEFINE h == heap
            free == { a \in Blocks(h) : IsFree(h, a) }
<1>1. Sound(h) /\ Given(h, live) /\ IsHeap(h) /\ Tiled(h)
  BY DEF HeapInv, Sound
<1>. HIDE DEF h
<1>2. { After(h, a) : a \in Blocks(h) } \cup {Start} = Blocks(h) \cup {Brk(h)}
  <2>1. \A a \in Blocks(h) : After(h, a) \in Blocks(h) \cup {Brk(h)}
    BY <1>1 DEF Tiled
  <2>2. Start \in Blocks(h) \cup {Brk(h)}
    BY <1>1 DEF Tiled
  <2>3. \A b \in Blocks(h) \cup {Brk(h)} : b = Start \/ \E a \in Blocks(h) : After(h, a) = b
    BY <1>1 DEF Tiled
  <2>4. { After(h, a) : a \in Blocks(h) } \cup {Start} \subseteq Blocks(h) \cup {Brk(h)}
    BY ONLY <2>1, <2>2
  <2>5. Blocks(h) \cup {Brk(h)} \subseteq { After(h, a) : a \in Blocks(h) } \cup {Start}
    BY ONLY <2>3
  <2>. QED
    BY ONLY <2>4, <2>5
<1>3. /\ Marks(h) = { MarkOf(h, a) : a \in Blocks(h) }
      /\ \A a \in Blocks(h) : MarkAt(h, MarkOf(h, a)) = SizeOf(h, a)
  BY <1>1 DEF Sound, Marked
<1>4. ToSet(ListOf(h)) = free /\ IsInjective(ListOf(h))
  BY <1>1 DEF Sound, Listed
<1>5. { Payload(a) : a \in Blocks(h) \ free } = DOMAIN live
  BY <1>1 DEF Given, Used
<1>6. \A a \in Blocks(h) : SizeOf(h, a) > 0
  BY <1>1 DEF IsHeap
<1>7. \A p \in DOMAIN live : SizeOf(h, p - STRUCT_SIZE) >= live[p]
  <2>. SUFFICES ASSUME NEW p \in DOMAIN live  PROVE SizeOf(h, p - STRUCT_SIZE) >= live[p]
    OBVIOUS
  <2>1. p - STRUCT_SIZE \in Used(h) /\ live[p] \in Nat /\ live[p] <= SizeOf(h, p - STRUCT_SIZE)
    BY <1>1, GivenIs
  <2>2. SizeOf(h, p - STRUCT_SIZE) \in Nat
    BY <1>1, <2>1, SizeIs DEF Used
  <2>. QED
    BY <2>1, <2>2
<1>. QED
  BY <1>2, <1>3, <1>4, <1>5, <1>6, <1>7
  DEF HeapExact, h, Blocks, IsFree, Marks, MarkAt, ListOf, Brk

\* The bookkeeping of malloc, calloc, realloc and free stays exact through any
\* sequence of calls, for all sizes of headers, marks and requests.
THEOREM BookkeepingExact == HeapSpec => []HeapExact
<1>. QED
  BY HeapIsSound, SoundIsExact, PTL

\* No two blocks that are given out overlap: the heap is an allocator.
THEOREM HeapIsAllocator == HeapSpec => AllocatorSpec
<1>1. HeapInit => Promise!Init
  BY DEF HeapInit, Promise!Init
<1>2. HeapInv /\ [HeapNext]_heapVars => [Promise!Next]_live
  BY HeapStep
<1>. QED
  BY <1>1, <1>2, HeapIsSound, PTL DEF HeapSpec, AllocatorSpec, Promise!Spec
=============================================================================
