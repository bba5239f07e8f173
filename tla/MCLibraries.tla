------------------------------ MODULE MCLibraries ------------------------------
(* The systems that one caller drives, and the shell, side by side: in      *)
(* every behaviour one of them runs, and the others stay where they start.  *)
EXTENDS MCMmu, Heap, Minixfs, MCScheduler, MCShell

VARIABLE system

\* The systems that do not run all start in one way.
Init == /\ system \in {"mmu", "heap", "minixfs", "scheduler", "shell"}
        /\ MmuInit /\ HeapInit /\ MinixfsInit /\ SchedulerInit /\ ShellInit
        /\ system # "mmu" => curr_pid = p1
        /\ system # "scheduler" => /\ pqueue_scheme = "FCFS"
                                   /\ workload = CHOOSE w \in Workloads : TRUE
        /\ system # "shell" => ~saves /\ ~leads /\ file = <<>>

allVars == <<mmuVars, heapVars, minixfsVars, schedulerVars, shellVars, system>>

Mmu(step) == system = "mmu" /\ step
             /\ UNCHANGED <<heapVars, minixfsVars, schedulerVars, shellVars, system>>

Heap(step) == system = "heap" /\ step
              /\ UNCHANGED <<mmuVars, minixfsVars, schedulerVars, shellVars, system>>

Minixfs(step) == system = "minixfs" /\ step
                 /\ UNCHANGED <<mmuVars, heapVars, schedulerVars, shellVars, system>>

Scheduler(step) == system = "scheduler" /\ step
                   /\ UNCHANGED <<mmuVars, heapVars, minixfsVars, shellVars, system>>

Shell(step) == system = "shell" /\ step
               /\ UNCHANGED <<mmuVars, heapVars, minixfsVars, schedulerVars, system>>

\* A program on the heap that has crashed, a disk that has been written to as
\* often as it may, a schedule that is complete and a shell that has ended are
\* the only places to stop.
Over == /\ CASE system = "heap"      -> crashed
             [] system = "minixfs"   -> writes = MaxWrites
             [] system = "scheduler" -> finished = Job
             [] system = "shell"     -> ~Up
             [] OTHER                -> FALSE
        /\ UNCHANGED allVars

Next == \/ Mmu(MmuNext) \/ Heap(HeapNext) \/ Minixfs(MinixfsNext)
        \/ Scheduler(SchedulerNext) \/ Shell(ShellNext)
        \/ Over

Spec == Init /\ [][Next]_allVars
=============================================================================
