---------------------------- MODULE MCScheduler ----------------------------
(* Three jobs: one is there from the start, the others arrive at the same   *)
(* time or later, also while nothing runs.                                  *)
EXTENDS Scheduler

Jobs(arrivals, times) ==
  [arrival : arrivals, running_time : times, priority : 1..2]

MCWorkloads == { w \in Jobs({0}, 2..3) \X Jobs(0..2, 1..2) \X Jobs(0..2, 1..2) :
                   w[2].arrival <= w[3].arrival }
=============================================================================
