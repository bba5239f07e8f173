------------------------------- MODULE Barrier -------------------------------
(***************************************************************************)
(* critical_concurrency/barrier.c: a reusable barrier.  barrier_wait calls *)
(* pthread_cond_wait under an if, not under a while, so what it promises   *)
(* depends on whether the system ever wakes a waiter spuriously; the       *)
(* history variable `disturbed' remembers whether it did.                  *)
(***************************************************************************)
EXTENDS Monitor, Integers, FiniteSets

CONSTANT Rounds     \* bound: how often each thread calls barrier_wait

ASSUME ThreadAssumption == IsFiniteSet(Thread) /\ Thread # {}
ASSUME RoundsAssumption == Rounds \in Nat

VARIABLES count, times_used,   \* the struct barrier_t
          arrivals,            \* history: calls of barrier_wait, per thread
          passes,              \* history: returns from barrier_wait, per thread
          disturbed            \* history: some waiter woke without a broadcast

barrier        == <<count, times_used>>
barrierHistory == <<arrivals, passes, disturbed>>
barrierVars    == <<barrier, monitor, barrierHistory, pc>>

\* barrier_init is given the number of threads that will use the barrier.
n_threads == Cardinality(Thread)

BarrierInit == /\ MonitorInit
               /\ count = 0 /\ times_used = 0
               /\ arrivals = [t \in Thread |-> 0]
               /\ passes = [t \in Thread |-> 0]
               /\ disturbed = FALSE
               /\ pc = [t \in Thread |-> "idle"]

BarrierCall(t) == /\ Goto(t, "idle", "call")
                  /\ arrivals[t] < Rounds
                  /\ UNCHANGED <<barrier, monitor, barrierHistory>>

BarrierEnter(t) == /\ Goto(t, "call", "arrive")
                   /\ Lock(t)
                   /\ UNCHANGED <<barrier, asleep, barrierHistory>>

\* count++, and the thread waits for the others.
ArriveEarly(t) == /\ Goto(t, "arrive", "sleep")
                  /\ count + 1 < n_threads
                  /\ count' = count + 1
                  /\ CondWait(t)
                  /\ arrivals' = [arrivals EXCEPT ![t] = @ + 1]
                  /\ UNCHANGED <<times_used, passes, disturbed>>

\* Fault: the last thread to arrive does not restart the count.
ArriveLastKeepsCount(t) == /\ Goto(t, "arrive", "unlock")
                           /\ count + 1 >= n_threads
                           /\ count' = count + 1
                           /\ times_used' = times_used + 1
                           /\ Broadcast
                           /\ arrivals' = [arrivals EXCEPT ![t] = @ + 1]
                           /\ UNCHANGED <<owner, passes, disturbed>>

\* Fault: pthread_cond_signal releases one waiter only.
ArriveLastSignals(t) == /\ Goto(t, "arrive", "unlock")
                        /\ count + 1 >= n_threads
                        /\ count' = 0
                        /\ times_used' = times_used + 1
                        /\ \/ asleep = {} /\ UNCHANGED asleep
                           \/ \E u \in asleep : asleep' = asleep \ {u}
                        /\ arrivals' = [arrivals EXCEPT ![t] = @ + 1]
                        /\ UNCHANGED <<owner, passes, disturbed>>

\* count++ completes the round: the count restarts and everyone is released.
ArriveLast(t) == /\ Goto(t, "arrive", "unlock")
                 /\ count + 1 >= n_threads
                 /\ count' = 0
                 /\ times_used' = times_used + 1
                 /\ Broadcast
                 /\ arrivals' = [arrivals EXCEPT ![t] = @ + 1]
                 /\ UNCHANGED <<owner, passes, disturbed>>

\* pthread_cond_wait returns and nothing is tested again.
BarrierResume(t) == /\ Goto(t, "sleep", "unlock")
                    /\ CondReturn(t)
                    /\ UNCHANGED <<barrier, asleep, barrierHistory>>

BarrierLeave(t) == /\ Goto(t, "unlock", "idle")
                   /\ Unlock(t)
                   /\ passes' = [passes EXCEPT ![t] = @ + 1]
                   /\ UNCHANGED <<barrier, asleep, arrivals, disturbed>>

BarrierWake(t) == /\ SpuriousWake(t)
                  /\ disturbed' = TRUE
                  /\ UNCHANGED <<barrier, owner, arrivals, passes, pc>>

BarrierStep(t) == \/ BarrierCall(t) \/ BarrierEnter(t) \/ ArriveEarly(t) \/ ArriveLast(t)
                  \/ BarrierResume(t) \/ BarrierLeave(t)

BarrierNext == \E t \in Thread : BarrierStep(t) \/ BarrierWake(t)

BarrierSpec == BarrierInit /\ [][BarrierNext]_barrierVars

BarrierFairSpec == BarrierSpec /\ \A t \in Thread : WF_barrierVars(BarrierStep(t))

-----------------------------------------------------------------------------
BarrierPC == {"idle", "call", "arrive", "sleep", "unlock"}

\* Types of the struct, the monitor and the history.
BarrierTypeOK == /\ MonitorTypeOK
                 /\ count \in Nat /\ times_used \in Nat
                 /\ arrivals \in [Thread -> Nat] /\ passes \in [Thread -> Nat]
                 /\ disturbed \in BOOLEAN
                 /\ pc \in [Thread -> BarrierPC]

\* No thread is past its k-th barrier before every thread has reached its
\* k-th barrier.
Together == \A t, u \in Thread : passes[t] <= arrivals[u]

\* barrier_wait keeps that promise as long as pthread_cond_wait returns only
\* after a broadcast, also while slow threads of one round still retake the
\* mutex and fast ones already call barrier_wait again.
TogetherUndisturbed == disturbed \/ Together

\* times_used is the number of rounds that have been completed, and what
\* every thread that returned from barrier_wait has seen completed.
RoundsCounted == disturbed \/ \A t \in Thread : /\ passes[t] <= times_used
                                                /\ times_used <= arrivals[t]

BarrierAllDone == \A t \in Thread : pc[t] = "idle" /\ passes[t] = Rounds

\* Undisturbed, nobody is left behind at a barrier that the others have passed.
NobodyLeftBehind == []~disturbed => <>BarrierAllDone
=============================================================================
