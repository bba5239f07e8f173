------------------------------- MODULE Semamore -------------------------------
(***************************************************************************)
(* critical_concurrency/semamore.c: a counting semaphore with an upper     *)
(* bound.  Its tests are equalities (value == 0, value == max_val), so it  *)
(* stays in range only because every thread tests again under the mutex    *)
(* each time pthread_cond_wait returns.                                    *)
(***************************************************************************)
EXTENDS Monitor, Integers

CONSTANTS Semaphores,   \* the pairs <<value, max_val>> given to semm_init
          SemmWorkloads \* how many calls of each kind each thread makes

ASSUME SemaphoresAssumption ==
          \A s \in Semaphores : /\ s \in Nat \X Nat
                                /\ s[1] <= s[2]
ASSUME SemmWorkloadAssumption ==
          SemmWorkloads \subseteq [Thread -> [wait : Nat, post : Nat]]

VARIABLES value, max_val,   \* the struct Semamore
          op,               \* per thread: the call it is in, "wait" or "post"
          requests          \* per thread: calls left to make

sem         == <<value, max_val>>
semmCallers == <<op, requests>>
semmVars    == <<sem, monitor, semmCallers, pc>>

Op == {"wait", "post"}

SemmInit == /\ MonitorInit
            /\ \E s \in Semaphores : value = s[1] /\ max_val = s[2]
            /\ op = [t \in Thread |-> "wait"]
            /\ requests \in SemmWorkloads
            /\ pc = [t \in Thread |-> "idle"]

\* The while condition of semm_wait and of semm_post.
Blocked(t) == IF op[t] = "wait" THEN value = 0 ELSE value = max_val

SemmCall(t) == /\ Goto(t, "idle", "call")
               /\ \E o \in Op : /\ requests[t][o] > 0
                                /\ op' = [op EXCEPT ![t] = o]
                                /\ requests' = [requests EXCEPT ![t][o] = @ - 1]
               /\ UNCHANGED <<sem, monitor>>

SemmEnter(t) == /\ Goto(t, "call", "test")
                /\ Lock(t)
                /\ UNCHANGED <<sem, asleep, semmCallers>>

Waits(t) == /\ Goto(t, "test", "sleep")
            /\ Blocked(t)
            /\ CondWait(t)
            /\ UNCHANGED <<sem, semmCallers>>

\* Fault: an if instead of a while, so a woken thread does not look again.
ResumesUnchecked(t) == /\ Goto(t, "sleep", "change")
                       /\ CondReturn(t)
                       /\ UNCHANGED <<sem, asleep, semmCallers>>

SemmResumes(t) == /\ Goto(t, "sleep", "test")
                  /\ CondReturn(t)
                  /\ UNCHANGED <<sem, asleep, semmCallers>>

GoesOn(t) == /\ Goto(t, "test", "change")
             /\ ~Blocked(t)
             /\ UNCHANGED <<sem, monitor, semmCallers>>

\* Fault: the semaphore changes and nobody is told.
ChangeQuietly(t) == /\ Goto(t, "change", "unlock")
                    /\ value' = IF op[t] = "wait" THEN value - 1 ELSE value + 1
                    /\ UNCHANGED <<max_val, monitor, semmCallers>>

\* Fault: pthread_cond_signal, which may wake a thread of the wrong kind.
ChangeSignals(t) == /\ Goto(t, "change", "unlock")
                    /\ value' = IF op[t] = "wait" THEN value - 1 ELSE value + 1
                    /\ \/ asleep = {} /\ UNCHANGED asleep
                       \/ \E u \in asleep : asleep' = asleep \ {u}
                    /\ UNCHANGED <<max_val, owner, semmCallers>>

\* value-- or value++, then pthread_cond_broadcast.
Change(t) == /\ Goto(t, "change", "unlock")
             /\ value' = IF op[t] = "wait" THEN value - 1 ELSE value + 1
             /\ Broadcast
             /\ UNCHANGED <<max_val, owner, semmCallers>>

SemmLeave(t) == /\ Goto(t, "unlock", "idle")
                /\ Unlock(t)
                /\ UNCHANGED <<sem, asleep, semmCallers>>

SemmWake(t) == SpuriousWake(t) /\ UNCHANGED <<sem, owner, semmCallers, pc>>

SemmStep(t) == \/ SemmCall(t) \/ SemmEnter(t) \/ Waits(t) \/ SemmResumes(t)
               \/ GoesOn(t) \/ Change(t) \/ SemmLeave(t)

SemmNext == \E t \in Thread : SemmStep(t) \/ SemmWake(t)

SemmSpec == SemmInit /\ [][SemmNext]_semmVars

SemmFairSpec == SemmSpec /\ \A t \in Thread : WF_semmVars(SemmStep(t))

-----------------------------------------------------------------------------
SemmPC == {"idle", "call", "test", "sleep", "change", "unlock"}

\* Types of the struct, the monitor and the callers' state.
SemmTypeOK == /\ MonitorTypeOK
              /\ value \in Int /\ max_val \in Nat
              /\ op \in [Thread -> Op]
              /\ requests \in [Thread -> [wait : Nat, post : Nat]]
              /\ pc \in [Thread -> SemmPC]

\* A thread asleep on the one condition variable that waits and posts share
\* is blocked in fact, so while max_val > 0 a waiter and a poster never sleep
\* at the same time, each waiting for the other.
OneKindAsleep ==
  /\ \A t \in asleep : Blocked(t)
  /\ max_val > 0 => \A t, u \in asleep : op[t] = op[u]

\* The counter never leaves 0..max_val, although semm_wait and semm_post stop
\* only at the exact limits.
InRange == value \in 0..max_val

SemmAllDone == \A t \in Thread : /\ pc[t] = "idle"
                                 /\ requests[t].wait = 0 /\ requests[t].post = 0

\* Provided that spurious wake-ups stop, a workload that leaves room for every
\* call in some order is completed in every order.
SemmServed == (<>[][\A t \in Thread : ~SemmWake(t)]_semmVars) => <>SemmAllDone

Counter == INSTANCE CountingSemaphore

\* The calls implement an atomic bounded counter: no two waits take the same
\* unit, and no post is lost.
CounterSpec == Counter!Spec
=============================================================================
