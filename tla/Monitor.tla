------------------------------- MODULE Monitor -------------------------------
(***************************************************************************)
(* One POSIX mutex and one condition variable, as the assignments use      *)
(* them: pthread_mutex_lock, pthread_mutex_unlock, pthread_cond_wait,      *)
(* pthread_cond_broadcast.  The pthread library is not part of the         *)
(* repository: this is what its callers rely on.                           *)
(*                                                                         *)
(* A thread that waits releases the mutex and joins `asleep' in one step;  *)
(* waking removes it from `asleep', and it then has to win the mutex back  *)
(* before pthread_cond_wait returns.                                       *)
(***************************************************************************)
CONSTANTS Thread,     \* the threads that share the monitor
          NoThread    \* owner of a free mutex

ASSUME NoThreadAssumption == NoThread \notin Thread

VARIABLES owner,      \* the thread that holds the mutex, or NoThread
          asleep,     \* the threads parked on the condition variable
          pc          \* per thread: where in the callers' code it is

monitor == <<owner, asleep>>

Goto(t, from, to) == pc[t] = from /\ pc' = [pc EXCEPT ![t] = to]

MonitorInit == owner = NoThread /\ asleep = {}

Lock(t)      == owner = NoThread /\ owner' = t
Unlock(t)    == owner = t /\ owner' = NoThread
CondWait(t)  == Unlock(t) /\ asleep' = asleep \cup {t}
Broadcast    == asleep' = {}

\* pthread_cond_wait returns: the thread has been woken and retakes the mutex.
CondReturn(t) == t \notin asleep /\ Lock(t)

\* POSIX lets a waiter wake without any broadcast.
SpuriousWake(t) == t \in asleep /\ asleep' = asleep \ {t}

MonitorTypeOK == owner \in Thread \cup {NoThread} /\ asleep \subseteq Thread
=============================================================================
