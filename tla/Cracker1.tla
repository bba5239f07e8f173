------------------------------- MODULE Cracker1 -------------------------------
(***************************************************************************)
(* password_cracker/cracker1.c: the main thread queues every line of its   *)
(* input, then workers take lines until queue_size says that none is left. *)
(* They pull while they hold mut, so a pull that blocks would block all.   *)
(*                                                                         *)
(* The queue is what queue.c promises (BoundedFifo, which Queue refines).  *)
(* A line is its number in the input; whether a candidate hashes to its    *)
(* password is part of the input.                                          *)
(***************************************************************************)
EXTENDS Integers, Sequences, FiniteSetsExt

CONSTANTS Worker, MainThread, Inputs, None

ASSUME Cracker1Assumption == /\ IsFiniteSet(Worker) /\ Worker # {}
                             /\ MainThread \notin Worker
                             /\ Inputs \subseteq Seq(BOOLEAN)
                             /\ None \notin Nat

VARIABLES input,          \* stdin: per line, whether it can be cracked
          linesRead,
          queue_size, success_count, fail_count,
          mut,            \* its holder, or None
          place,          \* per worker: where in do_funct it is
          starting,       \* where in start the main thread is
          fifo, command, closed, max_size   \* new_q; what was pulled from it

counts       == <<queue_size, success_count, fail_count>>
queue        == <<fifo, command, closed, max_size>>
cracker1Vars == <<input, linesRead, counts, mut, place, starting, queue>>

NewQ == INSTANCE BoundedFifo WITH Thread <- Worker \cup {MainThread},
          Value <- Nat, NULL <- None, MaxSizes <- {-1}, item <- command

Cracker1Init == /\ input \in Inputs /\ linesRead = 0
                /\ queue_size = 0 /\ success_count = 0 /\ fail_count = 0
                /\ mut = None
                /\ place = [w \in Worker |-> "none"]
                /\ starting = "getline"
                /\ NewQ!Init

GoTo(w, from, to) == place[w] = from /\ place' = [place EXCEPT ![w] = to]

-----------------------------------------------------------------------------
\* One round of start's first loop; nobody else is running yet, and a queue of
\* size -1 has always room.
PushLine == /\ starting = "getline" /\ linesRead < Len(input)
            /\ linesRead' = linesRead + 1
            /\ fifo' = Append(fifo, linesRead + 1)
            /\ queue_size' = queue_size + 1
            /\ UNCHANGED <<input, success_count, fail_count, mut, place,
                           starting, command, closed, max_size>>

CreateThreads == /\ starting = "getline" /\ linesRead = Len(input)
                 /\ starting' = "join"
                 /\ place' = [w \in Worker |-> "while"]
                 /\ UNCHANGED <<input, linesRead, counts, mut, queue>>

\* pthread_join of every worker, the summary, and queue_destroy.
Destroy == /\ starting = "join" /\ \A w \in Worker : place[w] = "done"
           /\ starting' = "end"
           /\ NewQ!Discard /\ UNCHANGED max_size
           /\ UNCHANGED <<input, linesRead, counts, mut, place>>

\* Fault: queue_size is not counted down.
TakeKeepsCount(w) == /\ GoTo(w, "while", "pull")
                     /\ mut = None /\ mut' = w
                     /\ queue_size # 0
                     /\ UNCHANGED <<input, linesRead, starting, counts, queue>>

\* With mut taken: the loop's test succeeds, and the queue's line is claimed.
Take(w) == /\ GoTo(w, "while", "pull")
           /\ mut = None /\ mut' = w
           /\ queue_size # 0
           /\ queue_size' = queue_size - 1
           /\ UNCHANGED <<input, linesRead, starting, success_count, fail_count,
                          queue>>

NothingLeft(w) == /\ GoTo(w, "while", "done")
                  /\ mut = None
                  /\ queue_size = 0
                  /\ UNCHANGED <<input, linesRead, starting, counts, mut, queue>>

\* queue_pull returns, and mut is released; pulled lines are never NULL.
Pull(w) == /\ GoTo(w, "pull", "crack")
           /\ NewQ!Get(w) /\ UNCHANGED max_size
           /\ mut' = None
           /\ UNCHANGED <<input, linesRead, starting, counts>>

Drop(w) == /\ command' = [command EXCEPT ![w] = None]
           /\ UNCHANGED <<fifo, closed, max_size>>

\* The search is over: one of the counters goes up under mut, and the line is
\* freed.
Count(w) == /\ GoTo(w, "crack", "while")
            /\ mut = None
            /\ IF input[command[w]]
               THEN success_count' = success_count + 1 /\ UNCHANGED fail_count
               ELSE fail_count' = fail_count + 1 /\ UNCHANGED success_count
            /\ Drop(w)
            /\ UNCHANGED <<input, linesRead, starting, queue_size, mut>>

Cracker1Main    == PushLine \/ CreateThreads \/ Destroy
Cracker1Work(w) == Take(w) \/ NothingLeft(w) \/ Pull(w) \/ Count(w)

Cracker1Next == Cracker1Main \/ \E w \in Worker : Cracker1Work(w)

Cracker1Spec == Cracker1Init /\ [][Cracker1Next]_cracker1Vars

Cracker1Fairness == /\ WF_cracker1Vars(Cracker1Main)
                    /\ \A w \in Worker : WF_cracker1Vars(Cracker1Work(w))

-----------------------------------------------------------------------------
\* The program ends with every line counted as what it is, however the workers
\* take turns at mut, and also with more workers than lines: nobody is left in a
\* pull that blocks everyone.
AllCounted ==
  LET cracked == { i \in DOMAIN input : input[i] } IN
  (starting = "getline") ~>
    (/\ starting = "end"
     /\ success_count = Cardinality(cracked)
     /\ fail_count = Len(input) - Cardinality(cracked))
=============================================================================
