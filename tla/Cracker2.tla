------------------------------- MODULE Cracker2 -------------------------------
(***************************************************************************)
(* password_cracker/cracker2.c: all threads search one password together.  *)
(* The main thread and the workers take turns through two pthread          *)
(* barriers; between them the workers share range_count and                *)
(* decrypted_password without any lock, so each access to one of these two *)
(* is an action of its own.                                                *)
(*                                                                         *)
(* A candidate is the position of its string in the search space of its    *)
(* line.  The mutex of the program only encloses calls of the printer and  *)
(* is left out.                                                            *)
(***************************************************************************)
EXTENDS Integers, Sequences, FiniteSetsExt

CONSTANTS Threads,   \* thread_count
          Tasks,     \* the lines it may read: [space : size, secret : position]
          MaxLines   \* bound: lines on standard input

ASSUME ThreadsAssumption == Threads \in Nat \ {0}
ASSUME MaxLinesAssumption == MaxLines \in Nat
ASSUME TasksAssumption == Tasks \subseteq [space : Nat \ {0}, secret : Int]

Searcher == 1..Threads
Main   == 0
Party  == Searcher \cup {Main}    \* what both barriers count

VARIABLES lines,                 \* lines still to be read
          task,                  \* userName, password and knownpass
          task_pending,
          decrypted_password,    \* NULL, Freed, or a candidate
          range_count,
          overall_hash_count,
          at_start, at_end,      \* who is blocked at each barrier
          candidate, i, thread_status, computed_hashes,   \* per worker
          pc

NULL  == -1
Freed == -2

shared   == <<task, task_pending, decrypted_password, range_count>>
barriers == <<at_start, at_end>>
search   == <<candidate, i, thread_status, computed_hashes>>
totals   == <<lines, overall_hash_count>>
cracker2Vars     == <<shared, barriers, search, totals, pc>>

Cracker2Init == /\ lines \in UNION {[1..n -> Tasks] : n \in 0..MaxLines}
                /\ task = [space |-> 1, secret |-> NULL]
                /\ task_pending = 0
                /\ decrypted_password = NULL
                /\ range_count = 0
                /\ overall_hash_count = 0
                /\ at_start = {} /\ at_end = {}
                /\ candidate = [w \in Searcher |-> 0] /\ i = [w \in Searcher |-> 0]
                /\ thread_status = [w \in Searcher |-> 2]
                /\ computed_hashes = [w \in Searcher |-> 0]
                /\ pc = [p \in Party |-> IF p = Main THEN "getline" ELSE "start"]

PassTo(p, from, to) == pc[p] = from /\ pc' = [pc EXCEPT ![p] = to]

\* Fault: the barriers are initialised for the workers alone.
GatherWorkers(blocked, p) ==
  IF Cardinality(blocked \cup {p}) = Threads THEN {} ELSE blocked \cup {p}

\* Whoever completes the party releases it.
Gather(blocked, p) == IF blocked \cup {p} = Party THEN {} ELSE blocked \cup {p}

\* getSubrange: equal shares, rounded up; the last ones get what is left.
Share(space)      == (space + Threads - 1) \div Threads
StartOf(w, space) == Min({Share(space) * (w - 1), space})
CountOf(w, space) == Min({Share(space), space - StartOf(w, space)})

-----------------------------------------------------------------------------
\* Both barriers are the pthread library's: a party blocks in one until all
\* are there, and goes on some time later.
ArriveStart(p) == /\ PassTo(p, "start", "start_wait")
                  /\ at_start' = Gather(at_start, p)
                  /\ UNCHANGED <<at_end, shared, search, totals>>

ArriveEnd(p) == /\ PassTo(p, "end", "end_wait")
                /\ at_end' = Gather(at_end, p)
                /\ UNCHANGED <<at_start, shared, search, totals>>

-----------------------------------------------------------------------------
Begin(w) == /\ PassTo(w, "start_wait", IF task_pending = 0 THEN "exit" ELSE "reset")
            /\ w \notin at_start
            /\ UNCHANGED <<shared, barriers, search, totals>>

\* The first half of generate_initial_password: range_count = 0.
ResetRange(w) == /\ PassTo(w, "reset", "subrange")
                 /\ range_count' = 0
                 /\ UNCHANGED <<task, task_pending, decrypted_password,
                                barriers, search, totals>>

\* The second half: getSubrange stores the length of this worker's share.
SetRange(w) == /\ PassTo(w, "subrange", "while")
               /\ range_count' = CountOf(w, task.space)
               /\ candidate' = [candidate EXCEPT ![w] = StartOf(w, task.space) % task.space]
               /\ i' = [i EXCEPT ![w] = 0]
               /\ thread_status' = [thread_status EXCEPT ![w] = 2]
               /\ UNCHANGED <<task, task_pending, decrypted_password,
                              computed_hashes, barriers, totals>>

While(w) == /\ PassTo(w, "while", IF i[w] < range_count THEN "look" ELSE "result")
            /\ UNCHANGED <<shared, barriers, search, totals>>

\* Another worker may have been faster.
StopEarly(w) == /\ PassTo(w, "look", "result")
                /\ decrypted_password # NULL
                /\ thread_status' = [thread_status EXCEPT ![w] = 1]
                /\ UNCHANGED <<candidate, i, computed_hashes, shared, barriers,
                               totals>>

LookOn(w) == /\ PassTo(w, "look", "try")
             /\ decrypted_password = NULL
             /\ UNCHANGED <<shared, barriers, search, totals>>

Hit(w) == /\ PassTo(w, "try", "result")
          /\ candidate[w] = task.secret
          /\ decrypted_password' = candidate[w]
          /\ thread_status' = [thread_status EXCEPT ![w] = 0]
          /\ UNCHANGED <<task, task_pending, range_count, candidate, i,
                         computed_hashes, barriers, totals>>

\* incrementString wraps around at the end of the space.
Miss(w) == /\ PassTo(w, "try", "while")
           /\ candidate[w] # task.secret
           /\ candidate' = [candidate EXCEPT ![w] = (@ + 1) % task.space]
           /\ computed_hashes' = [computed_hashes EXCEPT ![w] = @ + 1]
           /\ i' = [i EXCEPT ![w] = @ + 1]
           /\ UNCHANGED <<thread_status, shared, barriers, totals>>

Result(w) == /\ PassTo(w, "result", "end")
             /\ UNCHANGED <<shared, barriers, search, totals>>

Again(w) == /\ PassTo(w, "end_wait", "start")
            /\ w \notin at_end
            /\ UNCHANGED <<shared, barriers, search, totals>>

WorkerStep(w) == \/ ArriveStart(w) \/ ArriveEnd(w) \/ Begin(w)
                 \/ ResetRange(w) \/ SetRange(w) \/ While(w) \/ StopEarly(w)
                 \/ LookOn(w) \/ Hit(w) \/ Miss(w) \/ Result(w) \/ Again(w)

-----------------------------------------------------------------------------
\* Fault: the password found for the last line is not cleared.
GetLineKeepsPassword == /\ lines # <<>>
                        /\ PassTo(Main, "getline", "start")
                        /\ task' = Head(lines) /\ lines' = Tail(lines)
                        /\ task_pending' = 1
                        /\ UNCHANGED <<decrypted_password, range_count,
                                       overall_hash_count, barriers, search>>

\* A line is read and parsed, and decrypted_password cleared.
GetLine == /\ lines # <<>>
           /\ PassTo(Main, "getline", "start")
           /\ task' = Head(lines) /\ lines' = Tail(lines)
           /\ task_pending' = 1
           /\ decrypted_password' = NULL
           /\ UNCHANGED <<range_count, overall_hash_count, barriers, search>>

\* Fault: the main thread joins the workers and does not release them.
EndOfInputJoins == /\ lines = <<>>
                   /\ PassTo(Main, "getline", "join")
                   /\ task_pending' = 0
                   /\ UNCHANGED <<task, decrypted_password, range_count, barriers,
                                  search, totals>>

EndOfInput == /\ lines = <<>>
              /\ PassTo(Main, "getline", "start")
              /\ task_pending' = 0
              /\ UNCHANGED <<task, decrypted_password, range_count, barriers,
                             search, totals>>

MainGoesOn == /\ PassTo(Main, "start_wait", IF task_pending = 0 THEN "join" ELSE "end")
              /\ Main \notin at_start
              /\ UNCHANGED <<shared, barriers, search, totals>>

\* The sum over thread_data_array, v2_print_summary, and the free that leaves
\* decrypted_password dangling until the next line.
Summary == /\ PassTo(Main, "end_wait", "getline")
           /\ Main \notin at_end
           /\ overall_hash_count' =
                 overall_hash_count
                 + MapThenSumSet(LAMBDA w : computed_hashes[w], Searcher)
           /\ decrypted_password' = IF decrypted_password = NULL THEN NULL ELSE Freed
           /\ UNCHANGED <<task, task_pending, range_count, lines, barriers, search>>

JoinAll == /\ PassTo(Main, "join", "exit")
           /\ \A w \in Searcher : pc[w] = "exit"
           /\ UNCHANGED <<shared, barriers, search, totals>>

MainStep == \/ ArriveStart(Main) \/ ArriveEnd(Main)
            \/ GetLine \/ EndOfInput \/ MainGoesOn \/ Summary \/ JoinAll

Cracker2Next == MainStep \/ \E w \in Searcher : WorkerStep(w)

Cracker2Spec == Cracker2Init /\ [][Cracker2Next]_cracker2Vars

\* Every thread keeps running.
Cracker2Fairness == /\ WF_cracker2Vars(MainStep)
                    /\ \A w \in Searcher : WF_cracker2Vars(WorkerStep(w))

-----------------------------------------------------------------------------
Searching == {"reset", "subrange", "while", "look", "try", "result"}

\* Types of the shared variables and of each thread's own.
Cracker2TypeOK == /\ task \in [space : Nat \ {0}, secret : Int]
                  /\ task_pending \in {0, 1}
                  /\ decrypted_password \in Nat \cup {NULL, Freed}
                  /\ range_count \in Nat /\ overall_hash_count \in Nat
                  /\ at_start \subseteq Party /\ at_end \subseteq Party
                  /\ candidate \in [Searcher -> Nat] /\ i \in [Searcher -> Nat]
                  /\ thread_status \in [Searcher -> 0..2]
                  /\ computed_hashes \in [Searcher -> Nat]

\* The two barriers keep the main thread and the workers out of each other's
\* way: no worker searches while the main thread reads a line, sums up the
\* hash counts or frees the password, and no worker reads the freed one.
TurnsTaken == (\E w \in Searcher : pc[w] \in Searching) =>
                 /\ pc[Main] \in {"start_wait", "end", "end_wait"}
                 /\ Main \notin at_start
                 /\ pc[Main] = "end_wait" => Main \in at_end
                 /\ decrypted_password # Freed

\* Workers of one line finish at different times, and decrypted_password is
\* one variable for all lines; still, when the summary reads it, it is the
\* password of this very line or NULL, and it is NULL exactly when every
\* worker has reported that it searched without success.
StatusesAgree ==
  pc[Main] = "end_wait" /\ Main \notin at_end =>
     /\ decrypted_password \in {NULL, task.secret}
     /\ decrypted_password = NULL <=> \A w \in Searcher : thread_status[w] = 2

\* Every run ends with all threads joined, whatever the input.
AllJoined == <>(pc[Main] = "exit" /\ lines = <<>>)

\* The comment on thread status 2: "the thread has finished searching in the
\* range it was given and failed to find the password".
RangeFinished == \A w \in Searcher : pc[w] = "result" /\ thread_status[w] = 2 =>
                                      i[w] >= CountOf(w, task.space)
=============================================================================
