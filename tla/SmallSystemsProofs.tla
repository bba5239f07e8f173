-------------------------- MODULE SmallSystemsProofs --------------------------
(***************************************************************************)
(* Two small systems with a main thread and one thread per task or guest,  *)
(* for any number of them: password_cracker/cracker2.c and                 *)
(* charming_chatroom/server.c.                                             *)
(***************************************************************************)
EXTENDS Cracker2, ChatRoom, SequenceLemmas

(***************************************************************************)
(* password_cracker/cracker2.c: the turns that the two barriers impose,    *)
(* and what the workers' statuses tell the main thread about the unlocked  *)
(* decrypted_password, for any lines and any secrets.                      *)
(*                                                                         *)
(* The invariant divides every behaviour at the two releases.  Before      *)
(* barrier_start lets go the parties gather; then they search, until       *)
(* barrier_end lets go; after the last line they part.                     *)
(***************************************************************************)

\* The places of a worker's and of the main thread's loop.
WorkerPlace == Searching \cup {"start", "start_wait", "end", "end_wait", "exit"}
MainPlace   == {"getline", "start", "start_wait", "end", "end_wait", "join", "exit"}

\* Types of what the turns and the statuses depend on.
SharesOK == /\ lines \in Seq(Tasks)
            /\ task \in [space : Nat \ {0}, secret : Int]
            /\ task_pending \in {0, 1}
            /\ candidate \in [Searcher -> Nat]
            /\ thread_status \in [Searcher -> 0..2]
            /\ pc \in [Party -> WorkerPlace \cup MainPlace]

\* Between the release of barrier_end and that of barrier_start.
Gathering == /\ at_end = {} /\ at_start # Party
             /\ at_start = {p \in Party : pc[p] = "start_wait"}
             /\ pc[Main] \in {"end_wait", "getline", "start", "start_wait"}
             /\ \A w \in Searcher : pc[w] \in {"end_wait", "start", "start_wait"}

\* Between the release of barrier_start and that of barrier_end, on a line.
OnALine == /\ task_pending = 1
           /\ at_start = {} /\ at_end # Party
           /\ at_end = {p \in Party : pc[p] = "end_wait"}
           /\ pc[Main] \in {"start_wait", "end", "end_wait"}
           /\ \A w \in Searcher : pc[w] \in Searching \cup {"start_wait", "end", "end_wait"}

\* After barrier_start has let everyone go without a line.
Parting == /\ task_pending = 0
           /\ at_start = {} /\ at_end = {}
           /\ pc[Main] \in {"start_wait", "join", "exit"}
           /\ \A w \in Searcher : pc[w] \in {"start_wait", "exit"}

\* The workers that have set thread_status in this line, and those that have
\* given it its last value.
Begun == {w \in Searcher :
            pc[w] \in {"while", "look", "try", "result", "end", "end_wait"}}
Done  == {w \in Searcher : pc[w] \in {"result", "end", "end_wait"}}

\* decrypted_password is free for the line that barrier_start is about to
\* release, and holds this line's password or nothing until barrier_end does.
PasswordOK == /\ Gathering /\ pc[Main] \in {"start", "start_wait"} /\ task_pending = 1
                    => decrypted_password = NULL
              /\ OnALine => decrypted_password \in {NULL} \cup ({task.secret} \cap Nat)

\* During a line a status other than 2 is only set once there is a password,
\* and a password only by a worker that reports it.
ReportsOK == OnALine =>
                /\ \A w \in Begun : thread_status[w] # 2 => decrypted_password # NULL
                /\ decrypted_password # NULL => \E w \in Done : thread_status[w] = 0

\* What the main thread finds when barrier_end releases it.
VerdictOK == Gathering /\ pc[Main] = "end_wait" =>
                /\ decrypted_password \in {NULL} \cup ({task.secret} \cap Nat)
                /\ decrypted_password = NULL
                      <=> \A w \in Searcher : thread_status[w] = 2

TurnsOK == Gathering \/ OnALine \/ Parting

IInv == SharesOK /\ TurnsOK /\ PasswordOK /\ ReportsOK /\ VerdictOK

USE ThreadsAssumption, TasksAssumption

-----------------------------------------------------------------------------
\* A remainder is a place in the search space.
LEMMA ModIsNat == \A a \in Int, b \in Nat \ {0} : a % b \in Nat
  OBVIOUS

\* getSubrange computes a whole number.
LEMMA StartIsInt ==
  ASSUME NEW w \in Searcher, NEW space \in Nat
  PROVE  StartOf(w, space) \in Int
<1> DEFINE a == Share(space) * (w - 1)
<1>1. a \in Int
  BY DEF Share, Searcher
<1>2. \E x \in {a, space} : \A y \in {a, space} : x <= y
  BY <1>1
<1>3. StartOf(w, space) \in {a, space}
  BY <1>2 DEF StartOf, Min
<1> QED
  BY <1>1, <1>3

\* The barriers start empty and everyone before barrier_start.
LEMMA InitOK == Cracker2Init => IInv
<1> SUFFICES ASSUME Cracker2Init PROVE IInv
  OBVIOUS
<1>1. lines \in Seq(Tasks)
  <2>1. PICK n \in 0..MaxLines : lines \in [1..n -> Tasks]
    BY DEF Cracker2Init
  <2>2. n \in Nat
    BY <2>1
  <2> QED
    BY ONLY <2>1, <2>2
<1> USE DEF Cracker2Init, Party, Searcher, Main
<1>2. SharesOK
  BY <1>1 DEF SharesOK, WorkerPlace, MainPlace, Searching, NULL
<1>3. Gathering /\ ~OnALine
  BY DEF Gathering, OnALine
<1>4. pc[Main] = "getline"
  OBVIOUS
<1> QED
  BY <1>2, <1>3, <1>4 DEF IInv, TurnsOK, PasswordOK, ReportsOK, VerdictOK

-----------------------------------------------------------------------------
\* No step on a barrier, a line or a place breaks the types.
LEMMA ArriveStartStep ==
  ASSUME IInv, NEW p \in Party, ArriveStart(p)
  PROVE  IInv'
<1> USE DEF ArriveStart, PassTo, shared, search, totals, NULL, Freed
<1> USE DEF IInv, SharesOK, Party, Searcher, Main
<1>1. Gathering /\ ~OnALine /\ ~Parting
  BY DEF TurnsOK, Gathering, OnALine, Parting, Searching
<1>2. SharesOK'
  BY DEF MainPlace
<1>3. CASE at_start \cup {p} = Party
  <2>1. at_start' = {} /\ \A q \in Party : pc'[q] = "start_wait"
    BY <1>1, <1>3 DEF Gathering, Gather
  <2>2. CASE task_pending = 0
    BY <1>1, <1>2, <2>1, <2>2
    DEF Gathering, OnALine, Parting, TurnsOK, PasswordOK, ReportsOK, VerdictOK
  <2>3. CASE task_pending = 1
    BY <1>1, <1>2, <2>1, <2>3
    DEF Gathering, OnALine, TurnsOK, PasswordOK, ReportsOK, VerdictOK, Begun
  <2> QED
    BY <2>2, <2>3
<1>4. CASE at_start \cup {p} # Party
  <2>1. at_start' = at_start \cup {p}
    BY <1>4 DEF Gather
  <2>2. Gathering'
    <3>1. at_start' = {q \in Party : pc'[q] = "start_wait"}
      BY <1>1, <2>1 DEF Gathering
    <3> QED
      BY <1>1, <1>4, <2>1, <3>1 DEF Gathering
  <2>3. ~OnALine'
    BY <2>1 DEF OnALine
  <2> QED
    BY <1>1, <1>2, <2>2, <2>3 DEF TurnsOK, PasswordOK, ReportsOK, VerdictOK
<1> QED
  BY <1>3, <1>4

\* Whoever arrives last at barrier_end ends the line: everyone has a status.
LEMMA ArriveEndStep ==
  ASSUME IInv, NEW p \in Party, ArriveEnd(p)
  PROVE  IInv'
<1> USE DEF ArriveEnd, PassTo, shared, search, totals, NULL, Freed
<1> USE DEF IInv, SharesOK, Party, Searcher, Main
<1>1. OnALine /\ ~Gathering /\ ~Parting
  BY DEF TurnsOK, Gathering, OnALine, Parting, Searching
<1>2. SharesOK'
  BY DEF MainPlace
<1>3. CASE at_end \cup {p} = Party
  <2>1. at_end' = {} /\ \A q \in Party : pc'[q] = "end_wait"
    BY <1>1, <1>3 DEF OnALine, Gather
  <2>2. Gathering' /\ ~OnALine'
    BY <1>1, <2>1 DEF OnALine, Gathering
  <2>3. \A w \in Searcher : w \in Begun
    BY <1>1, <1>3 DEF OnALine, Begun
  <2>4. decrypted_password \in {NULL} \cup ({task.secret} \cap Nat)
    BY <1>1 DEF PasswordOK
  <2>5. decrypted_password = NULL <=> \A w \in Searcher : thread_status[w] = 2
    <3>1. /\ \A w \in Begun : thread_status[w] # 2 => decrypted_password # NULL
          /\ decrypted_password # NULL => \E w \in Done : thread_status[w] = 0
      BY <1>1 DEF ReportsOK
    <3>2. Done \subseteq Searcher
      BY DEF Done
    <3>3. \A w \in Done : thread_status[w] = 0 => thread_status[w] # 2
      OBVIOUS
    <3> QED
      BY <2>3, <3>1, <3>2, <3>3
  <2>6. VerdictOK'
    BY <2>4, <2>5 DEF VerdictOK
  <2> QED
    BY <1>2, <2>1, <2>2, <2>6 DEF TurnsOK, PasswordOK, ReportsOK
<1>4. CASE at_end \cup {p} # Party
  <2>1. at_end' = at_end \cup {p}
    BY <1>4 DEF Gather
  <2>2. OnALine'
    <3>1. at_end' = {q \in Party : pc'[q] = "end_wait"}
      BY <1>1, <2>1 DEF OnALine
    <3> QED
      BY <1>1, <1>4, <2>1, <3>1 DEF OnALine
  <2>3. ~Gathering'
    BY <2>1 DEF Gathering
  <2>4. Begun' = Begun /\ Done' = Done
    BY DEF Begun, Done
  <2> QED
    BY <1>1, <1>2, <2>2, <2>3, <2>4 DEF TurnsOK, PasswordOK, ReportsOK, VerdictOK
<1> QED
  BY <1>3, <1>4

-----------------------------------------------------------------------------
\* A step of worker w inside its line leaves everyone on the line; w may change
\* its place, as long as that is still on the line.
LEMMA OnALineStep ==
  ASSUME IInv, NEW w \in Searcher,
         NEW to \in Searching \cup {"start_wait", "end"},
         pc[w] \in Searching, pc' = [pc EXCEPT ![w] = to],
         UNCHANGED <<task_pending, at_start, at_end>>
  PROVE  OnALine /\ OnALine' /\ ~Gathering'
<1> USE DEF IInv, SharesOK, Party, Searcher, Main, Searching
<1>1. OnALine
  BY DEF TurnsOK, Gathering, OnALine, Parting
<1>2. {q \in Party : pc'[q] = "end_wait"} = {q \in Party : pc[q] = "end_wait"}
  OBVIOUS
<1>3. OnALine'
  BY <1>1, <1>2 DEF OnALine
<1>4. ~Gathering'
  BY <1>1 DEF OnALine, Gathering
<1> QED
  BY <1>1, <1>3, <1>4

\* The worker sets its status back to 2, and moves into the search space.
LEMMA SetRangeStep ==
  ASSUME IInv, NEW w \in Searcher, SetRange(w)
  PROVE  IInv'
<1> USE DEF SetRange, PassTo, barriers, totals
<1>1. OnALine /\ OnALine' /\ ~Gathering'
  BY OnALineStep DEF Searching
<1>2. StartOf(w, task.space) % task.space \in Nat
  BY StartIsInt, ModIsNat DEF IInv, SharesOK
<1>3. SharesOK'
  BY <1>2 DEF IInv, SharesOK, Party, WorkerPlace, Searching
<1>4. Done' = Done /\ w \notin Done
  BY DEF Done, IInv, SharesOK, Party
<1>5. Begun' = Begun \cup {w}
  BY DEF Begun, IInv, SharesOK, Party
<1>6. thread_status' = [thread_status EXCEPT ![w] = 2] /\ UNCHANGED decrypted_password
  OBVIOUS
<1>7. ReportsOK'
  BY <1>1, <1>4, <1>5, <1>6 DEF ReportsOK, IInv, SharesOK, Begun, Done
<1> QED
  BY <1>1, <1>3, <1>7 DEF IInv, TurnsOK, PasswordOK, VerdictOK

\* A worker that finds decrypted_password set reports 1.
LEMMA StopEarlyStep ==
  ASSUME IInv, NEW w \in Searcher, StopEarly(w)
  PROVE  IInv'
<1> USE DEF StopEarly, PassTo, barriers, totals, shared
<1>1. OnALine /\ OnALine' /\ ~Gathering'
  BY OnALineStep DEF Searching
<1>2. SharesOK'
  BY DEF IInv, SharesOK, Party, WorkerPlace, Searching
<1>3. w \notin Done /\ Done' = Done \cup {w} /\ Begun' = Begun
  BY DEF Done, Begun, IInv, SharesOK, Party
<1>4. ReportsOK'
  BY <1>1, <1>3 DEF ReportsOK, IInv, SharesOK, Begun, Done, NULL
<1> QED
  BY <1>1, <1>2, <1>4 DEF IInv, TurnsOK, PasswordOK, VerdictOK

\* A worker that finds the password stores it and reports 0.
LEMMA HitStep ==
  ASSUME IInv, NEW w \in Searcher, Hit(w)
  PROVE  IInv'
<1> USE DEF Hit, PassTo, barriers, totals
<1>1. OnALine /\ OnALine' /\ ~Gathering'
  BY OnALineStep DEF Searching
<1>2. SharesOK'
  BY DEF IInv, SharesOK, Party, WorkerPlace, Searching
<1>3. Done' = Done \cup {w} /\ Begun' = Begun
  BY DEF Done, Begun, IInv, SharesOK, Party
<1>4. decrypted_password' \in {task'.secret} \cap Nat
  BY DEF IInv, SharesOK
<1>5. ReportsOK'
  BY <1>1, <1>3, <1>4 DEF ReportsOK, IInv, SharesOK, Begun, Done, NULL
<1> QED
  BY <1>1, <1>2, <1>4, <1>5 DEF IInv, TurnsOK, PasswordOK, VerdictOK

\* A worker that misses goes on to the next candidate.
LEMMA MissStep ==
  ASSUME IInv, NEW w \in Searcher, Miss(w)
  PROVE  IInv'
<1> USE DEF Miss, PassTo, barriers, totals, shared
<1>1. OnALine /\ OnALine' /\ ~Gathering'
  BY OnALineStep DEF Searching
<1>2. (candidate[w] + 1) % task.space \in Nat
  BY ModIsNat DEF IInv, SharesOK
<1>3. SharesOK'
  BY <1>2 DEF IInv, SharesOK, Party, WorkerPlace, Searching
<1>4. Done' = Done /\ Begun' = Begun
  BY DEF Done, Begun, IInv, SharesOK, Party
<1> QED
  BY <1>1, <1>3, <1>4 DEF IInv, TurnsOK, PasswordOK, VerdictOK, ReportsOK

\* Resetting the shared count, looking whether to go on, and printing the
\* result change nothing that the turns and the reports depend on.
LEMMA SearchStep ==
  ASSUME IInv, NEW w \in Searcher,
         ResetRange(w) \/ While(w) \/ LookOn(w) \/ Result(w)
  PROVE  IInv'
<1> USE DEF ResetRange, While, LookOn, Result, PassTo, barriers, totals, shared, search
<1>1. OnALine /\ OnALine' /\ ~Gathering'
  BY OnALineStep DEF Searching
<1>2. UNCHANGED <<task, lines, decrypted_password, task_pending, thread_status, candidate>>
  OBVIOUS
<1>3. SharesOK'
  BY DEF IInv, SharesOK, Party, WorkerPlace, Searching
<1>4. Begun' = Begun
  BY DEF Begun, IInv, SharesOK, Party
<1>5. Done \subseteq Done'
  BY DEF Done, IInv, SharesOK, Party
<1>6. ReportsOK'
  BY <1>1, <1>2, <1>4, <1>5 DEF ReportsOK, IInv
<1> QED
  BY <1>1, <1>2, <1>3, <1>6 DEF IInv, TurnsOK, PasswordOK, VerdictOK

\* Released from barrier_start, a worker searches, or exits after the last line.
LEMMA BeginStep ==
  ASSUME IInv, NEW w \in Searcher, Begin(w)
  PROVE  IInv'
<1> USE DEF Begin, PassTo, barriers, totals, shared, search
<1> USE DEF IInv, SharesOK, Party, Searcher, Main
<1>1. ~Gathering /\ ~Gathering'
  BY DEF Gathering, Searching
<1>2. SharesOK'
  BY DEF WorkerPlace, Searching
<1>3. CASE task_pending = 0
  <2>1. Parting' /\ ~OnALine'
    BY <1>1, <1>3 DEF TurnsOK, OnALine, Parting
  <2> QED
    BY <1>1, <1>2, <2>1 DEF TurnsOK, PasswordOK, ReportsOK, VerdictOK
<1>4. CASE task_pending # 0
  <2>1. OnALine
    BY <1>1, <1>4 DEF TurnsOK, Parting
  <2>2. at_end = {q \in Party : pc'[q] = "end_wait"}
    BY <1>4, <2>1 DEF OnALine
  <2>3. OnALine'
    BY <1>4, <2>1, <2>2 DEF OnALine, Searching
  <2>4. Begun' = Begun /\ Done' = Done
    BY <1>4 DEF Begun, Done
  <2> QED
    BY <1>1, <1>2, <2>1, <2>3, <2>4 DEF TurnsOK, PasswordOK, ReportsOK, VerdictOK
<1> QED
  BY <1>3, <1>4

\* Released from barrier_end, a worker goes round its loop.
LEMMA AgainStep ==
  ASSUME IInv, NEW w \in Searcher, Again(w)
  PROVE  IInv'
<1> USE DEF Again, PassTo, barriers, totals, shared, search
<1> USE DEF IInv, SharesOK, Party, Searcher, Main
<1>1. Gathering /\ ~OnALine'
  BY DEF TurnsOK, Gathering, OnALine, Parting
<1>2. SharesOK'
  BY DEF WorkerPlace
<1>3. at_start = {q \in Party : pc'[q] = "start_wait"}
  BY <1>1 DEF Gathering
<1>4. Gathering'
  BY <1>1, <1>3 DEF Gathering
<1> QED
  BY <1>1, <1>2, <1>4 DEF TurnsOK, PasswordOK, ReportsOK, VerdictOK

-----------------------------------------------------------------------------
\* The main thread reads a line, or the end of the input, while the workers
\* gather, and clears the password of the line before.
LEMMA ReadStep ==
  ASSUME IInv, GetLine \/ EndOfInput
  PROVE  IInv'
<1> USE DEF GetLine, EndOfInput, PassTo, barriers, totals, search
<1> USE DEF IInv, SharesOK, Party, Searcher, Main
<1>1. Gathering /\ ~OnALine'
  BY DEF TurnsOK, Gathering, OnALine, Parting
<1>2. lines' \in Seq(Tasks) /\ task' \in [space : Nat \ {0}, secret : Int]
  <2>1. lines # <<>> => Head(lines) \in Tasks /\ Tail(lines) \in Seq(Tasks)
    BY HeadTailProperties
  <2> QED
    BY <2>1
<1>3. SharesOK'
  BY <1>2 DEF MainPlace
<1>4. at_start = {q \in Party : pc'[q] = "start_wait"}
  BY <1>1 DEF Gathering
<1>5. Gathering'
  BY <1>1, <1>4 DEF Gathering
<1>6. task_pending' = 1 => decrypted_password' = NULL
  OBVIOUS
<1> QED
  BY <1>1, <1>3, <1>5, <1>6 DEF TurnsOK, PasswordOK, ReportsOK, VerdictOK

\* Released from barrier_start, the main thread goes to barrier_end, or joins
\* the workers after the last line.
LEMMA MainGoesOnStep ==
  ASSUME IInv, MainGoesOn
  PROVE  IInv'
<1> USE DEF MainGoesOn, PassTo, barriers, totals, shared, search
<1> USE DEF IInv, SharesOK, Party, Searcher, Main
<1>1. ~Gathering /\ ~Gathering'
  BY DEF Gathering
<1>2. SharesOK'
  BY DEF MainPlace
<1>3. CASE task_pending = 0
  <2>1. Parting' /\ ~OnALine'
    BY <1>1, <1>3 DEF TurnsOK, OnALine, Parting
  <2> QED
    BY <1>1, <1>2, <2>1 DEF TurnsOK, PasswordOK, ReportsOK, VerdictOK
<1>4. CASE task_pending # 0
  <2>1. OnALine
    BY <1>1, <1>4 DEF TurnsOK, Parting
  <2>2. at_end = {q \in Party : pc'[q] = "end_wait"}
    BY <1>4, <2>1 DEF OnALine
  <2>3. OnALine'
    BY <1>4, <2>1, <2>2 DEF OnALine, Searching
  <2>4. Begun' = Begun /\ Done' = Done
    BY <1>4 DEF Begun, Done
  <2> QED
    BY <1>1, <1>2, <2>1, <2>3, <2>4 DEF TurnsOK, PasswordOK, ReportsOK, VerdictOK
<1> QED
  BY <1>3, <1>4

\* Released from barrier_end, the main thread sums up and frees the password.
LEMMA SummaryStep ==
  ASSUME IInv, Summary
  PROVE  IInv'
<1> USE DEF Summary, PassTo, barriers, search
<1> USE DEF IInv, SharesOK, Party, Searcher, Main
<1>1. Gathering /\ ~OnALine'
  BY DEF TurnsOK, Gathering, OnALine, Parting
<1>2. SharesOK'
  BY DEF MainPlace
<1>3. at_start = {q \in Party : pc'[q] = "start_wait"}
  BY <1>1 DEF Gathering
<1>4. Gathering' /\ pc'[Main] = "getline"
  BY <1>1, <1>3 DEF Gathering
<1> QED
  BY <1>1, <1>2, <1>4 DEF TurnsOK, PasswordOK, ReportsOK, VerdictOK

\* All workers have exited, and the main thread returns.
LEMMA JoinAllStep ==
  ASSUME IInv, JoinAll
  PROVE  IInv'
<1> USE DEF JoinAll, PassTo, barriers, totals, shared, search
<1> USE DEF IInv, SharesOK, Party, Searcher, Main
<1>1. SharesOK'
  BY DEF MainPlace
<1>2. Parting' /\ ~OnALine' /\ ~Gathering'
  BY DEF TurnsOK, Gathering, OnALine, Parting
<1> QED
  BY <1>1, <1>2 DEF TurnsOK, PasswordOK, ReportsOK, VerdictOK

-----------------------------------------------------------------------------
\* Every step of the program keeps the invariant.
LEMMA InductiveStep ==
  ASSUME IInv, [Cracker2Next]_cracker2Vars
  PROVE  IInv'
<1>1. ASSUME MainStep PROVE IInv'
  <2>1. Main \in Party
    BY DEF Party
  <2> QED
    BY <1>1, <2>1, ArriveStartStep, ArriveEndStep, ReadStep, MainGoesOnStep,
       SummaryStep, JoinAllStep DEF MainStep
<1>2. ASSUME NEW w \in Searcher, WorkerStep(w) PROVE IInv'
  <2>1. w \in Party
    BY DEF Party
  <2> QED
    BY <1>2, <2>1, ArriveStartStep, ArriveEndStep, BeginStep, SetRangeStep,
       SearchStep, StopEarlyStep, HitStep, MissStep, AgainStep DEF WorkerStep
<1>3. CASE UNCHANGED cracker2Vars
  BY <1>3 DEF cracker2Vars, shared, barriers, search, totals, IInv, SharesOK,
     TurnsOK, Gathering, OnALine, Parting, PasswordOK, ReportsOK, VerdictOK,
     Begun, Done
<1> QED
  BY <1>1, <1>2, <1>3 DEF Cracker2Next

\* The invariant holds in every state of every behaviour.
LEMMA Inductive == Cracker2Spec => []IInv
  BY InitOK, InductiveStep, PTL DEF Cracker2Spec

\* The main thread and the workers never get in each other's way: no worker
\* searches while a line is read, the counts are summed up or the password is
\* freed, and no worker reads the freed one.
THEOREM Cracker2TurnsTaken == Cracker2Spec => []TurnsTaken
<1>1. IInv => TurnsTaken
  <2> SUFFICES ASSUME IInv, NEW w \in Searcher, pc[w] \in Searching
               PROVE  /\ pc[Main] \in {"start_wait", "end", "end_wait"}
                      /\ Main \notin at_start
                      /\ pc[Main] = "end_wait" => Main \in at_end
                      /\ decrypted_password # Freed
    BY DEF TurnsTaken
  <2>1. OnALine
    BY DEF IInv, TurnsOK, Gathering, Parting, Searching
  <2> QED
    BY <2>1 DEF IInv, PasswordOK, OnALine, Party, NULL, Freed
<1> QED
  BY Inductive, <1>1, PTL

\* When barrier_end lets the main thread go, decrypted_password is this line's
\* or NULL, and NULL exactly when every worker has reported a failure.
THEOREM Cracker2StatusesAgree == Cracker2Spec => []StatusesAgree
<1>1. IInv => StatusesAgree
  <2> SUFFICES ASSUME IInv, pc[Main] = "end_wait", Main \notin at_end
               PROVE  /\ decrypted_password \in {NULL, task.secret}
                      /\ decrypted_password = NULL
                            <=> \A w \in Searcher : thread_status[w] = 2
    BY DEF StatusesAgree
  <2>1. Gathering
    BY DEF IInv, TurnsOK, OnALine, Parting, Party
  <2> QED
    BY <2>1 DEF IInv, VerdictOK
<1> QED
  BY Inductive, <1>1, PTL

-----------------------------------------------------------------------------
(***************************************************************************)
(* charming_chatroom/server.c: who hears what, and in which order.         *)
(*                                                                         *)
(* Whose a descriptor is depends on the thread of the slot that holds it:  *)
(* until that thread has closed it, it is the socket of the thread's own   *)
(* guest and of nobody else; from then until the slot is cleared, it may   *)
(* be closed, or already another guest's.                                  *)
(***************************************************************************)
\* The places of process_client before it has closed its socket.
OpenPlaces == {"while", "read", "lock", "write", "body", "close"}

RoomTypes == /\ clients \in [Slot -> Fd \cup {Free}]
             /\ clientsCount = Cardinality({ s \in Slot : clients[s] # Free })
             /\ endSession \in BOOLEAN
             /\ holder \in Slot \cup {Free}
             /\ server \in {"accept", "join", "cleanup", "exit", "killed"}
             /\ accepted \in Fd \cup {Free}
             /\ thread \in [Slot -> OpenPlaces \cup {"none", "clear"}]
             /\ next \in [Slot -> 0..MAX_CLIENTS]
             /\ message \in [Slot -> SUBSET Guest]
             /\ socket \in [Fd -> SUBSET Guest]
             /\ guest \in [Guest -> {"out", "waiting", "in", "left"}]
             /\ unsent \subseteq Guest
             /\ heard \in [Guest -> Seq(Guest)]
             /\ sized \in [Slot -> SUBSET Guest] /\ outOfStep \subseteq Guest

Serving(s) == thread[s] \in OpenPlaces

\* A slot is free exactly when no thread serves it, and a descriptor that a
\* thread has not closed yet is in one slot only.
SlotsOK == /\ \A s \in Slot : clients[s] = Free <=> thread[s] = "none"
           /\ \A s, t \in Slot : Serving(s) /\ Serving(t) /\ clients[s] = clients[t] => s = t
           /\ \A s \in Slot : Serving(s) => accepted # clients[s]

\* A socket has one guest, who has been accepted; it belongs to a thread, or to
\* the main thread while it looks for a slot; and only the end closes it earlier.
SocketsOK ==
  /\ \A f \in Fd : socket[f] = {} \/ \E g \in Guest : socket[f] = {g}
  /\ \A f \in Fd : \A g \in socket[f] : guest[g] \in {"in", "left"}
  /\ \A f \in Fd : socket[f] # {} =>
        f = accepted \/ \E s \in Slot : Serving(s) /\ clients[s] = f
  /\ server \in {"accept", "join", "cleanup"} =>
        \A s \in Slot : Serving(s) => socket[clients[s]] # {}
  /\ server = "join" => accepted # Free /\ socket[accepted] # {}
  /\ server \in {"accept", "cleanup"} => accepted = Free

Passing(s) == thread[s] \in {"lock", "write", "body"}

\* The mutex is held during all writes of a message, and a slot is taken as long
\* as it is being written to; a buffer holds one message from its arrival until
\* it has been passed on.
WritingOK == /\ \A s \in Slot : thread[s] \in {"write", "body"} => holder = s
             /\ \A s \in Slot : thread[s] = "body" =>
                   next[s] < MAX_CLIENTS /\ clients[next[s]] # Free
             /\ \A s \in Slot : Passing(s) => \E g \in Guest : message[s] = {g}
             /\ \A s \in Slot : ~Passing(s) => message[s] = {}

Heard(m) == \E g \in Guest : m \in ToSet(heard[g])

\* A message is unsent, or in one buffer, or done with.  Nobody has heard one
\* that is not being written yet, and one that is being written is the last
\* that anybody has heard.
Newest(m, seq) == \A a, b \in DOMAIN seq : a < b /\ seq[a] = m => seq[b] = m

OrderOK == /\ \A m \in unsent : ~Heard(m) /\ \A s \in Slot : m \notin message[s]
           /\ \A s, t \in Slot : s # t => message[s] \cap message[t] = {}
           /\ \A s \in Slot : thread[s] = "lock" => \A m \in message[s] : ~Heard(m)
           /\ \A s \in Slot : thread[s] \in {"write", "body"} =>
                 \A m \in message[s], g \in Guest : Newest(m, heard[g])

RoomInv == /\ RoomTypes /\ SlotsOK /\ SocketsOK /\ WritingOK /\ OrderOK
           /\ SameOrder /\ NobodyMissed

-----------------------------------------------------------------------------
USE ChatRoomAssumption

\* A descriptor is never taken for a free slot.
LEMMA NotFree ==
  ASSUME NEW f \in Fd
  PROVE  f # Free /\ f \in Nat
BY DEF Free

LEMMA SlotIs == Slot \subseteq Nat /\ IsFiniteSet(Slot) /\ Cardinality(Slot) = MAX_CLIENTS
                /\ Free \notin Slot
BY FS_Interval DEF Slot, Free

\* The message of a guest, as it is appended to what another has heard.
LEMMA HearIs ==
  ASSUME NEW seq \in Seq(Guest), NEW m \in Guest
  PROVE  seq \o SetToSeq({m}) = Append(seq, m)
BY SetToSeqOne, AppendIsConcat

LEMMA AppendIs ==
  ASSUME NEW seq \in Seq(Guest), NEW m \in Guest
  PROVE  LET r == Append(seq, m)
             n == Len(seq)
         IN  /\ n \in Nat /\ DOMAIN seq = 1..n /\ r \in Seq(Guest) /\ DOMAIN r = 1..(n + 1)
             /\ r[n + 1] = m /\ \A a \in 1..n : r[a] = seq[a]
             /\ ToSet(r) = ToSet(seq) \cup {m}
<1>. DEFINE r == Append(seq, m)
            n == Len(seq)
<1>1. /\ r \in Seq(Guest) /\ n \in Nat /\ DOMAIN seq = 1..n /\ DOMAIN r = 1..(n + 1)
      /\ r[n + 1] = m /\ \A k \in 1..n : r[k] = seq[k]
  OBVIOUS
<1>. HIDE DEF r, n
<1>2. 1..(n + 1) = (1..n) \cup {n + 1}
  BY <1>1
<1>3. ToSet(r) = ToSet(seq) \cup {m}
  BY <1>1, <1>2 DEF ToSet
<1>. QED
  BY <1>1, <1>3 DEF r, n

\* A message that comes last for everybody who has heard it comes last for one
\* more guest, and nobody has heard two messages the other way round.
LEMMA HearingKeepsOrder ==
  ASSUME SameOrder, NEW m \in Guest, NEW D,
         heard \in [Guest -> Seq(Guest)],
         heard' = [g \in Guest |-> IF g \in D THEN Append(heard[g], m) ELSE heard[g]],
         \A g \in Guest : Newest(m, heard[g])
  PROVE  /\ SameOrder'
         /\ heard' \in [Guest -> Seq(Guest)]
         /\ \A g \in Guest : Newest(m, heard'[g])
         /\ \A g \in Guest : ToSet(heard'[g]) = IF g \in D THEN ToSet(heard[g]) \cup {m}
                                                ELSE ToSet(heard[g])
<1>1. ASSUME NEW g \in Guest
      PROVE  /\ heard'[g] \in Seq(Guest)
             /\ \A a \in DOMAIN heard'[g] : heard'[g][a] # m =>
                   a \in DOMAIN heard[g] /\ heard'[g][a] = heard[g][a]
             /\ Newest(m, heard'[g])
             /\ ToSet(heard'[g]) = IF g \in D THEN ToSet(heard[g]) \cup {m}
                                   ELSE ToSet(heard[g])
  <2>1. CASE g \in D
    <3>. DEFINE q == heard[g]
                r == Append(heard[g], m)
                n == Len(heard[g])
    <3>1. q \in Seq(Guest) /\ r = heard'[g] /\ n \in Nat
      BY <2>1
    <3>2. /\ n \in Nat /\ DOMAIN q = 1..n /\ r \in Seq(Guest) /\ DOMAIN r = 1..(n + 1)
          /\ r[n + 1] = m /\ \A a \in 1..n : r[a] = q[a]
          /\ ToSet(r) = ToSet(q) \cup {m}
      BY <3>1, AppendIs
    <3>. HIDE DEF q, r, n
    <3>3. Newest(m, r)
      <4>. SUFFICES ASSUME NEW a \in DOMAIN r, NEW b \in DOMAIN r, a < b, r[a] = m
                    PROVE  r[b] = m
        BY DEF Newest
      <4>1. CASE b \in 1..n
        <5>1. a \in 1..n /\ q[a] = m /\ r[b] = q[b]
          BY <3>2, <4>1
        <5>2. Newest(m, q) /\ a \in DOMAIN q /\ b \in DOMAIN q
          BY <3>2, <4>1, <5>1 DEF q
        <5>3. q[b] = m
          BY ONLY <5>1, <5>2, a < b DEF Newest
        <5>. QED
          BY ONLY <5>1, <5>3
      <4>2. CASE b \notin 1..n
        <5>1. b = n + 1
          BY <3>2, <4>2
        <5>. QED
          BY <3>2, <5>1
      <4>. QED
        BY <4>1, <4>2
    <3>4. \A a \in DOMAIN r : r[a] # m => a \in DOMAIN q /\ r[a] = q[a]
      BY <3>2
    <3>. QED
      BY <2>1, <3>1, <3>2, <3>3, <3>4 DEF q
  <2>2. CASE g \notin D
    BY <2>2
  <2>. QED
    BY <2>1, <2>2
<1>2. ASSUME NEW g \in Guest, NEW h \in Guest  PROVE InOrder(heard'[g], heard'[h])
  <2>1. PICK p, q, r, t : /\ p = heard[g] /\ q = heard[h]
                          /\ r = heard'[g] /\ t = heard'[h]
    OBVIOUS
  <2>2. InOrder(p, q)
    BY <2>1 DEF SameOrder
  <2>3. /\ \A a \in DOMAIN r : r[a] # m => a \in DOMAIN p /\ r[a] = p[a]
        /\ \A a \in DOMAIN t : t[a] # m => a \in DOMAIN q /\ t[a] = q[a]
        /\ Newest(m, r) /\ Newest(m, t)
    BY <1>1, <2>1
  <2>4. InOrder(r, t)
    <3>. SUFFICES ASSUME NEW a \in DOMAIN r, NEW b \in DOMAIN r,
                         NEW k \in DOMAIN t, NEW l \in DOMAIN t,
                         a < b, k < l, r[a] = t[l], r[b] = t[k]
                  PROVE  r[a] = r[b]
      BY DEF InOrder
    <3>1. CASE r[a] = m
      BY <2>3, <3>1 DEF Newest
    <3>2. CASE r[b] = m
      BY <2>3, <3>2 DEF Newest
    <3>3. CASE r[a] # m /\ r[b] # m
      BY <2>2, <2>3, <3>3 DEF InOrder
    <3>. QED
      BY <3>1, <3>2, <3>3
  <2>. QED
    BY <2>1, <2>4
<1>3. SameOrder'
  BY <1>2 DEF SameOrder
<1>4. heard' \in [Guest -> Seq(Guest)]
  BY <1>1
<1>. QED
  BY <1>1, <1>3, <1>4

-----------------------------------------------------------------------------
\* Nothing is written, and no message is received or passed on.
LEMMA OrderStays ==
  ASSUME RoomInv, heard' = heard, message' = message, unsent' \subseteq unsent,
         \A s \in Slot : /\ thread'[s] = "lock" => thread[s] = "lock"
                         /\ thread'[s] \in {"write", "body"} =>
                               thread[s] \in {"write", "body"}
  PROVE  OrderOK' /\ SameOrder'
<1>1. OrderOK'
  BY DEF RoomInv, OrderOK, Heard
<1>2. SameOrder'
  BY DEF RoomInv, SameOrder
<1>. QED
  BY <1>1, <1>2

\* The writes under way go on, and nobody new listens to them.
LEMMA MissedStays ==
  ASSUME RoomInv, WritingOK', heard' = heard, message' = message, sized' = sized,
         outOfStep' = outOfStep, next' = next,
         NEW D, \A s \in Slot : thread'[s] \in {"write", "body"} =>
                   thread[s] = thread'[s] /\ D,
         D => \A t \in Slot : clients'[t] # Free /\ thread'[t] # "clear" =>
                 /\ clients[t] # Free /\ thread[t] # "clear"
                 /\ Listener(t)' \subseteq Listener(t)
  PROVE  NobodyMissed'
<1>1. ASSUME NEW s \in Slot, thread'[s] = "body", thread'[next[s]] # "clear"
      PROVE  Listener(next[s])' \subseteq sized[s]
  <2>1. next[s] \in Slot /\ clients'[next[s]] # Free
    BY <1>1 DEF RoomInv, RoomTypes, WritingOK, Slot
  <2>2. /\ thread[s] = "body" /\ thread[next[s]] # "clear"
        /\ Listener(next[s])' \subseteq Listener(next[s])
    BY <1>1, <2>1
  <2>. QED
    BY <2>2 DEF RoomInv, NobodyMissed
<1>. QED
  BY <1>1 DEF RoomInv, NobodyMissed

\* Between its two writes, a thread is at a slot that is taken.
LEMMA BodyAt ==
  ASSUME RoomInv, NEW s \in Slot, thread[s] = "body"
  PROVE  next[s] \in Slot /\ clients[next[s]] \in Fd
BY DEF RoomInv, RoomTypes, WritingOK, Slot

\* A thread with a free or a closed socket serves nobody.
LEMMA ServingIs ==
  ASSUME RoomInv, NEW s \in Slot
  PROVE  /\ Serving(s) => clients[s] \in Fd /\ clients[s] # Free
         /\ clients[s] # Free /\ thread[s] # "clear" => Serving(s)
         /\ ~Serving(s) => thread[s] \in {"none", "clear"}
BY NotFree DEF RoomInv, RoomTypes, SlotsOK, Serving, OpenPlaces

\* While the main thread waits in accept, each socket belongs to one slot: some
\* descriptor is free.
LEMMA DescriptorLeft ==
  ASSUME RoomInv, server = "accept"
  PROVE  Min({ x \in Fd : socket[x] = {} }) \in { x \in Fd : socket[x] = {} }
<1>. DEFINE used == { x \in Fd : socket[x] # {} }
            inSlots == { clients[s] : s \in Slot }
<1>1. used \subseteq inSlots
  BY NotFree DEF RoomInv, SocketsOK
<1>2. IsFiniteSet(inSlots) /\ Cardinality(inSlots) <= MAX_CLIENTS
  <2>1. clients \in [Slot -> inSlots]
    BY DEF RoomInv, RoomTypes
  <2>2. clients \in Surjection(Slot, inSlots)
    BY <2>1 DEF Surjection
  <2>. QED
    BY <2>2, SlotIs, FS_Surjection
<1>3. Cardinality(used) <= MAX_CLIENTS
  BY <1>1, <1>2, FS_Subset, FS_CardinalityType
<1>4. used # Fd
  <2>. SUFFICES ASSUME used = Fd  PROVE FALSE
    OBVIOUS
  <2>1. Cardinality(Fd) <= MAX_CLIENTS
    BY <1>3
  <2>2. Cardinality(Fd) \in Nat
    BY FS_CardinalityType
  <2>. QED
    BY <2>1, <2>2
<1>5. { x \in Fd : socket[x] = {} } # {}
  BY <1>4
<1>. QED
  BY <1>5, MinOfNat

\* A guest gets a descriptor that only a thread in front of clear still knows.
LEMMA AcceptStep ==
  ASSUME RoomInv, Accept
  PROVE  RoomInv'
<1>. DEFINE f == Min({ x \in Fd : socket[x] = {} })
<1>1. server = "accept" /\ server' = "join" /\ accepted = Free
  BY DEF Accept, RoomInv, SocketsOK
<1>2. f \in Fd /\ socket[f] = {}
  BY <1>1, DescriptorLeft
<1>. HIDE DEF f
<1>3. PICK g \in Guest : /\ guest[g] = "waiting" /\ guest' = [guest EXCEPT ![g] = "in"]
                         /\ socket' = [socket EXCEPT ![f] = {g}] /\ accepted' = f
  BY DEF Accept, f
<1>4. UNCHANGED <<clients, clientsCount, holder, endSession, thread, next, message,
                  unsent, heard, sized, outOfStep>>
  BY DEF Accept, slots, threads, streams
<1>5. /\ socket' \in [Fd -> SUBSET Guest]
      /\ \A x \in Fd : socket'[x] = IF x = f THEN {g} ELSE socket[x]
      /\ \A h \in Guest : guest'[h] = IF h = g THEN "in" ELSE guest[h]
  BY <1>2, <1>3 DEF RoomInv, RoomTypes
<1>6. \A s \in Slot : Serving(s) => clients[s] # f /\ clients[s] \in Fd
  BY <1>1, <1>2, ServingIs DEF RoomInv, SocketsOK
<1>7. RoomTypes'
  BY <1>1, <1>2, <1>3, <1>4, <1>5 DEF RoomInv, RoomTypes
<1>8. SlotsOK'
  BY <1>3, <1>4, <1>6 DEF RoomInv, SlotsOK, Serving
<1>9. SocketsOK'
  BY <1>1, <1>2, <1>3, <1>4, <1>5, <1>6, NotFree DEF RoomInv, SocketsOK, Serving
<1>10. WritingOK'
  BY <1>4 DEF RoomInv, WritingOK, Passing
<1>11. OrderOK' /\ SameOrder'
  BY <1>4, OrderStays
<1>12. NobodyMissed'
  <2>1. ASSUME NEW t \in Slot, clients[t] # Free, thread[t] # "clear"
        PROVE  Listener(t)' \subseteq Listener(t)
    <3>1. clients[t] # f /\ clients[t] \in Fd
      BY <1>6, <2>1, ServingIs
    <3>2. g \notin socket[clients[t]]
      BY <1>3, <3>1 DEF RoomInv, SocketsOK
    <3>. QED
      BY <1>4, <1>5, <3>1, <3>2 DEF Listener, RoomInv, RoomTypes
  <2>. QED
    BY <1>4, <1>10, <2>1, MissedStays
<1>. QED
  BY <1>7, <1>8, <1>9, <1>10, <1>11, <1>12 DEF RoomInv

\* The accepted guest gets a slot and a thread, while nobody writes.
LEMMA JoinStep ==
  ASSUME RoomInv, Join
  PROVE  RoomInv'
<1>. DEFINE occupied == { t \in Slot : clients[t] # Free }
            s == Min({ t \in Slot : clients[t] = Free })
<1>1. \E t \in Slot : clients[t] = Free
  <2>1. clientsCount = Cardinality(occupied) /\ clientsCount < MAX_CLIENTS
    BY DEF Join, RoomInv, RoomTypes
  <2>2. occupied # Slot
    <3>. SUFFICES ASSUME occupied = Slot  PROVE FALSE
      OBVIOUS
    <3>1. clientsCount = MAX_CLIENTS
      BY <2>1, SlotIs
    <3>. QED
      BY <2>1, <3>1
  <2>. QED
    BY <2>2
<1>2. s \in Slot /\ clients[s] = Free
  BY <1>1, SlotIs, MinOfNat
<1>. HIDE DEF s
<1>3. /\ server = "join" /\ holder = Free /\ holder' = Free
      /\ clients' = [clients EXCEPT ![s] = accepted]
      /\ thread' = [thread EXCEPT ![s] = "while"]
      /\ clientsCount' = clientsCount + 1
      /\ server' \in {"accept", "cleanup"} /\ accepted' = Free
      /\ UNCHANGED <<endSession, next, message, socket, guest, unsent, heard, sized,
                     outOfStep>>
  BY DEF Join, Loop, guests, s, streams
<1>4. accepted \in Fd /\ accepted # Free /\ socket[accepted] # {}
  BY <1>3 DEF RoomInv, RoomTypes, SocketsOK
<1>5. /\ clients' \in [Slot -> Fd \cup {Free}]
      /\ \A t \in Slot : clients'[t] = IF t = s THEN accepted ELSE clients[t]
      /\ thread' \in [Slot -> OpenPlaces \cup {"none", "clear"}]
      /\ \A t \in Slot : thread'[t] = IF t = s THEN "while" ELSE thread[t]
  BY <1>2, <1>3, <1>4 DEF RoomInv, RoomTypes, OpenPlaces
<1>6. clientsCount' = Cardinality({ t \in Slot : clients'[t] # Free })
  <2>1. { t \in Slot : clients'[t] # Free } = occupied \cup {s} /\ s \notin occupied
    BY <1>2, <1>4, <1>5
  <2>2. IsFiniteSet(occupied)
    BY SlotIs, FS_Subset
  <2>3. Cardinality(occupied \cup {s}) = Cardinality(occupied) + 1
    BY <2>1, <2>2, FS_AddElement
  <2>. QED
    BY <1>3, <2>1, <2>3 DEF RoomInv, RoomTypes
<1>7. thread[s] = "none" /\ ~Serving(s)
  BY <1>2 DEF RoomInv, SlotsOK, Serving, OpenPlaces
<1>8. \A t \in Slot : Serving(t)' <=> t = s \/ Serving(t)
  BY <1>5 DEF Serving, OpenPlaces
<1>9. \A t \in Slot : thread[t] \notin {"write", "body"}
  BY <1>3, SlotIs DEF RoomInv, WritingOK
<1>10. RoomTypes'
  BY <1>3, <1>5, <1>6 DEF RoomInv, RoomTypes
<1>11. SlotsOK'
  <2>1. \A t \in Slot : clients'[t] = Free <=> thread'[t] = "none"
    BY <1>4, <1>5 DEF RoomInv, SlotsOK
  <2>2. \A t \in Slot : Serving(t) => clients[t] # accepted /\ clients[t] # Free
    BY ServingIs DEF RoomInv, SlotsOK
  <2>3. \A t, u \in Slot : Serving(t)' /\ Serving(u)' /\ clients'[t] = clients'[u] => t = u
    BY <1>5, <1>8, <2>2 DEF RoomInv, SlotsOK
  <2>4. \A t \in Slot : Serving(t)' => accepted' # clients'[t]
    BY <1>3, <1>4, <1>5, <1>8, <2>2
  <2>. QED
    BY <2>1, <2>3, <2>4 DEF SlotsOK
<1>12. SocketsOK'
  <2>1. \A x \in Fd : socket'[x] = {} \/ \E g \in Guest : socket'[x] = {g}
    BY <1>3 DEF RoomInv, SocketsOK
  <2>2. \A x \in Fd : \A g \in socket'[x] : guest'[g] \in {"in", "left"}
    BY <1>3 DEF RoomInv, SocketsOK
  <2>3. \A x \in Fd : socket'[x] # {} =>
           x = accepted' \/ \E t \in Slot : Serving(t)' /\ clients'[t] = x
    <3>1. ASSUME NEW x \in Fd, socket[x] # {}
          PROVE  \E t \in Slot : Serving(t)' /\ clients'[t] = x
      <4>1. CASE x = accepted
        BY <1>2, <1>5, <1>8, <4>1
      <4>2. CASE x # accepted
        <5>1. PICK t \in Slot : Serving(t) /\ clients[t] = x
          BY <3>1, <4>2 DEF RoomInv, SocketsOK
        <5>. QED
          BY <1>5, <1>7, <1>8, <5>1
      <4>. QED
        BY <4>1, <4>2
    <3>. QED
      BY <1>3, <3>1
  <2>4. \A t \in Slot : Serving(t)' => socket'[clients'[t]] # {}
    BY <1>3, <1>4, <1>5, <1>8 DEF RoomInv, SocketsOK
  <2>. QED
    BY <1>3, <2>1, <2>2, <2>3, <2>4 DEF SocketsOK
<1>13. WritingOK'
  BY <1>3, <1>5, <1>7, <1>9 DEF RoomInv, WritingOK, Passing
<1>14. OrderOK' /\ SameOrder'
  BY <1>3, <1>5, OrderStays
<1>15. NobodyMissed'
  BY <1>5, <1>9 DEF NobodyMissed
<1>. QED
  BY <1>10, <1>11, <1>12, <1>13, <1>14, <1>15 DEF RoomInv

\* The guest who finds no slot is shut out.
LEMMA RefuseStep ==
  ASSUME RoomInv, Refuse
  PROVE  RoomInv'
<1>1. /\ server = "join" /\ holder = Free
      /\ socket' = [socket EXCEPT ![accepted] = {}]
      /\ guest' = [g \in Guest |-> IF g \in socket[accepted] THEN "left" ELSE guest[g]]
      /\ server' \in {"accept", "cleanup"} /\ accepted' = Free
      /\ UNCHANGED <<clients, clientsCount, holder, endSession, thread, next, message,
                     unsent, heard, sized, outOfStep>>
  BY DEF Refuse, Loop, slots, threads, streams
<1>2. accepted \in Fd
  BY <1>1 DEF RoomInv, RoomTypes, SocketsOK
<1>3. /\ socket' \in [Fd -> SUBSET Guest]
      /\ \A x \in Fd : socket'[x] = IF x = accepted THEN {} ELSE socket[x]
  BY <1>1, <1>2 DEF RoomInv, RoomTypes
<1>4. RoomTypes'
  BY <1>1, <1>3 DEF RoomInv, RoomTypes
<1>5. SlotsOK'
  BY <1>1, ServingIs DEF RoomInv, SlotsOK, Serving
<1>6. SocketsOK'
  <2>1. \A g \in Guest : guest'[g] = "left" \/ guest'[g] = guest[g]
    BY <1>1
  <2>2. \A s \in Slot : Serving(s) => clients[s] # accepted /\ clients[s] \in Fd
    BY ServingIs DEF RoomInv, SlotsOK
  <2>3. \A x \in Fd : \A g \in socket'[x] : guest'[g] \in {"in", "left"}
    BY <1>3, <2>1 DEF RoomInv, RoomTypes, SocketsOK
  <2>. QED
    BY <1>1, <1>3, <2>2, <2>3 DEF RoomInv, SocketsOK, Serving
<1>7. WritingOK'
  BY <1>1 DEF RoomInv, WritingOK, Passing
<1>8. OrderOK' /\ SameOrder'
  BY <1>1, OrderStays
<1>9. NobodyMissed'
  BY <1>1, SlotIs DEF RoomInv, WritingOK, NobodyMissed
<1>. QED
  BY <1>4, <1>5, <1>6, <1>7, <1>8, <1>9 DEF RoomInv

\* SIGINT, and the end that it brings: sockets are closed, nothing is opened.
LEMMA EndSteps ==
  ASSUME RoomInv, CloseServer \/ Cleanup
  PROVE  RoomInv'
<1>1. CASE CloseServer
  <2>1. /\ server' \in {server, "killed"} /\ endSession' = TRUE
        /\ UNCHANGED <<clients, clientsCount, holder, accepted, thread, next, message,
                       socket, guest, unsent, heard, sized, outOfStep>>
    BY <1>1 DEF CloseServer, slots, threads, guests, streams
  <2>2. RoomTypes'
    BY <2>1 DEF RoomInv, RoomTypes
  <2>3. SlotsOK' /\ WritingOK'
    BY <2>1 DEF RoomInv, SlotsOK, WritingOK, Serving, Passing
  <2>4. SocketsOK'
    BY <2>1 DEF RoomInv, SocketsOK, Serving
  <2>5. OrderOK' /\ SameOrder'
    BY <2>1, OrderStays
  <2>6. NobodyMissed'
    BY <2>1 DEF RoomInv, NobodyMissed, Listener
  <2>. QED
    BY <2>2, <2>3, <2>4, <2>5, <2>6 DEF RoomInv
<1>2. CASE Cleanup
  <2>1. /\ server' = "exit"
        /\ socket' = [f \in Fd |-> IF \E s \in Slot : clients[s] = f THEN {} ELSE socket[f]]
        /\ UNCHANGED <<clients, clientsCount, holder, accepted, endSession, thread, next,
                       message, guest, unsent, heard, sized, outOfStep>>
    BY <1>2 DEF Cleanup, slots, threads, guests, streams
  <2>2. \A f \in Fd : socket'[f] = {} \/ socket'[f] = socket[f]
    BY <2>1
  <2>3. RoomTypes'
    BY <2>1 DEF RoomInv, RoomTypes
  <2>4. SlotsOK' /\ WritingOK'
    BY <2>1 DEF RoomInv, SlotsOK, WritingOK, Serving, Passing
  <2>5. SocketsOK'
    BY <2>1, <2>2 DEF RoomInv, SocketsOK, Serving
  <2>6. OrderOK' /\ SameOrder'
    BY <2>1, OrderStays
  <2>7. NobodyMissed'
    <3>1. ASSUME NEW t \in Slot, clients[t] # Free  PROVE Listener(t)' \subseteq Listener(t)
      BY <2>1, <2>2, <3>1 DEF Listener, RoomInv, RoomTypes
    <3>. QED
      BY <2>1, <2>4, <3>1, MissedStays
  <2>. QED
    BY <2>3, <2>4, <2>5, <2>6, <2>7 DEF RoomInv
<1>. QED
  BY <1>1, <1>2

-----------------------------------------------------------------------------
\* A thread goes from one place to another with its socket open.
LEMMA PlaceMoves ==
  ASSUME RoomInv, NEW s \in Slot, Serving(s), NEW to \in OpenPlaces,
         thread' = [thread EXCEPT ![s] = to],
         UNCHANGED <<clients, clientsCount, server, accepted, endSession, socket, guest>>
  PROVE  /\ thread' \in [Slot -> OpenPlaces \cup {"none", "clear"}]
         /\ \A t \in Slot : thread'[t] = IF t = s THEN to ELSE thread[t]
         /\ SlotsOK' /\ SocketsOK'
         /\ \A t \in Slot : Listener(t)' = Listener(t)
<1>1. /\ thread' \in [Slot -> OpenPlaces \cup {"none", "clear"}]
      /\ \A t \in Slot : thread'[t] = IF t = s THEN to ELSE thread[t]
  BY DEF RoomInv, RoomTypes
<1>2. \A t \in Slot : Serving(t)' <=> Serving(t)
  BY <1>1 DEF Serving
<1>3. \A t \in Slot : thread'[t] = "none" <=> thread[t] = "none"
  BY <1>1 DEF Serving, OpenPlaces
<1>4. SlotsOK'
  BY <1>2, <1>3 DEF RoomInv, SlotsOK
<1>5. SocketsOK'
  BY <1>2 DEF RoomInv, SocketsOK
<1>. QED
  BY <1>1, <1>4, <1>5 DEF Listener

\* The turns of the reading loop.
LEMMA ReadingSteps ==
  ASSUME RoomInv, NEW s \in Slot, Read(s) \/ StopReading(s) \/ EndOfFile(s)
  PROVE  RoomInv'
<1>1. PICK to \in {"read", "close"} : thread' = [thread EXCEPT ![s] = to]
  BY DEF Read, StopReading, EndOfFile, Step
<1>2. thread[s] \in {"while", "read"} /\ Serving(s)
  BY DEF Read, StopReading, EndOfFile, Step, Serving, OpenPlaces
<1>3. UNCHANGED <<clients, clientsCount, holder, server, accepted, endSession, next,
                  message, socket, guest, unsent, heard, sized, outOfStep>>
  BY DEF Read, StopReading, EndOfFile, slots, chatMain, guests, streams
<1>4. /\ thread' \in [Slot -> OpenPlaces \cup {"none", "clear"}]
      /\ \A t \in Slot : thread'[t] = IF t = s THEN to ELSE thread[t]
      /\ SlotsOK' /\ SocketsOK' /\ \A t \in Slot : Listener(t)' = Listener(t)
  <2>1. to \in OpenPlaces
    BY DEF OpenPlaces
  <2>. QED
    BY <1>1, <1>2, <1>3, <2>1, PlaceMoves
<1>5. RoomTypes'
  BY <1>3, <1>4 DEF RoomInv, RoomTypes
<1>6. WritingOK'
  BY <1>2, <1>3, <1>4 DEF RoomInv, WritingOK, Passing
<1>7. OrderOK' /\ SameOrder'
  BY <1>3, <1>4, OrderStays
<1>8. NobodyMissed'
  BY <1>2, <1>3, <1>4, BodyAt DEF RoomInv, NobodyMissed
<1>. QED
  BY <1>4, <1>5, <1>6, <1>7, <1>8 DEF RoomInv

\* A message comes: no longer unsent, and in no other buffer.
LEMMA ReceiveStep ==
  ASSUME RoomInv, NEW s \in Slot, Receive(s)
  PROVE  RoomInv'
<1>1. /\ thread[s] = "read" /\ Serving(s)
      /\ thread' = [thread EXCEPT ![s] = "lock"]
      /\ message' = [message EXCEPT ![s] = socket[clients[s]]]
      /\ unsent' = unsent \ socket[clients[s]]
      /\ socket[clients[s]] \cap unsent # {}
      /\ UNCHANGED <<clients, clientsCount, holder, server, accepted, endSession, next,
                     socket, guest, heard, sized, outOfStep>>
  BY DEF Receive, Step, Serving, OpenPlaces, slots, chatMain, streams
<1>2. PICK g \in Guest : socket[clients[s]] = {g} /\ g \in unsent
  <2>1. clients[s] \in Fd /\ socket[clients[s]] # {}
    BY <1>1, ServingIs
  <2>2. PICK g \in Guest : socket[clients[s]] = {g}
    BY <2>1 DEF RoomInv, SocketsOK
  <2>. QED
    BY <1>1, <2>2
<1>3. /\ thread' \in [Slot -> OpenPlaces \cup {"none", "clear"}]
      /\ \A t \in Slot : thread'[t] = IF t = s THEN "lock" ELSE thread[t]
      /\ SlotsOK' /\ SocketsOK' /\ \A t \in Slot : Listener(t)' = Listener(t)
  BY <1>1, PlaceMoves DEF OpenPlaces
<1>4. /\ message' \in [Slot -> SUBSET Guest]
      /\ \A t \in Slot : message'[t] = IF t = s THEN {g} ELSE message[t]
      /\ unsent' = unsent \ {g}
  BY <1>1, <1>2 DEF RoomInv, RoomTypes
<1>5. RoomTypes'
  BY <1>1, <1>3, <1>4 DEF RoomInv, RoomTypes
<1>6. WritingOK'
  BY <1>1, <1>3, <1>4 DEF RoomInv, WritingOK, Passing
<1>7. OrderOK'
  BY <1>1, <1>2, <1>3, <1>4 DEF RoomInv, OrderOK, Heard
<1>8. SameOrder'
  BY <1>1 DEF RoomInv, SameOrder
<1>9. NobodyMissed'
  BY <1>1, <1>3, <1>4, BodyAt DEF RoomInv, NobodyMissed
<1>. QED
  BY <1>3, <1>5, <1>6, <1>7, <1>8, <1>9 DEF RoomInv

\* The mutex is taken: nobody else is writing, and nobody has heard the message.
LEMMA LockStep ==
  ASSUME RoomInv, NEW s \in Slot, Lock(s)
  PROVE  RoomInv'
<1>1. /\ thread[s] = "lock" /\ Serving(s) /\ holder = Free /\ holder' = s
      /\ thread' = [thread EXCEPT ![s] = "write"]
      /\ next' = [next EXCEPT ![s] = 0]
      /\ UNCHANGED <<clients, clientsCount, server, accepted, endSession, message,
                     socket, guest, unsent, heard, sized, outOfStep>>
  BY DEF Lock, Step, Serving, OpenPlaces, chatMain, guests, streams
<1>2. /\ thread' \in [Slot -> OpenPlaces \cup {"none", "clear"}]
      /\ \A t \in Slot : thread'[t] = IF t = s THEN "write" ELSE thread[t]
      /\ SlotsOK' /\ SocketsOK' /\ \A t \in Slot : Listener(t)' = Listener(t)
  BY <1>1, PlaceMoves DEF OpenPlaces
<1>3. next' \in [Slot -> 0..MAX_CLIENTS] /\ next'[s] = 0
  BY <1>1 DEF RoomInv, RoomTypes
<1>4. \A t \in Slot : thread[t] \notin {"write", "body"}
  BY <1>1, SlotIs DEF RoomInv, WritingOK
<1>5. RoomTypes'
  BY <1>1, <1>2, <1>3 DEF RoomInv, RoomTypes
<1>6. WritingOK'
  BY <1>1, <1>2, <1>4 DEF RoomInv, WritingOK, Passing
<1>7. OrderOK'
  <2>1. ASSUME NEW m \in message[s], NEW g \in Guest  PROVE Newest(m, heard[g])
    BY <1>1, <2>1 DEF RoomInv, OrderOK, Heard, Newest, ToSet
  <2>. QED
    BY <1>1, <1>2, <1>4, <2>1 DEF RoomInv, OrderOK, Heard
<1>8. SameOrder'
  BY <1>1 DEF RoomInv, SameOrder
<1>9. NobodyMissed'
  BY <1>2, <1>3, <1>4, SlotIs DEF NobodyMissed
<1>. QED
  BY <1>2, <1>5, <1>6, <1>7, <1>8, <1>9 DEF RoomInv

\* Whoever holds the mutex is the only writer.
LEMMA OneWriter ==
  ASSUME RoomInv, NEW s \in Slot, thread[s] \in {"write", "body"}
  PROVE  /\ \A t \in Slot : thread[t] \in {"write", "body"} => t = s
         /\ Serving(s) /\ \E m \in Guest : message[s] = {m}
BY DEF RoomInv, WritingOK, Passing, Serving, OpenPlaces

LEMMA SkipFreeStep ==
  ASSUME RoomInv, NEW s \in Slot, SkipFree(s)
  PROVE  RoomInv'
<1>1. /\ thread[s] = "write" /\ clients[next[s]] = Free /\ next[s] < MAX_CLIENTS
      /\ next' = [next EXCEPT ![s] = next[s] + 1]
      /\ UNCHANGED <<clients, clientsCount, holder, server, accepted, endSession, thread,
                     message, socket, guest, unsent, heard, sized, outOfStep>>
  BY DEF SkipFree, Writing, Broadcasting, slots, chatMain, guests, streams
<1>2. next' \in [Slot -> 0..MAX_CLIENTS] /\ next'[s] = next[s] + 1 /\ next[s] \in Nat
  BY <1>1 DEF RoomInv, RoomTypes
<1>3. RoomTypes'
  BY <1>1, <1>2 DEF RoomInv, RoomTypes
<1>4. SlotsOK' /\ WritingOK'
  BY <1>1 DEF RoomInv, SlotsOK, WritingOK, Serving, Passing
<1>5. SocketsOK'
  BY <1>1 DEF RoomInv, SocketsOK, Serving
<1>6. OrderOK' /\ SameOrder'
  BY <1>1, OrderStays
<1>7. NobodyMissed'
  <2>1. \A t \in Slot : t < next'[s] /\ clients[t] # Free => t < next[s]
    BY <1>1, <1>2, SlotIs
  <2>2. \A t \in Slot : Listener(t)' = Listener(t)
    BY <1>1 DEF Listener
  <2>. QED
    BY <1>1, <2>1, <2>2, OneWriter DEF RoomInv, NobodyMissed
<1>. QED
  BY <1>3, <1>4, <1>5, <1>6, <1>7 DEF RoomInv

\* The size is written to whoever is at the other end, so to the listener there.
LEMMA WriteSizeStep ==
  ASSUME RoomInv, NEW s \in Slot, WriteSize(s)
  PROVE  RoomInv'
<1>1. /\ thread[s] = "write" /\ next[s] < MAX_CLIENTS /\ clients[next[s]] # Free
      /\ thread' = [thread EXCEPT ![s] = "body"]
      /\ sized' = [sized EXCEPT ![s] = socket[clients[next[s]]]]
      /\ UNCHANGED <<clients, clientsCount, holder, server, accepted, endSession, next,
                     message, socket, guest, unsent, heard, outOfStep>>
  BY DEF WriteSize, Writing, Broadcasting, Step, slots, chatMain, guests
<1>2. Serving(s) /\ \A t \in Slot : thread[t] \in {"write", "body"} => t = s
  BY <1>1, OneWriter
<1>3. /\ thread' \in [Slot -> OpenPlaces \cup {"none", "clear"}]
      /\ \A t \in Slot : thread'[t] = IF t = s THEN "body" ELSE thread[t]
      /\ SlotsOK' /\ SocketsOK' /\ \A t \in Slot : Listener(t)' = Listener(t)
  BY <1>1, <1>2, PlaceMoves DEF OpenPlaces
<1>4. next[s] \in Slot /\ clients[next[s]] \in Fd
  BY <1>1 DEF RoomInv, RoomTypes, Slot
<1>5. sized' \in [Slot -> SUBSET Guest] /\ sized'[s] = socket[clients[next[s]]]
  <2>1. socket \in [Fd -> SUBSET Guest] /\ sized \in [Slot -> SUBSET Guest]
    BY DEF RoomInv, RoomTypes
  <2>2. socket[clients[next[s]]] \in SUBSET Guest
    BY <1>4, <2>1
  <2>. QED
    BY <1>1, <2>1, <2>2
<1>6. RoomTypes'
  BY <1>1, <1>3, <1>5 DEF RoomInv, RoomTypes
<1>7. WritingOK'
  BY <1>1, <1>2, <1>3 DEF RoomInv, WritingOK, Passing
<1>8. OrderOK' /\ SameOrder'
  BY <1>1, <1>3, OrderStays
<1>9. NobodyMissed'
  <2>1. Listener(next[s])' \subseteq sized'[s]
    BY <1>1, <1>3, <1>4, <1>5 DEF Listener
  <2>2. \A t \in Slot : t < next[s] /\ clients[t] # Free /\ thread'[t] # "clear" =>
           \A g \in Listener(t)' \ outOfStep : message[s] \subseteq ToSet(heard[g])
    BY <1>1, <1>3 DEF RoomInv, NobodyMissed
  <2>. QED
    BY <1>1, <1>2, <1>3, <2>1, <2>2 DEF NobodyMissed
<1>. QED
  BY <1>3, <1>6, <1>7, <1>8, <1>9 DEF RoomInv

\* A message reaches the guest of one more slot, or puts it out of step.
LEMMA WriteBodyStep ==
  ASSUME RoomInv, NEW s \in Slot, WriteBody(s)
  PROVE  RoomInv'
<1>. DEFINE to == socket[clients[next[s]]]
            D == { g \in Guest : /\ g \in to \cap sized[s] /\ guest[g] = "in"
                                 /\ g \notin outOfStep }
<1>1. /\ thread[s] = "body" /\ next[s] < MAX_CLIENTS
      /\ thread' = [thread EXCEPT ![s] = "write"]
      /\ next' = [next EXCEPT ![s] = next[s] + 1]
      /\ heard' = [g \in Guest |-> IF /\ g \in to \cap sized[s] /\ guest[g] = "in"
                                       /\ g \notin outOfStep
                                    THEN heard[g] \o SetToSeq(message[s])
                                    ELSE heard[g]]
      /\ outOfStep' = outOfStep \cup (to \ sized[s])
      /\ sized' = [sized EXCEPT ![s] = {}]
      /\ UNCHANGED <<clients, clientsCount, holder, server, accepted, endSession,
                     message, socket, guest, unsent>>
  BY DEF WriteBody, Broadcasting, Step, slots, chatMain
<1>2. /\ Serving(s) /\ \A t \in Slot : thread[t] \in {"write", "body"} => t = s
  BY <1>1, OneWriter
<1>3. PICK m \in Guest : message[s] = {m}
  BY <1>1, OneWriter
<1>4. /\ next' \in [Slot -> 0..MAX_CLIENTS] /\ next'[s] = next[s] + 1 /\ next[s] \in Nat
      /\ next[s] \in Slot /\ to \subseteq Guest
      /\ sized' \in [Slot -> SUBSET Guest]
  <2>1. next[s] \in Slot /\ clients[next[s]] \in Fd
    BY <1>1, BodyAt
  <2>2. /\ socket \in [Fd -> SUBSET Guest] /\ sized \in [Slot -> SUBSET Guest]
        /\ next \in [Slot -> 0..MAX_CLIENTS]
    BY DEF RoomInv, RoomTypes
  <2>3. to \in SUBSET Guest
    BY <2>1, <2>2
  <2>4. sized' \in [Slot -> SUBSET Guest]
    BY <1>1, <2>2
  <2>5. next' \in [Slot -> 0..MAX_CLIENTS] /\ next'[s] = next[s] + 1 /\ next[s] \in Nat
    BY <1>1, <2>2
  <2>. QED
    BY <2>1, <2>3, <2>4, <2>5
<1>5. heard' = [g \in Guest |-> IF g \in D THEN Append(heard[g], m) ELSE heard[g]]
  <2>1. \A g \in Guest : heard[g] \in Seq(Guest)
    BY DEF RoomInv, RoomTypes
  <2>2. \A g \in Guest : heard[g] \o SetToSeq(message[s]) = Append(heard[g], m)
    BY <1>3, <2>1, HearIs
  <2>. QED
    BY <1>1, <2>2
<1>6. /\ SameOrder' /\ heard' \in [Guest -> Seq(Guest)]
      /\ \A g \in Guest : Newest(m, heard'[g])
      /\ \A g \in Guest : ToSet(heard'[g]) = IF g \in D THEN ToSet(heard[g]) \cup {m}
                                              ELSE ToSet(heard[g])
  <2>1. \A g \in Guest : Newest(m, heard[g])
    BY <1>1, <1>3 DEF RoomInv, OrderOK
  <2>2. SameOrder /\ heard \in [Guest -> Seq(Guest)]
    BY DEF RoomInv, RoomTypes
  <2>. HIDE DEF D
  <2>. QED
    BY <1>5, <2>1, <2>2, HearingKeepsOrder
<1>7. /\ thread' \in [Slot -> OpenPlaces \cup {"none", "clear"}]
      /\ \A t \in Slot : thread'[t] = IF t = s THEN "write" ELSE thread[t]
      /\ SlotsOK' /\ SocketsOK' /\ \A t \in Slot : Listener(t)' = Listener(t)
  BY <1>1, <1>2, PlaceMoves DEF OpenPlaces
<1>8. RoomTypes'
  BY <1>1, <1>4, <1>6, <1>7 DEF RoomInv, RoomTypes
<1>9. WritingOK'
  BY <1>1, <1>2, <1>7 DEF RoomInv, WritingOK, Passing
<1>10. OrderOK'
  <2>1. \A x : x # m /\ ~Heard(x) => ~Heard(x)'
    BY <1>6 DEF Heard
  <2>2. \A x \in unsent : x # m
    BY <1>3 DEF RoomInv, OrderOK
  <2>3. \A t \in Slot : thread[t] = "lock" => \A x \in message[t] : x # m
    BY <1>1, <1>3 DEF RoomInv, OrderOK
  <2>4. \A t \in Slot : thread[t] \in {"write", "body"} =>
           \A x \in message[t], g \in Guest : Newest(x, heard'[g])
    BY <1>2, <1>3, <1>6
  <2>. HIDE DEF D
  <2>5. \A x \in unsent : ~Heard(x)' /\ \A t \in Slot : x \notin message[t]
    BY <2>1, <2>2 DEF RoomInv, OrderOK
  <2>6. \A t \in Slot : thread[t] = "lock" => \A x \in message[t] : ~Heard(x)'
    BY <2>1, <2>3 DEF RoomInv, OrderOK
  <2>7. \A t, u \in Slot : t # u => message[t] \cap message[u] = {}
    BY DEF RoomInv, OrderOK
  <2>. QED
    BY <1>1, <1>2, <1>7, <2>4, <2>5, <2>6, <2>7 DEF OrderOK
<1>11. NobodyMissed'
  <2>1. ASSUME NEW t \in Slot, t < next[s] + 1, clients[t] # Free, thread[t] # "clear",
               NEW g \in Listener(t), g \notin outOfStep'
        PROVE  message[s] \subseteq ToSet(heard'[g])
    <3>1. clients[t] \in Fd /\ g \in Guest /\ g \in socket[clients[t]] /\ guest[g] = "in"
      BY <2>1, ServingIs DEF Listener, RoomInv, RoomTypes
    <3>2. CASE t = next[s]
      <4>1. g \in D
        BY <1>1, <2>1, <3>1, <3>2
      <4>. QED
        BY <1>3, <1>6, <3>1, <4>1
    <3>3. CASE t < next[s]
      <4>1. message[s] \subseteq ToSet(heard[g])
        BY <1>1, <2>1, <3>3 DEF RoomInv, NobodyMissed
      <4>. QED
        BY <1>3, <1>6, <3>1, <4>1
    <3>. QED
      BY <1>4, <2>1, <3>2, <3>3, SlotIs
  <2>. HIDE DEF D
  <2>2. ASSUME NEW t \in Slot, t < next'[s], clients'[t] # Free, thread'[t] # "clear",
               NEW g \in Listener(t)' \ outOfStep'
        PROVE  message'[s] \subseteq ToSet(heard'[g])
    <3>1. thread[t] # "clear" /\ Listener(t)' = Listener(t) /\ clients[t] # Free
      BY <1>1, <1>7, <2>2
    <3>. QED
      BY <1>1, <1>4, <2>1, <2>2, <3>1
  <2>3. \A t \in Slot : thread'[t] \in {"write", "body"} => t = s /\ thread'[t] # "body"
    BY <1>2, <1>7
  <2>. QED
    BY <2>2, <2>3 DEF NobodyMissed
<1>. QED
  BY <1>6, <1>7, <1>8, <1>9, <1>10, <1>11 DEF RoomInv

\* SIGPIPE, at a write to a guest that has left.
LEMMA BrokenPipeStep ==
  ASSUME RoomInv, NEW s \in Slot, BrokenPipe(s)
  PROVE  RoomInv'
<1>1. /\ server' = "killed"
      /\ UNCHANGED <<clients, clientsCount, holder, accepted, endSession, thread, next,
                     message, socket, guest, unsent, heard, sized, outOfStep>>
  BY DEF BrokenPipe, slots, threads, guests, streams
<1>2. RoomTypes'
  BY <1>1 DEF RoomInv, RoomTypes
<1>3. SlotsOK' /\ WritingOK'
  BY <1>1 DEF RoomInv, SlotsOK, WritingOK, Serving, Passing
<1>4. SocketsOK'
  BY <1>1 DEF RoomInv, SocketsOK, Serving
<1>5. OrderOK' /\ SameOrder'
  BY <1>1, OrderStays
<1>6. NobodyMissed'
  BY <1>1 DEF RoomInv, NobodyMissed, Listener
<1>. QED
  BY <1>2, <1>3, <1>4, <1>5, <1>6 DEF RoomInv

\* The message has been passed on, and the mutex is released.
LEMMA UnlockStep ==
  ASSUME RoomInv, NEW s \in Slot, Unlock(s)
  PROVE  RoomInv'
<1>1. /\ thread[s] = "write"
      /\ thread' = [thread EXCEPT ![s] = "while"]
      /\ message' = [message EXCEPT ![s] = {}]
      /\ holder' = Free
      /\ UNCHANGED <<clients, clientsCount, server, accepted, endSession, next, socket,
                     guest, unsent, heard, sized, outOfStep>>
  BY DEF Unlock, Step, chatMain, guests, streams
<1>2. Serving(s) /\ \A t \in Slot : thread[t] \in {"write", "body"} => t = s
  BY <1>1, OneWriter
<1>3. /\ thread' \in [Slot -> OpenPlaces \cup {"none", "clear"}]
      /\ \A t \in Slot : thread'[t] = IF t = s THEN "while" ELSE thread[t]
      /\ SlotsOK' /\ SocketsOK' /\ \A t \in Slot : Listener(t)' = Listener(t)
  BY <1>1, <1>2, PlaceMoves DEF OpenPlaces
<1>4. /\ message' \in [Slot -> SUBSET Guest]
      /\ \A t \in Slot : message'[t] = IF t = s THEN {} ELSE message[t]
  BY <1>1 DEF RoomInv, RoomTypes
<1>5. RoomTypes'
  BY <1>1, <1>3, <1>4 DEF RoomInv, RoomTypes
<1>6. WritingOK'
  BY <1>2, <1>3, <1>4 DEF RoomInv, WritingOK, Passing
<1>7. OrderOK'
  BY <1>1, <1>2, <1>3, <1>4 DEF RoomInv, OrderOK, Heard
<1>8. SameOrder'
  BY <1>1 DEF RoomInv, SameOrder
<1>9. NobodyMissed'
  BY <1>2, <1>3 DEF NobodyMissed
<1>. QED
  BY <1>3, <1>5, <1>6, <1>7, <1>8, <1>9 DEF RoomInv

\* The socket is closed before the slot is cleared: from here on, the slot holds
\* a number that serves nobody.
LEMMA CloseStep ==
  ASSUME RoomInv, NEW s \in Slot, Close(s)
  PROVE  RoomInv'
<1>1. /\ thread[s] = "close" /\ Serving(s)
      /\ thread' = [thread EXCEPT ![s] = "clear"]
      /\ socket' = [socket EXCEPT ![clients[s]] = {}]
      /\ UNCHANGED <<clients, clientsCount, holder, server, accepted, endSession, next,
                     message, guest, unsent, heard, sized, outOfStep>>
  BY DEF Close, Step, Serving, OpenPlaces, slots, chatMain, guests, streams
<1>2. clients[s] \in Fd
  BY <1>1, ServingIs
<1>3. /\ thread' \in [Slot -> OpenPlaces \cup {"none", "clear"}]
      /\ \A t \in Slot : thread'[t] = IF t = s THEN "clear" ELSE thread[t]
      /\ socket' \in [Fd -> SUBSET Guest]
      /\ \A f \in Fd : socket'[f] = IF f = clients[s] THEN {} ELSE socket[f]
  BY <1>1, <1>2 DEF RoomInv, RoomTypes
<1>4. \A t \in Slot : Serving(t)' <=> t # s /\ Serving(t)
  BY <1>3 DEF Serving, OpenPlaces
<1>5. \A t \in Slot : Serving(t)' => clients[t] # clients[s] /\ clients[t] \in Fd
  BY <1>1, <1>4, ServingIs DEF RoomInv, SlotsOK
<1>6. accepted # clients[s]
  BY <1>1 DEF RoomInv, SlotsOK
<1>7. RoomTypes'
  BY <1>1, <1>3 DEF RoomInv, RoomTypes
<1>8. SlotsOK'
  BY <1>1, <1>3, <1>4 DEF RoomInv, SlotsOK
<1>9. SocketsOK'
  <2>1. \A f \in Fd : socket'[f] # {} => f # clients[s] /\ socket'[f] = socket[f]
    BY <1>3
  <2>2. \A f \in Fd : socket'[f] = {} \/ \E g \in Guest : socket'[f] = {g}
    BY <2>1 DEF RoomInv, SocketsOK
  <2>3. \A f \in Fd : \A g \in socket'[f] : guest'[g] \in {"in", "left"}
    BY <1>1, <2>1 DEF RoomInv, SocketsOK
  <2>4. \A f \in Fd : socket'[f] # {} =>
           f = accepted' \/ \E t \in Slot : Serving(t)' /\ clients'[t] = f
    BY <1>1, <1>4, <2>1 DEF RoomInv, SocketsOK
  <2>5. \A t \in Slot : Serving(t)' => socket'[clients[t]] = socket[clients[t]]
    BY <1>3, <1>5
  <2>6. server' \in {"accept", "join", "cleanup"} =>
           \A t \in Slot : Serving(t)' => socket'[clients'[t]] # {}
    BY <1>1, <1>4, <2>5 DEF RoomInv, SocketsOK
  <2>7. server' = "join" => accepted' # Free /\ socket'[accepted'] # {}
    BY <1>1, <1>3, <1>6 DEF RoomInv, RoomTypes, SocketsOK
  <2>8. server' \in {"accept", "cleanup"} => accepted' = Free
    BY <1>1 DEF RoomInv, SocketsOK
  <2>. QED
    BY <2>2, <2>3, <2>4, <2>6, <2>7, <2>8 DEF SocketsOK
<1>10. WritingOK'
  BY <1>1, <1>3 DEF RoomInv, WritingOK, Passing
<1>11. OrderOK' /\ SameOrder'
  BY <1>1, <1>3, OrderStays
<1>12. NobodyMissed'
  <2>1. ASSUME NEW t \in Slot, clients[t] # Free, thread'[t] # "clear"
        PROVE  thread[t] # "clear" /\ Listener(t)' \subseteq Listener(t)
    <3>1. thread[t] # "clear"
      BY <1>3, <2>1
    <3>2. clients[t] \in Fd
      BY <2>1, <3>1, ServingIs
    <3>. QED
      BY <1>1, <1>3, <3>1, <3>2 DEF Listener
  <2>. QED
    BY <1>1, <1>3, <1>10, <2>1, MissedStays
<1>. QED
  BY <1>7, <1>8, <1>9, <1>10, <1>11, <1>12 DEF RoomInv

\* The slot is cleared under the mutex, so between two broadcasts.
LEMMA ClearStep ==
  ASSUME RoomInv, NEW s \in Slot, Clear(s)
  PROVE  RoomInv'
<1>1. /\ thread[s] = "clear" /\ holder = Free
      /\ thread' = [thread EXCEPT ![s] = "none"]
      /\ clients' = [clients EXCEPT ![s] = Free]
      /\ clientsCount' = clientsCount - 1
      /\ UNCHANGED <<holder, server, accepted, endSession, next, message, socket, guest,
                     unsent, heard, sized, outOfStep>>
  BY DEF Clear, Step, chatMain, guests, streams
<1>2. /\ thread' \in [Slot -> OpenPlaces \cup {"none", "clear"}]
      /\ \A t \in Slot : thread'[t] = IF t = s THEN "none" ELSE thread[t]
      /\ clients' \in [Slot -> Fd \cup {Free}]
      /\ \A t \in Slot : clients'[t] = IF t = s THEN Free ELSE clients[t]
  BY <1>1 DEF RoomInv, RoomTypes
<1>3. \A t \in Slot : Serving(t)' <=> Serving(t)
  BY <1>1, <1>2 DEF Serving, OpenPlaces
<1>4. ~Serving(s) /\ clients[s] # Free
  BY <1>1 DEF RoomInv, SlotsOK, Serving, OpenPlaces
<1>5. \A t \in Slot : Serving(t) => clients'[t] = clients[t]
  BY <1>2, <1>4
<1>6. \A t \in Slot : thread[t] \notin {"write", "body"}
  BY <1>1, SlotIs DEF RoomInv, WritingOK
<1>7. clientsCount' = Cardinality({ t \in Slot : clients'[t] # Free })
  <2>. DEFINE occupied == { t \in Slot : clients[t] # Free }
  <2>1. { t \in Slot : clients'[t] # Free } = occupied \ {s} /\ s \in occupied
    BY <1>2, <1>4
  <2>2. IsFiniteSet(occupied)
    BY SlotIs, FS_Subset
  <2>3. Cardinality(occupied \ {s}) = Cardinality(occupied) - 1
    BY <2>1, <2>2, FS_RemoveElement
  <2>. QED
    BY <1>1, <2>1, <2>3 DEF RoomInv, RoomTypes
<1>8. RoomTypes'
  BY <1>1, <1>2, <1>7 DEF RoomInv, RoomTypes
<1>9. SlotsOK'
  BY <1>1, <1>2, <1>3, <1>5 DEF RoomInv, SlotsOK
<1>10. SocketsOK'
  BY <1>1, <1>3, <1>5 DEF RoomInv, SocketsOK
<1>11. WritingOK'
  BY <1>1, <1>2, <1>6 DEF RoomInv, WritingOK, Passing
<1>12. OrderOK' /\ SameOrder'
  BY <1>1, <1>2, OrderStays
<1>13. NobodyMissed'
  BY <1>2, <1>6 DEF NobodyMissed
<1>. QED
  BY <1>8, <1>9, <1>10, <1>11, <1>12, <1>13 DEF RoomInv

\* Guests come and go.
LEMMA GuestSteps ==
  ASSUME RoomInv, NEW g \in Guest, Connect(g) \/ Leave(g)
  PROVE  RoomInv'
<1>1. /\ \/ guest[g] = "out" /\ guest' = [guest EXCEPT ![g] = "waiting"]
         \/ guest[g] = "in" /\ guest' = [guest EXCEPT ![g] = "left"]
      /\ unsent' \subseteq unsent
      /\ UNCHANGED <<clients, clientsCount, holder, server, accepted, endSession, thread,
                     next, message, socket, heard, sized, outOfStep>>
  BY DEF Connect, Leave, slots, chatMain, threads, streams
<1>2. /\ guest' \in [Guest -> {"out", "waiting", "in", "left"}]
      /\ \A h \in Guest : guest'[h] = "in" => guest[h] = "in"
      /\ \A h \in Guest : guest[h] \in {"in", "left"} => guest'[h] \in {"in", "left"}
  <2>1. guest \in [Guest -> {"out", "waiting", "in", "left"}]
    BY DEF RoomInv, RoomTypes
  <2>2. CASE guest[g] = "out" /\ guest' = [guest EXCEPT ![g] = "waiting"]
    BY <2>1, <2>2
  <2>3. CASE guest[g] = "in" /\ guest' = [guest EXCEPT ![g] = "left"]
    BY <2>1, <2>3
  <2>. QED
    BY <1>1, <2>2, <2>3
<1>3. RoomTypes'
  BY <1>1, <1>2 DEF RoomInv, RoomTypes
<1>4. SlotsOK' /\ WritingOK'
  BY <1>1 DEF RoomInv, SlotsOK, WritingOK, Serving, Passing
<1>5. SocketsOK'
  <2>1. \A f \in Fd : \A h \in socket'[f] : guest'[h] \in {"in", "left"}
    BY <1>1, <1>2 DEF RoomInv, RoomTypes, SocketsOK
  <2>. QED
    BY <1>1, <2>1 DEF RoomInv, SocketsOK, Serving
<1>6. OrderOK' /\ SameOrder'
  BY <1>1, OrderStays
<1>7. NobodyMissed'
  <2>1. ASSUME NEW t \in Slot, clients[t] # Free, thread[t] # "clear"
        PROVE  Listener(t)' \subseteq Listener(t)
    <3>1. clients[t] \in Fd
      BY <2>1, ServingIs
    <3>. QED
      BY <1>1, <1>2, <3>1 DEF Listener, RoomInv, RoomTypes
  <2>. QED
    BY <1>1, <1>4, <2>1, MissedStays
<1>. QED
  BY <1>3, <1>4, <1>5, <1>6, <1>7 DEF RoomInv

-----------------------------------------------------------------------------
LEMMA RoomStarts == ChatInit => RoomInv
<1>. SUFFICES ASSUME ChatInit  PROVE RoomInv
  OBVIOUS
<1>1. RoomTypes
  <2>1. { s \in Slot : clients[s] # Free } = {}
    BY DEF ChatInit
  <2>2. clientsCount = Cardinality({ s \in Slot : clients[s] # Free })
    BY <2>1, FS_EmptySet DEF ChatInit
  <2>3. unsent \subseteq Guest
    BY DEF ChatInit
  <2>4. /\ next \in [Slot -> 0..MAX_CLIENTS] /\ clients \in [Slot -> Fd \cup {Free}]
        /\ message \in [Slot -> SUBSET Guest] /\ socket \in [Fd -> SUBSET Guest]
    BY DEF ChatInit
  <2>5. /\ thread \in [Slot -> OpenPlaces \cup {"none", "clear"}]
        /\ guest \in [Guest -> {"out", "waiting", "in", "left"}]
    BY DEF ChatInit
  <2>7. sized \in [Slot -> SUBSET Guest] /\ outOfStep \subseteq Guest
    BY DEF ChatInit
  <2>6. heard \in [Guest -> Seq(Guest)]
    <3>1. <<>> \in Seq(Guest)
      OBVIOUS
    <3>. QED
      BY <3>1 DEF ChatInit
  <2>. QED
    BY <2>2, <2>3, <2>4, <2>5, <2>6, <2>7 DEF ChatInit, RoomTypes
<1>2. SlotsOK /\ SocketsOK /\ WritingOK
  BY DEF ChatInit, SlotsOK, SocketsOK, WritingOK, Serving, Passing, OpenPlaces
<1>3. OrderOK /\ SameOrder
  <2>1. \A g \in Guest : heard[g] = <<>> /\ DOMAIN heard[g] = {}
    BY DEF ChatInit
  <2>2. \A m : ~Heard(m)
    BY <2>1 DEF Heard, ToSet
  <2>. QED
    BY <2>1, <2>2 DEF ChatInit, OrderOK, SameOrder, InOrder
<1>4. NobodyMissed
  BY DEF ChatInit, NobodyMissed
<1>. QED
  BY <1>1, <1>2, <1>3, <1>4 DEF RoomInv

LEMMA RoomSteps == RoomInv /\ [ChatNext]_chatVars => RoomInv'
<1>. SUFFICES ASSUME RoomInv, [ChatNext]_chatVars  PROVE RoomInv'
  OBVIOUS
<1>1. CASE RunServer
  BY <1>1, AcceptStep, JoinStep, RefuseStep, EndSteps DEF RunServer
<1>2. CASE CloseServer
  BY <1>2, EndSteps
<1>3. ASSUME NEW s \in Slot, ProcessClient(s)  PROVE RoomInv'
  <2>1. CASE Read(s) \/ StopReading(s) \/ EndOfFile(s)
    BY <2>1, ReadingSteps
  <2>2. CASE Receive(s)
    BY <2>2, ReceiveStep
  <2>3. CASE Lock(s) \/ Unlock(s)
    BY <2>3, LockStep, UnlockStep
  <2>4. CASE SkipFree(s) \/ WriteSize(s) \/ WriteBody(s) \/ BrokenPipe(s)
    BY <2>4, SkipFreeStep, WriteSizeStep, WriteBodyStep, BrokenPipeStep
  <2>5. CASE Close(s) \/ Clear(s)
    BY <2>5, CloseStep, ClearStep
  <2>. QED
    BY <1>3, <2>1, <2>2, <2>3, <2>4, <2>5 DEF ProcessClient
<1>4. ASSUME NEW g \in Guest, Connect(g) \/ Leave(g)  PROVE RoomInv'
  BY <1>4, GuestSteps
<1>5. CASE UNCHANGED chatVars
  <2>1. UNCHANGED <<clients, clientsCount, holder, server, accepted, endSession, thread,
                    next, message, socket, guest, unsent, heard, sized, outOfStep>>
    BY <1>5 DEF chatVars, slots, chatMain, threads, guests, streams
  <2>2. RoomTypes'
    BY <2>1 DEF RoomInv, RoomTypes
  <2>3. SlotsOK' /\ WritingOK'
    BY <2>1 DEF RoomInv, SlotsOK, WritingOK, Serving, Passing
  <2>4. SocketsOK'
    BY <2>1 DEF RoomInv, SocketsOK, Serving
  <2>5. OrderOK' /\ SameOrder'
    BY <2>1, OrderStays
  <2>6. NobodyMissed'
    BY <2>1 DEF RoomInv, NobodyMissed, Listener
  <2>. QED
    BY <2>2, <2>3, <2>4, <2>5, <2>6 DEF RoomInv
<1>. QED
  BY <1>1, <1>2, <1>3, <1>4, <1>5 DEF ChatNext

LEMMA RoomAlways == ChatSpec => []RoomInv
BY RoomStarts, RoomSteps, PTL DEF ChatSpec

\* server.c: whoever listens, two messages of different guests are heard in one
\* order: write_to_clients keeps the mutex until everybody has the message.
THEOREM ChatRoomSameOrder == ChatSpec => []SameOrder
<1>1. RoomInv => SameOrder
  BY DEF RoomInv
<1>. QED
  BY <1>1, RoomAlways, PTL

\* server.c: the loop of write_to_clients misses no guest whose slot it passes and
\* whose stream is in step, and puts nobody out of step whose thread has not
\* closed its socket, though slots are cleared and given away, and numbers
\* reused, meanwhile, between the size of a message and its bytes too.
THEOREM ChatRoomNobodyMissed == ChatSpec => []NobodyMissed
<1>1. RoomInv => NobodyMissed
  BY DEF RoomInv
<1>. QED
  BY <1>1, RoomAlways, PTL
===============================================================================
