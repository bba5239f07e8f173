--------------------------------- MODULE Shell ---------------------------------
(***************************************************************************)
(* shell/shell.c: a shell, the processes that it starts, and SIGINT, which *)
(* reaches the shell between any two steps.  A child first runs the        *)
(* shell's own code, in a copy of its memory, until execvp; a program that *)
(* was executed dies from SIGINT.                                          *)
(*                                                                         *)
(* A simple command is [word, rest]: rest says whether it ends with an &,  *)
(* which stands for all that follows its first word.  A line has one       *)
(* command or, around an operator, two; ">" stands for >, >> and <.        *)
(***************************************************************************)
EXTENDS Naturals, Sequences, SequencesExt

CONSTANTS Process,      \* pids, which are used again after a process is reaped
          Lines,        \* the lines typed, or read with -f
          MaxLines,     \* bound: how many of them
          Histories,    \* what the file given with -h may hold
          MaxNested,    \* bound: pending steps at which the stack overflows
          NoProcess

VARIABLES pc,
          read,         \* lines read
          todo,         \* what is left of command_exec, the innermost call first
          ret_fork,
          history_command, add_history,
          listed,       \* pids in vec_information, without the shell's
          new_fore_p,   \* the pid in it
          child,        \* the process forked last
          proc,         \* state of each process
          inherited,    \* per child: what it holds of the shell's memory
          file,         \* the lines in the history file
          saves,        \* -h is given
          leads         \* the shell leads its process group

command    == <<read, todo, ret_fork>>
remembered == <<history_command, add_history>>
tracked    == <<listed, new_fore_p, child>>
children   == <<proc, inherited>>
disk       == <<file, saves>>
shellVars  == <<pc, command, remembered, tracked, children, disk, leads>>

\* Option -h: the history begins with the lines of the file.
ShellH == IF saves THEN file ELSE <<>>

ShellInit == /\ pc = "prompt"
             /\ read = 0 /\ todo = <<>> /\ ret_fork = 0
             /\ file \in Histories \cup {<<>>} /\ saves \in BOOLEAN
             /\ history_command = ShellH
             /\ add_history = FALSE
             /\ listed = {} /\ new_fore_p = NoProcess /\ child = NoProcess
             /\ proc = [p \in Process |-> "none"]
             /\ inherited = [p \in Process |-> <<>>]
             /\ leads \in BOOLEAN

Alive  == { p \in Process : proc[p] \in {"born", "writing", "running"} }
Zombie == { p \in Process : proc[p] \in {"ok", "failed", "killed"} }

Killed(P) == [p \in Process |-> IF p \in P \cap Alive THEN "killed" ELSE proc[p]]
Reaped(P) == [p \in Process |-> IF p \in P THEN "none" ELSE proc[p]]

\* strtok leaves of a line its first word, unless it worked on copies.
Tokenized(l) == IF l.op = "none" THEN [l EXCEPT !.first.rest = FALSE] ELSE l

\* What command_exec does with a line, in order.
Steps(l) ==
  LET first  == [do |-> "first", cmd |-> l.first]
      second == [do |-> "second", cmd |-> l.second, op |-> l.op]
      store  == [do |-> "store", line |-> Tokenized(l)]
  IN  CASE l.op = "none" -> <<first, store>>
        [] l.op = ">"    -> <<[do |-> "open"], first, [do |-> "keep"], store>>
        [] OTHER         -> <<first, second, store>>

-----------------------------------------------------------------------------
\* Each line starts with waitpid for any child; besides those of the model the
\* shell has those of popen, so that it may reap none of these.
ReadLine(l) == /\ pc = "prompt" /\ read < MaxLines
               /\ read' = read + 1
               /\ \E P \in { {p} : p \in Zombie } \cup {{}} : proc' = Reaped(P)
               /\ todo' = Steps(l) /\ ret_fork' = 0
               /\ pc' = "exec"
               /\ UNCHANGED <<remembered, tracked, inherited, disk, leads>>

\* The input ends, or the working directory is gone.
EndOfInput == /\ pc = "prompt" /\ pc' = "exit"
              /\ UNCHANGED <<command, remembered, tracked, children, disk, leads>>

LineDone == /\ pc = "exec" /\ todo = <<>> /\ pc' = "prompt"
            /\ UNCHANGED <<command, remembered, tracked, children, disk, leads>>

At(do) == pc = "exec" /\ todo # <<>> /\ Head(todo).do = do

Rest == /\ todo' = Tail(todo)
        /\ UNCHANGED <<pc, read, ret_fork, tracked, children, disk, leads>>

\* The file of a redirection: when it cannot be opened, command_exec returns.
\* Where it was called again, its own second command, the file name, is left.
Open == At("open") /\ Rest /\ UNCHANGED remembered

OpenFails ==
  LET left == SubSeq(todo, 5, Len(todo))
      name == [word |-> "run", rest |-> FALSE]
  IN  /\ At("open")
      /\ todo' = IF Len(left) > 1 /\ left[2].do = "second"
                 THEN [left EXCEPT ![2].cmd = name] ELSE left
      /\ UNCHANGED <<pc, read, ret_fork, remembered, tracked, children, disk, leads>>

Keep == At("keep") /\ Rest /\ add_history' = TRUE /\ UNCHANGED history_command

Store == /\ At("store") /\ Rest
         /\ history_command' = IF add_history THEN Append(history_command, Head(todo).line)
                               ELSE history_command
         /\ UNCHANGED add_history

\* After a recalled line.
Forget == At("forget") /\ Rest /\ add_history' = FALSE /\ UNCHANGED history_command

\* ret_fork is 0 unless the first command was executed and failed.
Chosen == \/ At("first")
          \/ At("second") /\ CASE Head(todo).op = "&&" -> ret_fork = 0
                               [] Head(todo).op = "||" -> ret_fork = 1
                               [] OTHER                -> TRUE

Skip == At("second") /\ ~Chosen /\ Rest /\ UNCHANGED remembered

Runs(word) == Chosen /\ Head(todo).cmd.word = word

\* cd, also when it fails.
Cd == Runs("cd") /\ Rest /\ add_history' = TRUE /\ UNCHANGED history_command

\* An empty line, or # alone: add_history has its old value.
Nothing == (Runs("") \/ Runs("!")) /\ Rest /\ UNCHANGED remembered

\* What /proc knows stays in the list.
RewriteInformation == listed' = { p \in listed : proc[p] # "none" }

Ps == /\ Runs("ps")
      /\ todo' = Tail(todo)
      /\ add_history' = TRUE
      /\ RewriteInformation
      /\ UNCHANGED <<pc, read, ret_fork, history_command, new_fore_p, child,
                     children, disk, leads>>

Exit == /\ Runs("exit") /\ pc' = "exit"
        /\ add_history' = FALSE
        /\ UNCHANGED <<command, history_command, tracked, children, disk, leads>>

-----------------------------------------------------------------------------
\* A line that recalls another one calls command_exec again, which frees the
\* second command.  It is still tried (not after ||, ret_fork being 0), as NULL.
Lost(steps) ==
  IF steps = <<>> \/ Head(steps).do # "second" THEN steps
  ELSE IF Head(steps).op = "||" THEN Tail(steps)
  ELSE <<[do |-> "second", cmd |-> [word |-> "NULL", rest |-> FALSE], op |-> ";"]>>
         \o Tail(steps)

\* #n, ! and !prefix: a line of the history is executed, and cut at its place.
Recall(i) == /\ Runs("!") /\ i \in DOMAIN history_command
             /\ Len(todo) < MaxNested
             /\ todo' = Steps(history_command[i]) \o <<[do |-> "forget"]>>
                          \o Lost(Tail(todo))
             /\ ret_fork' = 0
             /\ history_command' = [history_command EXCEPT ![i] = Tokenized(@)]
             /\ UNCHANGED <<pc, read, add_history, tracked, children, disk, leads>>

\* No such line, and !history.
NoMatch == Runs("!") /\ Rest /\ add_history' = FALSE /\ UNCHANGED history_command

\* A NULL second command is read, the line recalls itself for ever, or there is no
\* last line: vector_get asserts that there is one.
ShellCrashes == /\ \/ Runs("NULL")
                   \/ Runs("!") /\ history_command = <<>>
                   \/ Runs("!") /\ Len(todo) >= MaxNested
                /\ pc' = "crashed"
                /\ UNCHANGED <<command, remembered, tracked, children, disk, leads>>

-----------------------------------------------------------------------------
\* make_fork.
Fork(p) == /\ Runs("run") /\ proc[p] = "none"
           /\ proc' = [proc EXCEPT ![p] = "born"]
           /\ inherited' = [inherited EXCEPT ![p] =
                              [lines |-> history_command, listed |-> listed,
                               background |-> Head(todo).cmd.rest]]
           /\ child' = p
           /\ pc' = "forked"
           /\ UNCHANGED <<command, remembered, listed, new_fore_p, disk, leads>>

ForkFails == /\ Runs("run") /\ pc' = "exit"
             /\ UNCHANGED <<command, remembered, tracked, children, disk, leads>>

\* Fault: only foreground processes are listed.
WriteForeground == /\ pc = "forked"
                   /\ listed' = IF inherited[child].background THEN listed
                                ELSE listed \cup {child}
                   /\ pc' = IF inherited[child].background THEN "background" ELSE "build"
                   /\ UNCHANGED <<command, remembered, new_fore_p, child, children, disk,
                                  leads>>

\* The child is not reaped yet, so that /proc knows it.
WriteInformation == /\ pc = "forked"
                    /\ listed' = listed \cup {child}
                    /\ pc' = IF inherited[child].background THEN "background" ELSE "build"
                    /\ UNCHANGED <<command, remembered, new_fore_p, child, children, disk,
                                  leads>>

\* build_fore_p: for a while the record exists and has no pid.
BuildForeP == /\ pc = "build" /\ pc' = "building"
              /\ new_fore_p' = child
              /\ UNCHANGED <<command, remembered, listed, child, children, disk, leads>>

Built == /\ pc = "building" /\ pc' = "wait"
         /\ add_history' = TRUE
         /\ UNCHANGED <<command, history_command, tracked, children, disk, leads>>

\* run_parent with WNOHANG.
LeaveRunning == /\ pc = "background" /\ pc' = "exec"
                /\ add_history' = TRUE
                /\ todo' = Tail(todo) /\ ret_fork' = 0
                /\ proc' = Reaped({child} \cap Zombie)
                /\ UNCHANGED <<read, history_command, tracked, inherited, disk, leads>>

\* A child that was killed counts as a success.
Wait == /\ pc = "wait" /\ child \in Zombie
        /\ proc' = Reaped({child})
        /\ ret_fork' = IF proc[child] = "failed" THEN 1 ELSE 0
        /\ todo' = Tail(todo)
        /\ pc' = "free"
        /\ UNCHANGED <<read, remembered, tracked, inherited, disk, leads>>

\* free_foreground_process: for a while the record is freed and not yet NULL.
FreeForeground == /\ pc = "free"
                  /\ pc' = IF new_fore_p = NoProcess THEN "exec" ELSE "freeing"
                  /\ UNCHANGED <<command, remembered, tracked, children, disk, leads>>

Freed == /\ pc = "freeing" /\ pc' = "exec"
         /\ new_fore_p' = NoProcess
         /\ UNCHANGED <<command, remembered, listed, child, children, disk, leads>>

Up == pc \notin {"exited", "crashed", "killed"}

\* sig_handler.  A record without a pid, or freed before, is freed: the shell
\* aborts, and who is sent a SIGINT in the first case is anyone's guess.
Interrupt == /\ Up /\ new_fore_p # NoProcess
             /\ IF pc \in {"building", "freeing"}
                THEN /\ pc' = "crashed"
                     /\ \E P \in SUBSET { p \in Process : proc[p] = "running" } :
                          proc' = Killed(P)
                     /\ UNCHANGED new_fore_p
                ELSE /\ proc' = Killed({ p \in {new_fore_p} : proc[p] = "running" })
                     /\ new_fore_p' = NoProcess
                     /\ UNCHANGED pc
             /\ UNCHANGED <<command, remembered, listed, child, inherited, disk, leads>>

-----------------------------------------------------------------------------
\* shell_destroy opens the history file, which empties it, and writes it.
Written(lines) == IF saves THEN lines ELSE file

ProcessesKill == /\ pc = "exit"
                 /\ proc' = Killed(listed)
                 /\ pc' = "destroy"
                 /\ UNCHANGED <<command, remembered, tracked, inherited, disk, leads>>

ShellDestroy == /\ pc = "destroy"
                /\ file' = Written(history_command)
                /\ pc' = "exited"
                /\ UNCHANGED <<command, remembered, tracked, children, leads, saves>>

\* setpgid puts a background child into the group named after the shell.
Refused(p) == inherited[p].background /\ ~leads

Exec(p) == /\ proc[p] = "born" /\ ~Refused(p)
           /\ proc' = [proc EXCEPT ![p] = "running"]
           /\ UNCHANGED <<pc, command, remembered, tracked, inherited, disk, leads>>

\* The child destroys the shell's data, as if it were the shell.
ExecFails(p) == /\ proc[p] = "born" /\ ~Refused(p)
                /\ proc' = [proc EXCEPT ![p] = "writing"]
                /\ file' = Written(<<>>)
                /\ UNCHANGED <<pc, command, remembered, tracked, inherited, leads, saves>>

\* The child runs processes_kill: the shell is in its list, and is not itself.
SetpgidFails(p) == /\ proc[p] = "born" /\ Refused(p)
                   /\ proc' = [Killed(inherited[p].listed \ {p}) EXCEPT ![p] = "writing"]
                   /\ pc' = IF Up THEN "killed" ELSE pc
                   /\ file' = Written(<<>>)
                   /\ UNCHANGED <<command, remembered, tracked, inherited, leads, saves>>

\* The child exits with 1.
WriteCopy(p) == /\ proc[p] = "writing"
                /\ file' = Written(inherited[p].lines)
                /\ proc' = [proc EXCEPT ![p] = "failed"]
                /\ UNCHANGED <<pc, command, remembered, tracked, inherited, leads, saves>>

Ends(p) == /\ proc[p] = "running"
           /\ \E state \in {"ok", "failed", "killed"} : proc' = [proc EXCEPT ![p] = state]
           /\ UNCHANGED <<pc, command, remembered, tracked, inherited, disk, leads>>

ShellNext == \/ \E l \in Lines : ReadLine(l)
             \/ EndOfInput \/ LineDone
             \/ Open \/ OpenFails \/ Keep \/ Store \/ Forget \/ Skip
             \/ Cd \/ Nothing \/ Ps \/ Exit
             \/ \E i \in DOMAIN history_command : Recall(i)
             \/ NoMatch \/ ShellCrashes
             \/ ForkFails \/ WriteInformation \/ BuildForeP \/ Built
             \/ LeaveRunning \/ Wait \/ FreeForeground \/ Freed \/ Interrupt
             \/ ProcessesKill \/ ShellDestroy
             \/ \E p \in Process : \/ Fork(p) \/ Exec(p) \/ ExecFails(p)
                                   \/ SetpgidFails(p) \/ WriteCopy(p) \/ Ends(p)

ShellSpec == ShellInit /\ [][ShellNext]_shellVars

-----------------------------------------------------------------------------
\* When the shell has ended with exit or the end of its input, not in a crash,
\* whatever was started, interrupted, reaped or listed before: no process that it
\* started is left, and the history file has what the shell would remember; no
\* child writes its old copy over it.
EndsClean == pc = "exited" => Alive = {} /\ (saves => file = history_command)

\* The comment on new_fore_p: "store the currently running foreground process".
ForegroundKnown == pc = "wait" /\ proc[child] = "running" => new_fore_p = child
=============================================================================
