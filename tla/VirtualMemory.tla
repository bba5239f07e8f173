----------------------------- MODULE VirtualMemory -----------------------------
(***************************************************************************)
(* What the mmu of ideal_indirection promises: every process has a memory  *)
(* of its own, filled with zeros at first, and reads what it wrote last.   *)
(* One call is served at a time, and each is answered from, or changes,    *)
(* the one page of the one process that it names.                          *)
(***************************************************************************)
EXTENDS Integers

CONSTANTS Pid, Page, Writable,
          Calls,     \* reads and writes: [op, pid, page, value]
          NULL

VARIABLES alive,     \* the processes there are
          memory,    \* per process and page: its content, zeros if not alive
          current,   \* the call that is served, or NULL
          result     \* what the last read returned, or 0

Zeros == [v \in Page |-> 0]

Init == /\ alive = {}
        /\ memory = [p \in Pid |-> Zeros]
        /\ current = NULL
        /\ result = 0

StartProcess(p) == /\ current = NULL
                   /\ p \notin alive /\ alive' = alive \cup {p}
                   /\ UNCHANGED <<memory, current, result>>

Stop(p) == /\ current = NULL
           /\ p \in alive /\ alive' = alive \ {p}
           /\ memory' = [memory EXCEPT ![p] = Zeros]
           /\ UNCHANGED <<current, result>>

\* An address outside of the pages there are is turned down at once.
Ask(c) == /\ current = NULL
          /\ c.pid \in alive
          /\ current' = IF c.page \in Page THEN c ELSE NULL
          /\ result' = 0
          /\ UNCHANGED <<alive, memory>>

Read == /\ current # NULL /\ current.op = "read"
        /\ result' = memory[current.pid][current.page]
        /\ current' = NULL
        /\ UNCHANGED <<alive, memory>>

Write == /\ current # NULL /\ current.op = "write"
         /\ Writable[current.page]
         /\ memory' = [memory EXCEPT ![current.pid][current.page] = current.value]
         /\ current' = NULL
         /\ UNCHANGED <<alive, result>>

Refuse == /\ current # NULL /\ current.op = "write"
          /\ ~Writable[current.page]
          /\ current' = NULL
          /\ UNCHANGED <<alive, memory, result>>

Next == \/ \E p \in Pid : StartProcess(p) \/ Stop(p)
        \/ \E c \in Calls : Ask(c)
        \/ Read \/ Write \/ Refuse

Spec == Init /\ [][Next]_<<alive, memory, current, result>>
=============================================================================
