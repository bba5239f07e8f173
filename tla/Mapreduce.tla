------------------------------ MODULE Mapreduce ------------------------------
(***************************************************************************)
(* mapreduce/mapreduce.c: splitters feed mappers, and mappers a reducer,   *)
(* through pipes.  Children inherit every end that main has open at the    *)
(* fork; a reader sees the end of its pipe, and a writer that nobody       *)
(* reads, only when no process has the other end open.                     *)
(*                                                                         *)
(* The three programs are not part of mapreduce.c: a splitter writes and   *)
(* ends; a mapper turns each piece it reads into one that it writes, until *)
(* its input ends; the reducer reads until its input ends.  Any of them    *)
(* may fail, before or after execl.                                        *)
(***************************************************************************)
EXTENDS Integers, FiniteSetsExt

CONSTANTS mapper_count,
          Pieces,       \* that each splitter writes
          PipeSize      \* pieces that fit into a pipe

ASSUME MapreduceAssumption == /\ mapper_count \in Nat \ {0} /\ Pieces \in Nat
                              /\ PipeSize \in Nat \ {0}

Index       == 1..mapper_count
Splitter(i) == <<"splitter", i>>
Mapper(i)   == <<"mapper", i>>
Reducer     == <<"reducer", 0>>
Child       == ({"splitter", "mapper"} \X Index) \cup {Reducer}
Pipe        == 0..mapper_count      \* 0 is the reducer's, i that of mapper i

VARIABLES doing,            \* what main does next, for which index
          status,           \* of each child
          reads, writes,    \* the ends that main and each child have open
          pipe,             \* pieces in each pipe
          unsplit,          \* per splitter: pieces left to write
          mapping,          \* mappers that have a piece in hand
          reduced,
          broken            \* history: a fork, a mapper or the reducer failed

ends          == <<reads, writes>>
work          == <<unsplit, mapping, reduced>>
mapreduceVars == <<doing, status, ends, pipe, work, broken>>

Parent == <<"main", 0>>

MapreduceInit == /\ doing = <<"split", 1>>
                 /\ status = [c \in Child |-> "none"]
                 /\ reads = [c \in Child \cup {Parent} |-> IF c = Parent THEN Pipe ELSE {}]
                 /\ writes = reads
                 /\ pipe = [p \in Pipe |-> 0]
                 /\ unsplit = [i \in Index |-> Pieces] /\ mapping = {} /\ reduced = 0
                 /\ broken = FALSE

-----------------------------------------------------------------------------
\* main goes on with the next index, or else with what comes afterwards.
Goes(what, i, after) ==
  /\ doing = <<what, i>>
  /\ doing' = IF i < mapper_count THEN <<what, i + 1>> ELSE <<after, 1>>

\* A child gets the ends that main has open.
Fork(c, open, copied) ==
  /\ status' = [status EXCEPT ![c] = "born"]
  /\ writes' = [writes EXCEPT ![Parent] = open, ![c] = copied]
  /\ reads' = [reads EXCEPT ![c] = reads[Parent]]
  /\ UNCHANGED <<pipe, work, broken>>

ForkSplitter(i) == /\ Goes("split", i, "map")
                   /\ Fork(Splitter(i), writes[Parent], writes[Parent])

\* Fault: main closes the write end of the mapper's pipe after the fork.
ForkMapperFirst(i) == /\ Goes("map", i, "reduce")
                      /\ Fork(Mapper(i), writes[Parent] \ {i}, writes[Parent])

ForkMapper(i) == /\ Goes("map", i, "reduce")
                 /\ Fork(Mapper(i), writes[Parent] \ {i}, writes[Parent] \ {i})

ForkReducer == /\ doing = <<"reduce", 1>> /\ doing' = <<"close", 1>>
               /\ Fork(Reducer, writes[Parent], writes[Parent])

\* main or a child ends, and all its ends are closed.
Closed(c) == /\ reads' = [reads EXCEPT ![c] = {}]
             /\ writes' = [writes EXCEPT ![c] = {}]

\* exit(1).
ForkFails == /\ doing[1] \in {"split", "map", "reduce"}
             /\ doing' = <<"exit", 1>>
             /\ Closed(Parent) /\ broken' = TRUE
             /\ UNCHANGED <<status, pipe, work>>

CloseAll == /\ doing = <<"close", 1>> /\ doing' = <<"wait", 0>>
            /\ Closed(Parent)
            /\ UNCHANGED <<status, pipe, work, broken>>

\* waitpid: first for the reducer, then for each splitter and its mapper.
Wait(i) == /\ Goes("wait", i, "done")
           /\ IF i = 0 THEN status[Reducer] = "ended"
              ELSE status[Splitter(i)] = "ended" /\ status[Mapper(i)] = "ended"
           /\ UNCHANGED <<status, ends, pipe, work, broken>>

ParentStep == \/ \E i \in Index : ForkSplitter(i) \/ ForkMapper(i)
              \/ ForkReducer \/ CloseAll
              \/ \E i \in Pipe : Wait(i)

-----------------------------------------------------------------------------
\* A child closes one end, the other one of the pipe it uses, before execl.
Execl(c, read, written) == /\ status[c] = "born"
                           /\ status' = [status EXCEPT ![c] = "running"]
                           /\ reads' = [reads EXCEPT ![c] = @ \ read]
                           /\ writes' = [writes EXCEPT ![c] = @ \ written]
                           /\ UNCHANGED <<doing, pipe, work, broken>>

ExeclSplitter(i) == Execl(Splitter(i), {i}, {})
ExeclMapper(i)   == Execl(Mapper(i), {0}, {})
ExeclReducer     == Execl(Reducer, {}, {0})

Ends(c) == /\ status' = [status EXCEPT ![c] = "ended"]
           /\ Closed(c)
           /\ UNCHANGED <<doing, pipe, work>>

Fails(c) == /\ status[c] \in {"born", "running"}
            /\ Ends(c)
            /\ broken' = (broken \/ c[1] # "splitter")

EndOf(p)  == pipe[p] = 0 /\ \A c \in DOMAIN writes : p \notin writes[c]
Unread(p) == \A c \in DOMAIN reads : p \notin reads[c]

Put(p) == pipe[p] < PipeSize /\ pipe' = [pipe EXCEPT ![p] = @ + 1]
Get(p) == pipe[p] > 0 /\ pipe' = [pipe EXCEPT ![p] = @ - 1]

Split(i) == /\ unsplit[i] > 0 /\ Put(i)
            /\ unsplit' = [unsplit EXCEPT ![i] = @ - 1]
            /\ UNCHANGED <<doing, status, ends, mapping, reduced, broken>>

TakePiece(i) == /\ i \notin mapping /\ Get(i)
                /\ mapping' = mapping \cup {i}
                /\ UNCHANGED <<doing, status, ends, unsplit, reduced, broken>>

Map(i) == /\ i \in mapping /\ Put(0)
          /\ mapping' = mapping \ {i}
          /\ UNCHANGED <<doing, status, ends, unsplit, reduced, broken>>

Reduce == /\ Get(0) /\ reduced' = reduced + 1
          /\ UNCHANGED <<doing, status, ends, unsplit, mapping, broken>>

\* One step of a child's program, the last one included.  A writer to a pipe
\* that nobody has open for reading is killed.
SplitterStep(i) == \/ ~Unread(i) /\ Split(i)
                   \/ unsplit[i] = 0 /\ Ends(Splitter(i)) /\ UNCHANGED broken
                   \/ Unread(i) /\ Ends(Splitter(i)) /\ UNCHANGED broken

MapperStep(i) == \/ TakePiece(i)
                 \/ ~Unread(0) /\ Map(i)
                 \/ i \notin mapping /\ EndOf(i) /\ Ends(Mapper(i)) /\ UNCHANGED broken
                 \/ i \in mapping /\ Unread(0) /\ Ends(Mapper(i)) /\ UNCHANGED broken

ReducerStep == \/ Reduce
               \/ EndOf(0) /\ Ends(Reducer) /\ UNCHANGED broken

Executing(c) == status[c] = "running"

SplitterRuns(i) == ExeclSplitter(i) \/ (Executing(Splitter(i)) /\ SplitterStep(i))
MapperRuns(i)   == ExeclMapper(i) \/ (Executing(Mapper(i)) /\ MapperStep(i))
ReducerRuns     == ExeclReducer \/ (Executing(Reducer) /\ ReducerStep)

ChildStep == (\E i \in Index : SplitterRuns(i) \/ MapperRuns(i)) \/ ReducerRuns

MapreduceNext == \/ ParentStep \/ ForkFails
                 \/ ChildStep \/ \E c \in Child : Fails(c)

MapreduceSpec == MapreduceInit /\ [][MapreduceNext]_mapreduceVars

\* The operating system runs every process that can take a step.
MapreduceFairSpec == /\ MapreduceSpec /\ WF_mapreduceVars(ParentStep)
                     /\ \A i \in Index : /\ WF_mapreduceVars(SplitterRuns(i))
                                         /\ WF_mapreduceVars(MapperRuns(i))
                     /\ WF_mapreduceVars(ReducerRuns)

-----------------------------------------------------------------------------
Sent == MapThenSumSet(LAMBDA i : Pieces - unsplit[i], Index)

\* As long as only splitters fail, main comes to its end, and the reducer has
\* seen all that was written: no process waits for the end of a pipe that
\* another one, or itself, keeps open, and none takes it for ended too early.
AllReduced == []~broken => <>(doing[1] = "done" /\ reduced = Sent)

\* The comment on the closing of the pipes in main: "prevent deadlocks and to
\* allow EOF to be detected".
MainReturns == <>(doing[1] \in {"done", "exit"})
=============================================================================
