# system_programming in TLA+

The repository collects the assignments of a systems-programming course in C:
thread libraries, concurrent programs, servers and allocators. They share no
state with each other; each is a small system of its own. This directory
specifies the ones whose correctness is about *order* - threads, locks, shared
state over time - checks them with TLC and proves the main results with TLAPS.

## 1. Inventory

| Component | State it keeps | Operations | Interaction | What is hard | What makes it correct |
|---|---|---|---|---|---|
| `critical_concurrency/queue.c` | linked list `head/tail/size`, `max_size`, mutex `m`, condition `cv` | `queue_create`, `queue_push`, `queue_pull`, `queue_destroy` | threads call it; used by `password_cracker/cracker1.c` | producers and consumers sleep on one `cv`; any of them may retake the mutex first | list intact, first-in first-out, bounded, no lost wake-up, served, freed |
| `critical_concurrency/semamore.c` | `value`, `max_val`, mutex, `cv` | `semm_init`, `semm_wait`, `semm_post`, `semm_destroy` | threads call it | the tests are equalities, both kinds of waiters share `cv` | an atomic counter in `0..max_val`; nobody sleeps without a reason |
| `critical_concurrency/barrier.c` | `n_threads`, `count`, `times_used`, `mtx`, `cv` | `barrier_init`, `barrier_wait`, `barrier_destroy` | threads call it, again and again | rounds overlap; the wait is under an `if` | nobody passes before all arrived, nobody is left behind |
| `critical_concurrency/rendezvous*.c` | two semaphores | - | - | an exercise frame | not modelled |
| `deadlock_demolition/libdrm.c` | resource allocation graph `g`, visited set, global `mut`, a mutex per drm | `drm_init`, `drm_wait`, `drm_post`, `drm_destroy` | `libdrm_tester.c` runs scripts of calls | `mut` is given up between the cycle test and the lock | graph exact, never a deadlock, only deadlocks refused |
| `parallel_make/parmake.c` | `all_vertex_dfs`, states of the rules, `target_mut`, `g_mut`, `cv` | `vector_check`, `get_all_vertex_dfs`, worker `run`, `set_state` | main thread starts and joins the workers; graph, parser, set and vector are libraries | broadcast and wait use different mutexes; failures spread while siblings build | each rule at most once, after its dependencies; failures spread; it ends |
| `password_cracker/cracker2.c` | current line, `decrypted_password`, `range_count`, hash counts, two barriers | main loop, worker `do_func` | main thread and workers take turns through the barriers | two variables are shared without a lock | turns are kept, status codes agree with the result, all threads are joined |
| `password_cracker/cracker1.c` | queue of lines, `queue_size`, `success_count`, `fail_count`, `mut` | main loop, worker `do_funct` | workers pull from `queue.c` while they hold `mut` | counter and queue must agree, or a worker blocks all others | every line taken once, all workers end |
| `nonstop_networking/server.c`, `common.c` | client records, listed names, recorded sizes, files on disk | accept, `process_header`, `process_method` (LIST, GET, PUT, DELETE), `process_error`, `server_end` | one epoll loop, many clients | a PUT fails in the middle; a client hangs up; SIGINT in the middle of an upload or an answer; sizes kept in less than a `size_t` | names, sizes and files agree; answers are as long as announced |
| `nonstop_networking/client.c` | one connection | request, response | the server | short reads and writes, answers that are cut off | what it takes for a whole answer is one |
| `charming_chatroom/server.c` | `clients[8]`, `clientsCount`, mutex, `endSession` | `run_server`, `process_client`, `write_to_clients`, `cleanup` | one thread per client | a descriptor is closed, and may be reused, before its slot is cleared; a message is two writes | messages reach the right clients, in one order |
| `malloc/alloc.c` | blocks with headers and size marks, free list `head`, program break | `malloc`, `calloc`, `free`, `realloc` | one caller | splits and merges with both neighbours | blocks tile the heap, free list exact, memory handed out once |
| `ideal_indirection/mmu.c` | page directories and tables, TLB, frames, current pid, counters | add/remove process, read, write | kernel library hands out frames | pid reuse, evicted pages | isolation of processes, TLB agrees with the tables |
| `finding_filesystems/minixfs.c` | inodes, data map, blocks | `chown`, `chmod`, `create_inode`, `virtual_read`, `read`, `write` | one caller; a library adds blocks to inodes | files that span direct and indirect blocks, writes and creations that fail half-way | what is read is what was written |
| `savvy_scheduler/libscheduler.c` | priority queue, `job_info` per job, totals | six comparers, `scheduler_new_job`, `scheduler_quantum_expired`, `scheduler_job_finished` | priority queue library; a caller that keeps time | accounting over many quanta, evictions and arrivals at one instant | order of each scheme, totals |
| `vector/*.c` | array, size, capacity | insert, erase, resize, ... | one caller | capacity and ownership | no element lost, capacity large enough |
| `mini_memcheck/mini_memcheck.c` | list of allocations, counters | malloc, calloc, realloc, free wrappers | linked into a program | accounting on realloc | counters agree with the list |
| `mapreduce/mapreduce.c` | pipes, children | fork, close, dup2, execl, waitpid | splitters, mappers and a reducer through pipes | ends that a child inherits stay open | everybody sees the end of its input, main returns |
| `shell/shell.c` | process list, history, foreground child, the command being executed | commands with operators, recalled lines, fork and exec, SIGINT handler, exit | child processes, which start in a copy of the shell's memory; the history file | handler and loop share a record; `command_exec` calls itself; children end as if they were the shell | no child survives the shell, the history file is the shell's |
| `teaching_threads/par_reduce.c`, `deepfried_dd`, `utilities_unleashed`, `extreme_edge_cases`, `mad_mad_access_patterns`, `perilous_pointers`, `luscious_locks` | nothing over time | - | - | conversions, formats, look-ups | not modelled |

`PROJECT.json` lists under "hazards", line by line, what can go wrong in this
code that a test would hardly reach, and which property guards it.

## 2. Modules

The order of the modules is the order in which they were judged to matter: the
thread libraries first, as programs rest on them, then the programs.

| Module | Role |
|---|---|
| `Monitor` | one mutex with one condition variable, and where each thread is (`pc`): what the C code expects of pthread |
| `BoundedFifo`, `CountingSemaphore`, `VirtualMemory`, `Allocator` | abstract specifications: what a queue, a semamore, the mmu and the heap promise |
| `Queue` | `queue.c`; refines `BoundedFifo` |
| `Semamore` | `semamore.c`; refines `CountingSemaphore` |
| `Barrier` | `barrier.c` |
| `Libdrm`, `LibdrmTester` | `libdrm.c`, and the tester as its environment |
| `ParmakeRun`, `Parmake` | the workers of `parmake.c`, and the main thread composed with them |
| `Cracker2` | `cracker2.c` |
| `Cracker1` | `cracker1.c`, composed with `BoundedFifo` as its queue |
| `FileServer` | `nonstop_networking/server.c`, one block read or one write at a time |
| `FileExchange` | `client.c`, composed with `FileServer` |
| `ChatRoom` | `charming_chatroom/server.c`, with guests as its environment |
| `Kernel` | the library that hands out frames and keeps page files: external |
| `Mmu` | `ideal_indirection/mmu.c` above `Kernel`; refines `VirtualMemory` |
| `Heap` | `malloc/alloc.c`; refines `Allocator` |
| `Minixfs` | `finding_filesystems/minixfs.c`: files of one directory |
| `Scheduler` | `savvy_scheduler/libscheduler.c`, with the caller that its tests play |
| `Shell` | `shell/shell.c`, its children and SIGINT |
| `Mapreduce` | `mapreduce/mapreduce.c`, with the programs that it starts |
| `MC*` | workloads, scripts, makefiles, requests and lines for TLC |
| `MCCritical`, `MCLibraries`, `MCSmallSystems` | several systems that share nothing, of which one runs in each behaviour while the others stay where they start: the thread libraries; systems driven by one caller, and the shell; small programs of threads or processes |
| `CriticalProofs` | theorems about `Queue`, `Semamore` and `Barrier`; that the queue implements `BoundedFifo` and the semaphore `CountingSemaphore` |
| `LibdrmProofs`, `ParmakeProofs`, `FileServerProofs` | theorems about `Libdrm`; about the workers of `ParmakeRun`; about `FileServer` with the clients of `FileExchange` |
| `SmallSystemsProofs` | theorems about `Cracker2` and `ChatRoom` |
| `MmuProofs` | theorems about `Mmu`, and that it implements `VirtualMemory` |
| `LibrariesProofs` | theorems about `Shell`, `Scheduler`, `Minixfs` and `Heap`, and that the heap implements `Allocator` |
| `SequenceLemmas` | lemmas that these share: what `RemoveFirst`, `ReplaceAll`, `Append` and `SetToSeq` of the community modules return, and what sums over finite sets, which are folds of theirs, have in common with the ones everybody knows |

### How state and actions correspond to the code

A thread's program counter `pc` names the place between two steps that other
threads can observe. What lies between two such places is one action:

* *Condition variables* are modelled finely. In `Queue`, `Semamore` and
  `Barrier` taking the mutex, evaluating the `while` or `if` test, parking,
  changing the struct (with the broadcast that follows) and releasing the mutex
  are separate actions. `pthread_cond_wait` releases the mutex and parks in one
  step, is woken by a broadcast or spuriously, and returns only when it has won
  the mutex back: waking and returning are separate, so any number of other
  threads may come in between.
* *Sections in which nothing blocks* are single actions. `drm_wait` and
  `drm_post` change the graph only while they hold `mut` and never block in it;
  the section before the lock of the drm is `Request` (or `WaitOwn`,
  `WaitRefused`), the lock is `Acquire`, the section after it is `Grant`.
  The states of parmake's rules are only read and set under `g_mut`. All
  variables of such a section are accessed under its mutex alone, so any
  interleaving of its statements with other threads' is equivalent to one in
  which it runs at a stroke.
* *Variables shared without a lock* get an action per access: `range_count` and
  `decrypted_password` of `cracker2.c`. The two are aligned machine words; an
  access yields the old or the new value.

* *One thread and many clients.* While the file server handles an event it does
  nothing else, but it does not handle it at a stroke: it blocks where it reads from a
  client that may not have sent yet, and SIGINT (`ServerEnd`) may end it anywhere. So
  an event is split wherever that can be told from outside. A request: its header
  (`ProcessHeader`, then `BadRequest`, `ParseRequest` or `OpenUpload`), each block of an
  upload (`ReadBlock`, which counts what was given to `fwrite`, as `exit` flushes it),
  the `fclose` (`CloseFile`), and the verdict (`RefuseUpload`, or `StoreUpload`, which
  lists a new name before anything else). An answer: `WriteOK`, the announced length
  (`WriteListSize`, `WriteFileSize`), then one name or block at a time (`WriteName`,
  `WriteBlock`), until all is written (`Answered`) or a write to a dead client fails
  (`WriteFails`, after which the next event answers with an error). `AnswerPut`,
  `AnswerDelete`, `NoSuchFile` and `ProcessError` are single steps; their comments say
  why SIGINT in the middle of them makes no difference. The answer is a later event
  than the request, and other clients' requests come in between.
* *Sizes.* The server records lengths as `unsigned int` and GET reads them back as
  `size_t`. `Recorded` keeps the length modulo `Word`; `WriteFileSize` adds any multiple
  `k * Word` with `k` in `Upper`: the four bytes behind the value may hold anything. A
  variable that is read before it was written (the server's `file_size`, a client's
  announced length) holds any member of `Garbage`. A client that takes garbage for the
  length of a list and runs out of stack is one that dies (`HangUp`).
* *Two writes for a message.* The chat server writes the size of a message and then the
  message (`WriteSize`, `WriteBody`) to whoever is at the other end of the descriptor at
  that time, with the mutex held; `Close` and `Accept` need no mutex and may come in
  between. `sized` is who got the size. A guest that gets a body without a size takes it
  for one: it is `outOfStep`, and hears nothing any more.
* *The call that is served.* `VirtualMemory` serves one call at a time (`current`, set
  by `Ask`): `Read` and `Write` look at the page of the process that it names and at no
  other, and a call is answered exactly once. `Mmu`'s call under way is mapped to it
  (`Served`), so an access to any other memory is not a step of the specification.
* *A call that asks for frames.* A call of the mmu is split at each request for a
  frame, since granting one may evict a page of any process, the caller's
  included. `present` and `base_addr` are one field: an entry without a base is
  not present.

* *One caller, one call.* A call of the heap, of minixfs and of the scheduler is one
  action: nothing runs beside it. Addresses of the heap are numbers of bytes, headers
  and marks have the sizes that the constants give them, and what a merge leaves
  inside a block is dropped. A failed call that leaves something behind - blocks
  added, an inode in use - is an outcome of its action.
* *A shell and its children.* `todo` is what is left of all calls of `command_exec`
  that are under way, the innermost first: a recalled line is executed in the
  middle of another one and frees what that one still needs (`Lost`). Between any two
  steps SIGINT may arrive (`Interrupt`); building and freeing the foreground record
  take two steps each, so that the handler can meet it half done. A child is `born` in
  a copy of the shell's memory (`inherited`), executes its program, or fails to and
  runs the shell's own `shell_destroy` on its copy (`writing`).
* *Processes and pipes.* Each process has its own ends of each pipe (`reads`,
  `writes`), copied from main at its fork. End of input and the death of a writer
  are read off all processes together.

The names of variables and operations are the source's. `map` in `PROJECT.json`
gives the lines behind every definition. Operators whose comment begins with
`Fault:` are not part of any specification: they are plausible bugs, and every
property of every passing run is shown to be violated by one of them.

### Assumed of what is not in `src/`

pthread mutexes exclude, condition variables lose no broadcast to a parked
thread, pthread barriers release a full party. The graph, set, vector and
parser libraries do what the callers expect of them. `crypt_r` recognises the
password and nothing else, `getSubrange` (a library of the assignment) splits
the space into shares rounded up. `malloc` succeeds. A socket has room for an
answer, and a connection loses nothing while both ends live; a write to a client that
has died may fail. The kernel library
zeroes a frame before it hands it out, saves a changed page when it evicts it, and
evicts nothing but pages: directories and tables are asked for with `NULL`, and
that they stay is what `ideal_indirection/mmu_test.c:238` tells its readers. The
TLB library drops some entry when it is full. `sbrk` fails only for lack of memory,
memory from it is zero, and `num * size` of `calloc` is below 2^64. The minixfs
library starts from an empty disk, hands out the lowest free block and the lowest
free inode, and changes nothing when a single block cannot be had. The priority
queue gives equal jobs out in the order of their offers. A pid is not used
again before its process has been waited for.

## 3. What TLC checks

| Run | Instance | Shows |
|---|---|---|
| `critical` | 4 threads. Queue: 4 nodes, 2 values, `max_size` 0, 1, 2. Semaphore: 2 waiters, 2 posters, 3 calls of each kind, up to 2 units. Barrier: 2 rounds | `ListOK`: `head`, `tail`, `size` and the `next` fields spell one list of exactly the live nodes. `NoLostWakeup`: who sleeps has to. `QueueCompletes`: all calls return and `queue_destroy` frees everything. `FifoSpec`: refines `BoundedFifo`. `OneKindAsleep`, `SemmCompletes`, `CounterSpec`: refines `CountingSemaphore`. `TogetherUndisturbed`, `BarrierCompletes` |
| `barrier_spurious` | 2 threads, 2 rounds | violates `Together` (finding) |
| `drm` | 3 threads, 3 drms, all combinations of 10 scripts | `GraphExact`, `NoDeadlock`, `RefusesOnlyDeadlock`, `Finishes` |
| `parmake` | 3 workers, 4 rules, 5 makefiles | `DependenciesFirst`, `OneOwner`, `FailureSpreads`, `Ends` |
| `parmake_cycle` | 2 workers, two goals, the second cyclic | violates `CyclicTargetsDeleted` (finding) |
| `cracker2_race` | 2 workers, 1 line | violates `RangeFinished` (finding) |
| `file_server` | 3 clients, 2 names, uploads of 0 to 2 blocks, 8 sets of requests; `Word` 2, `Upper` {0, 1}, `Garbage` {0, 5} | `StoredIsListed`, `ListExact`: files, names and sizes agree. `CleanExit`: what SIGINT leaves, wherever it falls. `NothingMissing`, `AnswersWhole`: what clients see, except for lengths that do not fit into the table and answers that SIGINT cuts. `AllAnswered`: every client ends |
| `libraries` | Mmu: 2 processes, 3 pages in 2 tables each, 6 frames, a TLB of 1 entry, 7 calls. Heap: 30 bytes, headers of 3 and marks of 1. Minixfs: 8 blocks of 2 units, 1 direct and 2 indirect, 3 valid names and an invalid one, 4 writes. Scheduler: 3 jobs, 6 schemes. Shell: 2 lines of 8 kinds, 2 children | `FramesOwned`, `TlbTrue`, `MemorySpec`: refines `VirtualMemory`, each call on the page of the process that it names. `HeapExact`, `AllocatorSpec`: refines `Allocator`. `FilesKept`. `StatisticsExact`, `SchemeKept`. `EndsClean` |
| `small_systems` | Cracker1: 3 workers, 0, 1, 2 and 4 lines. Cracker2: 3 workers, up to 2 lines out of 3. ChatRoom: 2 slots, 3 guests, 2 of which send a message. Mapreduce: 2 mappers, 2 pieces each, pipes for 1 | `Cracker1Ends`; `TurnsTaken`, `StatusesAgree`, `Cracker2Ends`; `SameOrder`, `NobodyMissed`: broadcasts, also between the two writes to a guest; `ComesToRest`: nobody waits for ever unless a broadcast meets a closed socket; `MapreduceEnds` |
| `scheduler_remaining` | 3 jobs, round robin | violates `RemainingExact` (finding) |
| `shell_foreground` | 1 line | violates `ForegroundKnown` (finding) |
| `mapreduce_failing` | 2 mappers, 2 pieces each, pipes for 1 | violates `MainReturns` (finding) |

*Bounds.* Two producers and two consumers are what it takes to have, on one
condition variable, a waiter of either kind, a thread that runs, and one more
that overtakes a woken one; one slot and two slots reach full and empty with and
without a list of length two (the case in which the tail is not the head). Four
nodes are never all in use, so `malloc` never blocks. Two rounds of a barrier
let fast threads be in round `k+1` and slow ones still in round `k`.
Three drms and three threads close cycles of length two and three; ten scripts
nest every ordered pair, lock one drm twice and post without holding. The
makefiles have a diamond (one failure spreads along two paths), a dependency that
finishes before an earlier one, existing files older and newer than their
dependencies, and a cycle beside and below the goals; three workers are one
claiming, one executing, one asleep. Two lines make the second line of
`cracker2` start from the leftovers of the first; the spaces of sizes 1 and 3
give shares that are empty, equal and absent. Three clients are one that uploads
a name, one that replaces, spoils or deletes it, and one that watches; the names
have different lengths so that a list cannot be right by accident. Two blocks are what
it takes to be interrupted with a part of a file, and of an answer; a `Word` of 2 makes
an upload of one block fit into the table and one of two not, which is what lengths
below and from 2^32 are; of `Upper`, 0 is the length read right and 1 the length
misread; of `Garbage`, 0 is a length that an empty upload or a cut answer may meet by
chance, and 5 one that none meets. Six frames hold
two directories, three tables and a single page when everything is in use, so
evictions hit the caller and the other process; one TLB entry is replaced at every
other access. Three guests and two slots make a full room, a guest that is shut out,
and descriptors that are closed, reused, and still in a slot; with two messages
two threads broadcast and race for the mutex, and a descriptor that is closed between
the size and the body of a message can be the new guest's before the body. A heap of 30 bytes holds up to five
blocks; the sizes 1, 2 and 10 and their doubles fit exactly, leave a remainder too
small for a header, leave one large enough, merge on either side and on both, and
exhaust the heap; `Large` is 8, so that realloc cuts off the end of some blocks
and not of others. One direct and two indirect blocks of two units make a file of
three writes cross both boundaries, and eight blocks run out; three names fill a
directory block and begin another. Three jobs, of which the last may come when
nothing runs, give arrivals before, at and after evictions, and each scheme has a
tie. A shell with two lines recalls its first one, also in place of its own second
command; two children are one in the background and one in the foreground, or a
child that dies while another one still writes its history; `MaxNested` is above
what a line that does not recall itself needs. A splitter that writes more than a
pipe holds depends on its mapper, and that on the reducer.

*Fairness.* Each thread is weakly fair: the operating system keeps running it,
and nothing in the code can disable a step it is about to make for ever
except a wait. Mutexes need no more than that here, since the liveness
properties hold although a thread may be overtaken arbitrarily often while it
retakes the mutex: there are finitely many calls. Spurious wake-ups are allowed
at any time; liveness is claimed under the premise that they stop
(`<>[][~Wake]`), as a thread woken for ever is free to keep the mutex from
others. `WF(Destroy)`, `WF(Main)` and `WF(MainStep)` are main threads that keep
running. In `FileExchange` the server's loop is weakly fair as a whole - not every
client of it - and so is each client; that a client dies, and SIGINT, may happen or
not. In `MCSmallSystems` it is enough that, as long as any thread or process of the
system that runs can take a step, one of them does (`AnyThread`), which is less:
no thread of these systems steps for ever, and guests, who connect and leave as they
like, are not part of it; nor is the failure of a process of `Mapreduce`, whose run
on its own has each process weakly fair. `ComesToRest` has the premise that no
broadcast meets a closed socket: there the code does loop for ever. Liveness properties are checked without symmetry.

*Deadlock checking* is on for `libraries`: a program on the heap that has
crashed, a disk that has been written to as often as it may, a complete schedule and a
shell that has ended are the only places where one of its systems may stop
(`Over`). It is off in the other runs because every one of these systems stops when
its calls are used up; that it stops only then is what `QueueCompletes`,
`SemmCompletes`, `BarrierCompletes`, `Finishes`, `Ends`, `AllAnswered`,
`Cracker1Ends`, `Cracker2Ends`, `ComesToRest` and `MapreduceEnds` say.

`MCLibdrm` additionally evaluates that `has_cycle` as the code walks it answers
the same as `HasCycle`, on every graph over four vertices in which a vertex has
at most one edge out; `GraphExact` gives exactly that of libdrm's graphs, since a
thread waits for one drm and a drm belongs to one thread. `MCCracker2` evaluates
that the shares of `getSubrange` tile a space.

## 4. What is proved

All theorems hold for every value of the constants that meets the named
assumptions, all of which the code or its types justify:

* what stands for nothing is none of the things it is told from
  (`NoThreadAssumption`, `NoRuleAssumption`, `NoReportAssumption`, and a
  `NullAssumption` in `Queue`, `Kernel` and `FileServer`), and threads, drms and
  `None` are apart (`DisjointAssumption`);
* sizes, bounds, times and workloads are numbers, and what the code divides by,
  counts up from one or allocates is not zero (`MaxSizeAssumption`, `RoundsAssumption`,
  `ThreadsAssumption`, `NowAssumption`, `HeapAssumption`, `NameLengthAssumption`,
  `GarbageAssumption` and those on workloads, tasks and calls); a semaphore starts
  within its bound (`SemaphoresAssumption`);
* a barrier has finitely many threads and at least one (`ThreadAssumption`), frames are
  finitely many numbers (`FrameAssumption`), page tables have an index 0
  (`VpnAssumption`), the kernel's test pages lie in segments of table 0
  (`SegmentsAssumption`), a chat room has more descriptors than slots
  (`ChatRoomAssumption`), and a client that names no file only lists
  (`SessionsAssumption`).

None of these invariants is inductive alone; here is what makes them so.

* **Queue** (`CriticalProofs`): `ListCorrect` (`ListOK`), `NeverOverfull` (`Capacity`)
  and `NoWakeupLost`. Who holds the mutex is at a place inside the critical section
  and at no other (`QueueMutexOK`); who is in `asleep` is at a sleep place
  (`QueueAsleepOK`); and what a thread has tested is still true when it acts, because it
  has held the mutex since (`QueueTestedOK`). `ListOK` is carried by a witness: the
  sequence of nodes, which `Link` extends (`LinkSpells`) and `Unlink` shortens
  (`UnlinkSpells`). `QueueImplements` is the refinement of `BoundedFifo`. What the
  abstract queue holds is found by following pointers (`Chain`, a recursive function), and
  such a function need not exist when the pointers go round in circles. It does here,
  since the fields spell one list and every node that is not in use has been cleared
  (`FreedOK`, `Walk`); on that list it is unfolded from the last node backwards
  (`WalkIs`: of the places where it were wrong, there would be one nearest to the end).
  Then linking a node is `Put`, unlinking one `Get`, and `queue_destroy` `Discard`.
* **Semamore** (`CriticalProofs`): the same skeleton gives `NeverOutOfRange`,
  `SleepersBlocked` (`OneKindAsleep`) and `SemmImplements`: the refinement of
  `CountingSemaphore`, every action mapped to a wait, a post or a stutter.
* **Barrier** (`CriticalProofs`): `BarrierHolds` (`TogetherUndisturbed`) and
  `RoundsAreCounted`. The invariant counts: `count` is the number of threads that
  have arrived in this round and are asleep, and while nobody was disturbed every
  thread's arrivals and passes are `times_used` or one more, depending on its place.
* **libdrm** (`LibdrmProofs`): `GraphIsExact`, `AlwaysAcyclic`, `DeadlockFree`
  (`NoDeadlock`) and `RefusalsJustified` (`RefusesOnlyDeadlock`). Acyclicity is
  stated without paths: there is no non-empty set of vertices from which one can
  keep walking (`Endless`). A request is examined, so it keeps this; a grant is
  not, but it only turns an edge round at a vertex whose thread has no other edge
  out. A set of threads that wait for each other gives, with the drms they wait
  for, an `Endless` set of the graph.
* **parmake** (`ParmakeProofs`): `BuildsInOrder` (`DependenciesFirst`),
  `ClaimsAreExclusive` (`OneOwner`), `FailuresSpread` (`FailureSpreads`) and
  `SettledIsFinal` (`Final`), for any makefile and any list without repetitions. The
  strengthening says what each worker's local `get_state` means at each place:
  between claim and check all dependencies are done, at settle with outcome 1
  they are, and at release some dependency has failed.
* **Password cracker 2** (`SmallSystemsProofs`): `Cracker2TurnsTaken` and
  `Cracker2StatusesAgree`. All threads together are in one of three phases, between
  the two barriers, on a line, or leaving (`TurnsOK`); each phase says at which
  barrier every thread has to be, and a barrier that opens leads from one to the
  next. `ReportsOK` is about a line that is being searched: a status other than 2
  presupposes a password, and a password a worker that is going to report it;
  `VerdictOK` is what that has become when the barrier opens.
* **Chat room** (`SmallSystemsProofs`): `ChatRoomSameOrder` and `ChatRoomNobodyMissed`.
  A slot is taken exactly while it has a thread, an open descriptor is in one slot
  only (`SlotsOK`, `SocketsOK`: slots are cleared after their descriptor is closed and
  may be reused, which is why these speak of threads that still serve); the mutex is
  held for all writes of a message, and between the two writes to a slot the slot stays
  taken (`WritingOK`, `BodyAt`); and the message that is being written is the last that anybody
  has heard, while others have been heard by nobody (`OrderOK`). Between size and body
  the guest at the other end is the one that got the size, unless the slot's thread has
  closed the descriptor: only then can it be another's. So a broadcast misses
  guests that are out of step and no others, and puts out of step only a guest who was
  given a descriptor that somebody had closed.
* **File server** (`FileServerProofs`): `FileServerStoredIsListed`,
  `FileServerListExact`, `FileServerCleanExit` and `FileServerAnswersWhole`, with
  clients that may die anywhere and SIGINT between any two steps. `ServingOK` says what
  the server knows of the event it is in: of an upload (`UploadOK`) that the file has
  what was read of it so far, and that its name is listed if it was there before; of an
  answer (`AnsweringOK`) that what is written of it are the first of the names that are
  listed, or the first blocks of a file that stays as it is, and that the announced
  length is too small only if an unsigned int is too small for it, and too great only if
  the bytes behind one were read as well (`Told`). `SendingOK` says how far each client has come, `RequestsOK`
  that the request on record is the one the client made and, for a PUT, that its upload
  has been read to the end, `StoredWhole` that GET finds no part of an upload,
  `RepliesOK` and `AnswersRight` what a client may have received when it is no longer
  served. `FileServerCleanExit` follows since between events every file is a listed one.
  `FileServerNothingMissing` (`NothingMissing`) compares two numbers that the server gets
  in different ways: LIST announces the running count `filename_size`, and sends the
  names. They agree because the count is always the sum of the lengths of the listed
  names (`SizeKept`, across new names, replaced and spoiled files and deletions; for a
  prefix of the names, `BytesInv`). A GET sends no more than was announced, and less
  only if that is not the length that was recorded for what is stored (`ReportsRight`).
* **Mmu** (`MmuProofs`): `MmuFramesOwned`, `MmuTlbTrue` and `MmuImplements`. Granting a
  frame may evict any page at any moment, so the invariant speaks of all processes:
  directories and tables are apart, a frame is in use exactly if it has a role, and
  the entry that the kernel knows of a page is the one that points to it (`FramesOK`);
  `AddingOK` and `CallOK` are what the call under way relies on after it was given a
  frame; an entry of the TLB has its table in the current process (`TlbOK`). For the
  refinement, the memory of a process is what its entries lead to: the page, or the page
  file. The two agree unless the entry is dirty (`CleanOK`), a new table's entries have
  no page file (`SwapOwned`), and `mmu_add_process` maps pages that have none
  (`NotOnDisk`): so an eviction and a page fault change no memory, and only `Write`
  does. The entry that a call acts on, found in the TLB or by a walk, is the one of the
  page and the process that the call names (`CallOK`, `TlbOK`), so the step is that of
  `VirtualMemory` for this very call.
* **Shell** (`LibrariesProofs`): `ShellEndsClean` (`EndsClean`). Every process that is
  alive is on the list that `processes_kill` goes through, except between fork and
  `write_information` (`AllListed`); after it nobody is left (`NobodyLeft`), so that
  nobody writes the history after the shell has (`Saved`). The theorem is about a shell
  that ends regularly: one that crashes may leave children behind.
* **Scheduler** (`LibrariesProofs`): `SchedulerKeepsScheme` (`SchemeKept`). Without
  preemption nobody has begun but those that run or have finished (`NoneBegun`); with
  priorities, who runs was polled when all that were there were in the queue
  (`PriorityKept`); with round robin, a job that has passed a waiting one was evicted
  later, so its `rr_time` is greater and it cannot pass again (`TurnsKept`). `PollIs` is
  what a poll by any of the comparers returns. `SchedulerStatisticsExact`
  (`StatisticsExact`): what the scheduler notes of a job agrees with what happened to it
  (`TimesKept`), and its totals are the sums, over the jobs that finished, of the true
  times (`TotalsExact`), but for one thing that the formula itself excepts: a job that
  ends with its first quantum has no `start_time` yet, and is counted as started at -1
  (`libscheduler.c:182`).
* **Minixfs** (`LibrariesProofs`): `MinixfsFilesKept` (`FilesKept`), for a directory of at most one block. Every inode has the
  blocks that its size needs (`Shaped`), and no block belongs to two inodes or twice to
  one (`Apart`), whatever calls have failed half-way: these are kept by each of the
  loops that add blocks and copy bytes, since `Lowest` finds a block that is nobody's
  (`CopyKeeps`). The directory's entries have different names and different inodes
  (`Directory`), and each file's inode, read block by block through its direct and
  indirect blocks, gives what was written to the file (`FilesOK`, `Holds`). A write to one
  file leaves all others alone because their blocks are apart (`WrittenKeeps`); a new
  entry is found and hides no other (`EnteredFinds`, `EnteredKeeps`). As `FilesKept`
  does, the invariant speaks of names as long as the directory has one block: once it has
  grown, its entries are in the wrong place (section 5). A directory does not shrink.
* **Heap** (`LibrariesProofs`): `BookkeepingExact` (`HeapExact`) and `HeapIsAllocator`
  (`AllocatorSpec`), for all sizes of headers, marks and requests. Blocks tile the heap
  (`Tiled`: stated by neighbours and order, since a sum over blocks would need
  induction), marks and the list fit them (`Marked`, `Listed`), and the blocks in use
  are those that were given out, and large enough (`Given`). There is a lemma for each
  of the three ways to change a tiling (a block more, one divided, several merged), and
  one for each function of `alloc.c` says what it makes of a sound heap (`MallocIs`,
  `FreeIs`, `ReducedIs`). That the bytes given out are apart follows from the tiling
  (`GivenApart`); in `realloc` that moves a block it is used between `malloc` and `free`.

*Only model-checked:*

* all liveness properties, as `ENABLED` and fairness are out of the prover's reach;
* what recursive operators compute: `CycleDetect` and `PostOrder` of parmake, and the
  walk of `has_cycle`. The library's induction theorems take an operator as a parameter,
  which no prover here can instantiate. Where an argument by induction was needed over
  numbers or finite sets - the sums of `SchedulerStatisticsExact` and
  `FileServerNothingMissing`, the walk of `QueueImplements`, the loops of
  `MinixfsFilesKept` - it is given as one about a least counterexample (`MinOfNat`,
  `MinimalSet`, `LeastOf`), which the provers can follow;
* that `queue_destroy` frees every node (a part of `QueueCompletes`);
* everything about `Cracker1` and `Mapreduce`, of which the runs check liveness only.

## 5. Where the code disagrees with itself

The runs marked *finding* end in a counterexample:

1. `critical_concurrency/barrier.c:44` waits under an `if`. One spurious wake-up
   lets a thread through alone. Undisturbed, the barrier is correct, and that is
   proved.
2. `parallel_make/parmake.c:226` advances the index a second time. Of two goals,
   only the first is examined; if the second has a cycle, building its list of
   rules recurses without end.
3. `password_cracker/cracker2.c:36`: `range_count` is one static variable of all
   workers. A worker that is still setting up makes another believe that its
   range is empty, and a password in that range is missed.
4. `savvy_scheduler/libscheduler.c:160` reduces `remaining_time` by the time since
   `start_time`, which at the first eviction is still -1, so what PSRTF compares is
   not what a job has still to run. (At later evictions it is the time the job *first*
   ran, and earlier quanta are charged again; the run ends at a first eviction.)
5. `shell/shell.c:142`: the SIGINT handler forgets the foreground process once it has
   sent the signal, although that may go on; a second SIGINT does nothing.
6. `mapreduce/mapreduce.c:123`: only main closes the pipes it does not use. When a
   mapper fails, its splitter blocks, keeps the reducer's pipe open, and main waits for
   ever. When only splitters fail, nobody does (`MapreduceEnds`).

Also seen while modelling, without a run of their own:

* `drm_destroy` (`libdrm.c:116`) destroys the global `mut`; the tester calls it
  three times.
* `check_file_dependencies` (`parmake.c:129-130`) is commented "needs to be
  rebuilt" where it answers 1, which `run` takes as done without executing.
* `cycle_detect` (`parmake.c:53`) destroys its visited set at every return; a cycle
  that does not close through first dependencies makes it recurse without end.
  The model marks this as `overflow`.
* A refused PUT over a name that is stored deletes the file and leaves its name
  listed with the old size (`nonstop_networking/server.c:364`); the next PUT lists
  the name a second time. `spoiled` marks this in the model, for `ListExact`; no
  other property needs to except it.
* A client that closes before it has sent the length of its upload leaves
  `file_size` uninitialised (`server.c:343`); if the variable happens to hold 0 an
  empty file is stored.
* SIGINT during the PUT of a new name leaves that file behind, with the part of the
  upload that has come, or all of it if the signal falls between lines 361 and 374 of
  `server.c`: `exit` flushes the open file, and `unlink_direction` (line 126) removes
  the listed names only, so `rmdir` fails. `CleanExit` says that nothing else is left.
* GET reads as a `size_t` (`server.c:451`) what PUT stored as an `unsigned int` (lines 80
  and 377): if the bytes behind it are not zero, a wrong length is announced and the
  client reports too little data; a length from 2^32 on is cut, and the client is content
  with a part of the file (`Misread` and `Long` in the model).
* SIGINT between the first two writes of an answer leaves a client with `OK` and no
  length: `handle_get` and `handle_list` (`client.c:121`, `158`) then use an uninitialised
  one (`Cut` in the model).
* `process_client` closes its socket before it takes the mutex to clear its slot
  (`charming_chatroom/server.c:221`). A broadcast in between writes to a closed
  descriptor, and `write_all_to_socket` (`utils.c:66`) retries every error for ever,
  with the mutex held (`Stuck` in the model, which `ComesToRest` excludes: it says that
  nothing *else* keeps anybody waiting); or, if the number has been given to a
  new guest, that one is sent the message once per slot that holds the number, and if
  it was given away between the size and the body, a body that it takes for sizes: that
  guest is out of step with the server from then on (`outOfStep`).
* SIGINT that arrives in `accept` makes it fail, and the chat server exits without
  `cleanup` (`server.c:144`); SIGPIPE is not handled, so a broadcast to a guest that
  has left can end the server.
* The hash counts of `cracker2.c` are never reset between lines.
* `expand_heap` (`malloc/alloc.c:119`) tests what `sbrk` returned by reading an int
  *from* it; when `sbrk` fails that is an access to address -1, where the comment at
  lines 97-98 promises a null pointer. The model crashes.
* `after_end` (`alloc.c:277`) is `STRUCT_SIZE` headers past the next block, not bytes, so
  that a free block near the break is not merged; `HeapExact` holds nevertheless.
* A job that ends with its first quantum is counted as started at -1
  (`libscheduler.c:182`), and the averages divide by the jobs that arrived, not by
  those that finished.
* In `shell.c`, a failing built-in command and a child that was killed count as
  successes for `&&` and `||`; of a line without an operator the history keeps the first
  word only, since `strtok` cuts it (line 535); `!` with an empty history
  asserts (line 603); a recalled line frees the second command of the one that
  recalled it (lines 456-463), which is then read as NULL (line 270); the branch of
  `cont`, `stop` and `kill` asks for three different words at once (line 682); a child
  whose `setpgid` fails kills the shell and its siblings (line 806), and one whose
  `dup2` fails goes on as a second shell (line 798, not modelled); a SIGINT that meets the
  foreground record half built or half freed is undefined; and pids stay listed after
  their processes were reaped (`listed`), so that they may be killed at exit
  when they belong to somebody else.
* `mapreduce.c:144-147` prints the reducer's status for every child; with zero mappers
  the reducer's pipe is never closed (line 124 is in the loop over theirs).
* In `minixfs.c`, a directory's entry goes to block 0 whenever a block was added for
  it (lines 127 and 138), a file grows also when it is overwritten (line 223), an inode stays
  in use when the directory cannot grow (lines 116-126), and `virtual_read`
  returns a count that is off by the old offset (lines 175-176).
* `mini_realloc` (`mini_memcheck.c:107`) returns the old address; `vector_resize`
  starts to destroy at `n+1`; `vector_insert` destroys a slot that was never
  constructed; `par_reduce.c:37` divides by the number of threads, which is zero for
  an empty list.

## 6. Not modelled, and the plan

*Not modelled.* `vector` and `sstring`, `mini_memcheck`, `par_reduce` and the small
exercises are sequential code that takes one step to go wrong, or threads that share
nothing: a unit test reaches all of it, and a model would repeat it line by line.
`rendezvous` is a frame without content and `luscious_locks` has no source.
Of modelled parts are left out: owners, permissions, times and the virtual file of
minixfs; the counters and the accessed bit of the mmu; the two threads and the
terminal of the chat client; streams, words and printing of the shell. They change
nothing that another part reads, or would need data that no property looks at.

*Plan.* The models cover what carries state over time, and every invariant that a run
checks is a theorem. What is left:

1. `CycleDetect` and `PostOrder` of parmake as recursive functions instead of operators:
   that the list of rules which the main thread hands to the workers has no repetitions,
   which `RunInit` states, could then be proved by the argument of `WalkIs`.
2. Safety of `Cracker1` and `Mapreduce` below their liveness: the counter `queue_size`
   agrees with the queue, and a pipe that main has closed is open in the children that
   inherited it and in no other.

The theorems are in eight modules at most: one per group of components that share
lemmas, so a new component joins the module of the run that checks it.
